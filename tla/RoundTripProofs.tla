--------------------------- MODULE RoundTripProofs ---------------------------
(***************************************************************************)
(* Reader and writer put together: every image the reader accepts is one   *)
(* the writer can work on, so that what BootPatchProofs shows of a patch   *)
(* holds of every repack, and the reader finds every block of the output   *)
(* where the writer put it, for every image and every request.  A repack   *)
(* that changes nothing keeps every block, one that is interrupted mixes   *)
(* old and new ones, and AVB metadata survive one that has room for them.  *)
(***************************************************************************)
EXTENDS RoundTrip, BootBlocksProofs, BootPatchProofs

-----------------------------------------------------------------------------
(* The inductive invariant. *)

(* What a patch keeps. *)
WriterInv == PatchInv /\ FillInv /\ AvbInv /\ EntriesInv

(* The extents that the reader has found so far are those of the header,   *)
(* and the header is one of a layout and a page size.                      *)
Sized(b) == IF b < cur /\ HasSize(layout, b) THEN img.size[b] ELSE 0

HeaderRead ==
  /\ img.magic # "other"
  /\ layout = LayoutOf(img.magic, img.version)
  /\ page = PageSizeVal(img.magic, img.version, img.pageField)

ReaderInv ==
  /\ WalkInv
  /\ \A b \in Blocks : got[b].len = Sized(b)
  /\ rpc \in {"dtb", "tail", "parsed"} => cur = 10
  /\ rpc \in {"walk", "dtb", "tail", "parsed"} => HeaderRead

(* The wrapper, and the header behind it, are in the output; or nothing is.*)
WrapperOut ==
  /\ flen >= headerOff
  /\ \/ headerOff = WrapperLen[src.wrapper]
     \/ headerOff = 0 /\ flen = 0 /\ pc \in {"wrapper", "failed", "panic"}
  /\ pc = "wrapper" => headerOff = 0 /\ flen = 0

(* What is read is a file that was there or one that patch() wrote; an     *)
(* output without a byte has no wrapper.                                   *)
Readable ==
  /\ file \in File
  /\ img.len > 0 => WellScanned(file, img)
  /\ \A b \in Blocks : img.size[b] < U32

RoundInv ==
  /\ stage \in {"read", "patch", "reread"}
  /\ WriterInv /\ ReaderInv /\ WrapperOut /\ Readable
  /\ stage = "read" => pc = "idle" /\ NothingWritten

-----------------------------------------------------------------------------
(* The reader's part.                                                      *)

(* The two invariants of a reader that starts on an image. *)
LEMMA ReaderStarts ==
  ASSUME NEW image \in Image, ReaderStart(image)
  PROVE  ReaderInv
<1>1. ReaderInit
  BY DEF ReaderInit
<1>2. WalkInv
  BY <1>1, WalkInit
<1> QED
  BY <1>2 DEF ReaderStart, ReaderInv, Sized, NoExtent, Blocks

(* A reader that starts over, on the new image, starts in its invariant. *)
LEMMA ReaderStartsAgain == ReaderInit' => ReaderInv'
<1>1. ReaderInit => ReaderInv
  BY ReaderStarts DEF ReaderInit
<1> QED
  BY <1>1, PTL

(* A block that was taken has the size of the header. *)
LEMMA ReaderInvStep ==
  ASSUME ReaderInv, [ReaderNext]_readerVars
  PROVE  ReaderInv'
<1> USE DEF ReaderInv
<1>1. WalkInv'
  BY WalkStep
<1>2. /\ img \in Image /\ img.len \in Nat /\ page \in Nat \ {0} /\ off \in Nat
      /\ cur \in Nat /\ got \in [Blocks -> Extent]
      /\ \A b \in Blocks : got[b].off \in Nat /\ got[b].len \in Nat
  BY ReaderValues DEF WalkInv
<1>3. rpc = "header" => cur = 1
  BY DEF WalkInv
<1>4. \A b \in Blocks : ~(b < 1)
  BY DEF Blocks
<1>5. CASE ParseHeader
  <2>1. img' = img /\ got' = got /\ cur' = 1 /\ cur = 1
    BY <1>3, <1>5 DEF ParseHeader
  <2>2. rpc' \in {"error", "panic", "walk"} /\ (rpc' = "walk" => HeaderRead')
    BY <1>5 DEF ParseHeader, HeaderRead
  <2>3. \A b \in Blocks : Sized(b)' = Sized(b)
    BY <2>1, <1>4 DEF Sized
  <2> QED
    BY <1>1, <2>1, <2>2, <2>3
<1>6. CASE SkipBlock
  <2>1. /\ cur \in Blocks /\ BlockSize = 0 /\ cur' = cur + 1 /\ rpc' = "walk"
        /\ UNCHANGED <<img, layout, page, got>> /\ rpc = "walk"
    BY <1>6 DEF SkipBlock
  <2>2. \A b \in Blocks : Sized(b)' = Sized(b)
    <3> TAKE b \in Blocks
    <3>1. CASE b = cur
      BY <3>1, <2>1, <1>2 DEF Sized, BlockSize
    <3>2. CASE b # cur
      <4>1. b < cur' <=> b < cur
        BY <3>2, <2>1, <1>2 DEF Blocks
      <4> QED
        BY <4>1, <2>1 DEF Sized
    <3> QED
      BY <3>1, <3>2
  <2> QED
    BY <1>1, <2>1, <2>2 DEF HeaderRead
<1>7. CASE TakeBlock
  <2>1. /\ cur \in Blocks /\ BlockSize > 0 /\ cur' = cur + 1 /\ rpc' = "walk"
        /\ UNCHANGED <<img, layout, page>> /\ rpc = "walk"
        /\ got' = [got EXCEPT ![cur] = [off |-> off, len |-> BlockSize]]
    BY <1>7 DEF TakeBlock
  <2>2. \A b \in Blocks : got'[b].len = Sized(b)'
    <3> TAKE b \in Blocks
    <3>1. CASE b = cur
      <4>1. got'[b].len = BlockSize /\ b < cur'
        BY <3>1, <2>1, <1>2
      <4> QED
        BY <3>1, <4>1, <2>1 DEF Sized, BlockSize
    <3>2. CASE b # cur
      <4>1. (b < cur' <=> b < cur) /\ got'[b] = got[b]
        BY <3>2, <2>1, <1>2 DEF Blocks
      <4> QED
        BY <4>1, <2>1 DEF Sized
    <3> QED
      BY <3>1, <3>2
  <2> QED
    BY <1>1, <2>1, <2>2 DEF HeaderRead
<1>8. CASE BlockOutOfBounds
  BY <1>1, <1>8 DEF BlockOutOfBounds, Sized
<1>9. CASE ParseRamdisk \/ SplitKernel \/ SliceTail
  <2>1. /\ UNCHANGED <<img, layout, page, cur, got>>
        /\ rpc' \in {"dtb", "tail", "parsed"} => cur = 10
        /\ rpc \in {"walk", "dtb", "tail"}
        /\ rpc' \in ReaderOutcomes \cup {"dtb", "tail"}
    BY <1>9 DEF ParseRamdisk, SplitKernel, SliceTail, ReaderOutcomes
  <2> QED
    BY <1>1, <2>1 DEF Sized, HeaderRead, ReaderOutcomes
<1>10. CASE UNCHANGED readerVars
  BY <1>1, <1>10 DEF readerVars, Sized, HeaderRead
<1> QED
  BY <1>5, <1>6, <1>7, <1>8, <1>9, <1>10 DEF ReaderNext

(* The ranges of what is known of a parsed image. *)
LEMMA ParsedValues ==
  ASSUME ReaderInv
  PROVE  /\ img \in Image /\ img.len \in Nat /\ page \in Nat \ {0} /\ off \in Nat
         /\ layout \in Layouts /\ img.table \in Seq(TableEntry)
         /\ \A b \in Blocks : got[b].off \in Nat /\ got[b].len \in Nat
         /\ img.size \in [Blocks -> Nat] /\ img.fdts \in Fdts
  BY ReaderValues DEF ReaderInv, WalkInv, ReaderTypeOK, Image

(* The kernel is split into two parts of it, the first of which has bytes  *)
(* if the second has.                                                      *)
LEMMA KernelParts ==
  ASSUME ReaderInv
  PROVE  /\ KernelLen \in Nat /\ KernelDtbLen \in Nat
         /\ KernelLen > 0 => got[Kernel].len > 0
         /\ KernelDtbLen > 0 => KernelLen > 0
         /\ RamdiskLen \in Nat /\ RamdiskLen <= got[Ramdisk].len
         /\ got[Ramdisk].len > 0 => RamdiskLen > 0
         /\ KernelLen + KernelDtbLen = KernelBytes
         /\ ~img.mtkKernel => KernelBytes = got[Kernel].len
         /\ ~img.mtkRamdisk => RamdiskLen = got[Ramdisk].len
<1>1. /\ got[Kernel].len \in Nat /\ got[Ramdisk].len \in Nat /\ img.fdts \in Seq(Fdt)
      /\ img.mtkKernel \in BOOLEAN /\ img.mtkRamdisk \in BOOLEAN
  BY ParsedValues DEF Blocks, Kernel, Ramdisk, Image, Fdts
<1>2. KernelBytes \in Nat /\ KernelBytes <= got[Kernel].len
      /\ (~img.mtkKernel => KernelBytes = got[Kernel].len)
  BY <1>1 DEF KernelBytes, StripMtk
<1>3. KernelLen \in Nat /\ KernelLen <= KernelBytes
      /\ (KernelLen < KernelBytes => KernelLen > 0)
  <2>1. ASSUME NEW k \in KernelTrees
        PROVE  /\ img.fdts[k].at \in Nat /\ img.fdts[k].at > 0
               /\ img.fdts[k].at <= KernelBytes
    <3>1. img.fdts[k] \in Fdt /\ img.fdts[k].at > 0
      BY <1>1 DEF KernelTrees, Deciding
    <3>2. ~HeaderCut(img.fdts[k], KernelBytes)
      BY DEF KernelTrees, TreeBegins
    <3> QED
      BY <1>2, <3>1, <3>2 DEF Fdt, HeaderCut
  <2>2. CASE HasKernelDtb
    <3>1. PICK k \in KernelTrees : KernelLen = img.fdts[k].at
      BY <2>2 DEF HasKernelDtb, KernelLen
    <3> QED
      BY <1>2, <2>1, <3>1
  <2>3. CASE ~HasKernelDtb
    BY <1>2, <2>3 DEF KernelLen
  <2> QED
    BY <2>2, <2>3
<1>4. RamdiskLen \in Nat /\ RamdiskLen <= got[Ramdisk].len
      /\ (got[Ramdisk].len > 0 => RamdiskLen > 0)
      /\ (~img.mtkRamdisk => RamdiskLen = got[Ramdisk].len)
  BY <1>1 DEF RamdiskLen, StripMtk
<1> QED
  BY <1>1, <1>2, <1>3, <1>4 DEF KernelDtbLen

(* The fields of the source that a parsed image is for the writer. *)
LEMMA SourceFields ==
  /\ SourceOf.layout = layout /\ SourceOf.page = page /\ SourceOf.size = img.size
  /\ SourceOf.body[Kernel] = KernelLen /\ SourceOf.body[Ramdisk] = RamdiskLen
  /\ \A b \in Blocks \ {Kernel, Ramdisk} : SourceOf.body[b] = got[b].len
  /\ SourceOf.kdtb = KernelDtbLen /\ SourceOf.vendor = HasTable
  /\ SourceOf.fileLen = file.payloadOff + img.len
  /\ SourceOf.payloadOff = file.payloadOff /\ SourceOf.wrapper = file.wrapper
  /\ SourceOf.avb = file.avb
  BY DEF SourceOf, Kernel, Ramdisk, Blocks

(* The source that a parsed image is for the writer has the types of one.  *)
LEMMA SourceIsImage ==
  ASSUME ReaderInv, Readable
  PROVE  SourceOf \in ParsedImage
<1>1. /\ file.wrapper \in Wrappers /\ file.payloadOff \in Nat
      /\ file.kernelPacked \in BOOLEAN /\ file.ramdiskPacked \in BOOLEAN
      /\ file.avb \in [has : BOOLEAN, len : Nat]
  BY DEF Readable, File
<1>2. layout \in Layouts /\ page \in Nat \ {0} /\ img.len \in Nat
  BY ParsedValues
<1>3. img.size \in [Blocks -> 0 .. (U32 - 1)]
  <2>1. img.size \in [Blocks -> Nat]
    BY ParsedValues
  <2>2. \A b \in Blocks : img.size[b] \in 0 .. (U32 - 1)
    BY <2>1, U32Assumption DEF Readable
  <2> QED
    BY <2>1, <2>2
<1>4. KernelLen \in Nat /\ KernelDtbLen \in Nat /\ RamdiskLen \in Nat
  BY KernelParts
<1>5. SourceOf.body \in [Blocks -> Nat]
  BY <1>4, ParsedValues DEF SourceOf
<1>6. HasTable \in BOOLEAN
  BY DEF HasTable
<1>7. SourceOf.entries \in Seq(Replacement)
  <2>1. ASSUME NEW k \in DOMAIN img.table
        PROVE  [len |-> img.table[k].len, packed |-> file.ramdiskPacked] \in Replacement
    BY <1>1, ReaderValues DEF Replacement, ReaderInv, WalkInv
  <2>2. \E n \in Nat : DOMAIN img.table = 1 .. n
    BY ParsedValues
  <2>3. [k \in DOMAIN img.table |->
          [len |-> img.table[k].len, packed |-> file.ramdiskPacked]] \in Seq(Replacement)
    BY <2>1, <2>2
  <2> QED
    BY <2>3 DEF SourceOf
<1> QED
  BY <1>1, <1>2, <1>3, <1>4, <1>5, <1>6, <1>7 DEF SourceOf, ParsedImage

(* A parsed image is well formed, whatever its header, its blocks and its  *)
(* wrapper.                                                                *)
LEMMA SourceIsWellFormed ==
  ASSUME ReaderInv, Readable, rpc = "parsed"
  PROVE  WellParsed(SourceOf)
<1>1. \A b \in Blocks : got[b].len > 0 => HasSize(layout, b)
  BY ParsedValues DEF ReaderInv, Sized
<1>2. \A b \in Blocks : SourceOf.body[b] > 0 => HasSize(SourceOf.layout, b)
  <2> TAKE b \in Blocks
  <2>1. CASE b = Kernel
    BY <2>1, <1>1, SourceFields, KernelParts DEF Blocks, Kernel
  <2>2. CASE b = Ramdisk
    BY <2>2, <1>1, SourceFields, KernelParts, ParsedValues
  <2>3. CASE b \notin {Kernel, Ramdisk}
    BY <2>3, <1>1, SourceFields
  <2> QED
    BY <2>1, <2>2, <2>3
<1>3. SourceOf.body[Signature] =
        IF HasSize(SourceOf.layout, Signature) THEN SourceOf.size[Signature] ELSE 0
  <2>1. cur = 10 /\ Signature \in Blocks /\ Signature < 10
    BY DEF ReaderInv, Signature, Blocks
  <2>2. got[Signature].len = IF HasSize(layout, Signature) THEN img.size[Signature] ELSE 0
    BY <2>1 DEF ReaderInv, Sized
  <2>3. SourceOf.body[Signature] = got[Signature].len
    BY <2>1, SourceFields DEF Signature, Kernel, Ramdisk
  <2> QED
    BY <2>2, <2>3, SourceFields
<1>4. SourceOf.kdtb > 0 => SourceOf.body[Kernel] > 0
  BY KernelParts, SourceFields
<1>5. SourceOf.body[Ramdisk] = RamdiskLen
  BY SourceFields
<1>6. SourceOf.vendor =>
        HasSize(SourceOf.layout, VendorTable) /\ SourceOf.body[Ramdisk] > 0
  <2>1. VendorTable \in Blocks
    BY DEF VendorTable, Blocks
  <2>2. HasTable => HasSize(layout, VendorTable) /\ RamdiskLen > 0
    BY <1>1, <2>1, KernelParts DEF HasTable
  <2> QED
    BY <2>2, SourceFields, Zenon
<1>7. \A k \in DOMAIN SourceOf.entries : SourceOf.entries[k].len <= RamdiskLen
  <2> SUFFICES ASSUME HasTable, NEW k \in DOMAIN img.table
               PROVE  img.table[k].len <= RamdiskLen
    BY DEF SourceOf
  <2>1. EntryInBounds(img.table[k])
    BY DEF ReaderInv, WalkInv, TableValid
  <2>2. img.table[k].off \in Nat /\ img.table[k].len \in Nat
    BY ReaderValues DEF ReaderInv, WalkInv
  <2> QED
    BY <2>1, <2>2, KernelParts DEF EntryInBounds
<1>8. HdrSpace(layout, page) <= img.len /\ HdrSpace(layout, page) \in Nat
      /\ img.len > 0
  <2>1. HdrSpace(layout, page) <= off /\ off <= img.len
    BY DEF ReaderInv, WalkInv
  <2>2. HdrSpace(layout, page) \in Nat /\ TotalSize[layout] <= HdrSpace(layout, page)
        /\ TotalSize[layout] \in Nat \ {0}
    BY ParsedValues, HdrSpaceFacts, LayoutFacts
  <2> QED
    BY <2>1, <2>2, ParsedValues
<1>9. WellScanned(file, img) /\ file.payloadOff \in Nat
  BY <1>8 DEF Readable, File
<1>10. /\ SourceOf.payloadOff >= WrapperLen[SourceOf.wrapper]
       /\ SourceOf.payloadOff + HdrSpace(SourceOf.layout, SourceOf.page)
             <= SourceOf.fileLen
       /\ SourceOf.avb.has => SourceOf.fileLen >= FooterSize
  BY <1>8, <1>9, ParsedValues DEF SourceOf, WellScanned, FooterSize
<1> QED
  BY <1>2, <1>3, <1>4, <1>5, <1>6, <1>7, <1>10 DEF WellParsed

-----------------------------------------------------------------------------
(* The writer's part. *)

(* A patch begins in its invariant. *)
LEMMA WriterEntered == PatchInit' => WriterInv'
<1>1. PatchInit => WriterInv
  BY PatchEntered, FillEntered, AvbEntered, EntriesEntered DEF WriterInv
<1> QED
  BY <1>1, PTL

(* A step of the writer is one of BootPatch, whose invariants it keeps. *)
LEMMA WriterStep ==
  ASSUME WriterInv, [PatchNext]_patchVars
  PROVE  WriterInv'
  BY PatchStep, FillStep, AvbStep, EntriesStep DEF WriterInv

(* Before there is a source, and between two patches. *)
LEMMA WriterIdle ==
  ASSUME src = NoSource, req = NothingReplaced, hdr = src.size, pc = "idle",
         NothingWritten
  PROVE  WriterInv
<1>1. src \in ParsedImage
  BY U32Assumption
  DEF NoSource, ParsedImage, Layouts, Fields, Wrappers
<1>2. req \in Request
  BY DEF NothingReplaced, Request
<1>3. hdr \in [Blocks -> 0 .. (U32 - 1)] /\ 0 \in 0 .. (U32 - 1)
  BY <1>1, U32Assumption DEF ParsedImage
<1>4. PatchTypeOK
  BY <1>1, <1>2, <1>3 DEF PatchTypeOK, NothingWritten, PatchSteps
<1>5. Finished = {}
  BY DEF Finished, NothingWritten, Blocks
<1>6. PatchInv
  BY <1>4, <1>5 DEF PatchInv, Position, InBody, BehindBody, EntriesKnown,
                    BlockChain, NothingWritten, Ramdisk
<1>7. FillInv
  BY <1>5 DEF FillInv, OpenFilled, PaddingFilled, BlocksFilled, SizesLast,
              OldLength, SomeBlock, InBody, BehindBody
<1>8. AvbInv
  BY DEF AvbInv, NothingBehind, MetadataPlaced, InBody, BehindBody
<1>9. EntriesInv
  BY DEF EntriesInv, NothingWritten, Ramdisk
<1> QED
  BY <1>6, <1>7, <1>8, <1>9 DEF WriterInv

(* The output never gets shorter, and so never than the wrapper. *)
LEMMA OutputGrows ==
  ASSUME PatchInv, [PatchNext]_patchVars
  PROVE  flen' >= flen
<1>1. flen \in Nat /\ flen' \in Nat
  BY PatchStep DEF PatchInv, PatchTypeOK
<1>2. ASSUME NEW p, NEW e, flen' = Extended(p, e) PROVE flen' >= flen
  BY <1>1, <1>2 DEF Extended
<1>3. CASE \/ WriteKernel \/ WriteRamdisk \/ CloseRamdisk \/ WriteBlock
           \/ WriteSignature \/ NoTable \/ CloseTable
  <2>1. PICK end \in Nat : CloseBlock(nxt, end)
    BY <1>3, ClosingShape
  <2> QED
    BY <2>1, <1>2 DEF CloseBlock
<1>4. CASE \/ StartEntries \/ WriteReplacedEntry \/ ReplacedDone
           \/ WriteKeptEntry \/ StartTable \/ WriteTableEntry
  BY <1>2, <1>4, WithinExtends
<1>5. CASE WriteWrapper \/ WriteHeader
  BY <1>1, <1>2, <1>5 DEF WriteWrapper, WriteHeader
<1>6. CASE WriteTail
  <2>1. CASE src.avb.has
    <3> DEFINE e == Align(pos, 4096) + src.avb.len
    <3>1. flen' = IF Extended(pos, e) < pos' THEN pos' ELSE Extended(pos, e)
      BY <1>6, <2>1 DEF WriteTail
    <3>2. pos \in Nat /\ src.avb.len \in Nat /\ PatchTypeOK /\ pos' \in Nat
      BY <1>6, PatchStep, SourceValues DEF PatchInv, PatchTypeOK
    <3>3. e \in Nat
      BY <3>2, MetadataAligned
    <3> HIDE DEF e
    <3>4. Extended(pos, e) \in Nat /\ Extended(pos, e) >= flen
      BY <3>2, <3>3, ExtendedFacts
    <3> QED
      BY <1>1, <3>1, <3>2, <3>4
  <2>2. CASE ~src.avb.has
    BY <1>2, <1>6, <2>2 DEF WriteTail
  <2> QED
    BY <2>1, <2>2
<1>7. CASE StoreSize \/ StoreDtboOffset \/ SizesDone \/ SealWrapper \/ WriteFails
  BY <1>1, <1>7 DEF StoreSize, StoreDtboOffset, SizesDone, SealWrapper, WriteFails
<1>8. CASE UNCHANGED patchVars
  BY <1>1, <1>8 DEF patchVars
<1> QED
  BY <1>3, <1>4, <1>5, <1>6, <1>7, <1>8 DEF PatchNext

(* The source is never changed, the offset of the header only by the wrapper. *)
LEMMA WrapperOnce ==
  ASSUME PatchNext, ~WriteWrapper
  PROVE  /\ UNCHANGED <<src, req, headerOff>> /\ pc' # "wrapper"
         /\ pc \in {"wrapper", "failed", "panic"} => flen' = flen /\ pc' = "failed"
<1>1. CASE \/ WriteHeader \/ WriteKernel \/ WriteRamdisk \/ StartEntries
           \/ WriteReplacedEntry \/ ReplacedDone \/ WriteKeptEntry
  BY <1>1 DEF WriteHeader, WriteKernel, WriteRamdisk, StartEntries,
              WriteReplacedEntry, ReplacedDone, WriteKeptEntry
<1>2. CASE \/ CloseRamdisk \/ WriteBlock \/ WriteSignature \/ NoTable
           \/ StartTable \/ WriteTableEntry \/ CloseTable
  BY <1>2 DEF CloseRamdisk, WriteBlock, WriteSignature, NoTable, StartTable,
              WriteTableEntry, CloseTable
<1>3. CASE \/ WriteTail \/ StoreSize \/ StoreDtboOffset \/ SizesDone
           \/ SealWrapper \/ WriteFails
  BY <1>3 DEF WriteTail, StoreSize, StoreDtboOffset, SizesDone, SealWrapper,
              WriteFails
<1> QED
  BY <1>1, <1>2, <1>3 DEF PatchNext

(* A step keeps the wrapper of the output that of the source. *)
LEMMA WrapperOutStep ==
  ASSUME PatchInv, WrapperOut, [PatchNext]_patchVars
  PROVE  WrapperOut'
<1>v. flen \in Nat /\ flen' \in Nat /\ headerOff \in Nat
  BY PatchStep DEF PatchInv, PatchTypeOK
<1>1. CASE WriteWrapper
  <2>1. WrapperLen[src.wrapper] \in Nat
    BY WrapperLens, SourceValues DEF PatchInv
  <2>2. flen = 0 /\ headerOff = 0
    BY <1>1 DEF WriteWrapper, WrapperOut
  <2>3. \/ /\ headerOff' = WrapperLen[src.wrapper]
           /\ flen' = Extended(0, WrapperLen[src.wrapper])
           /\ pc' = "header"
        \/ pc' = "panic" /\ UNCHANGED <<headerOff, flen>>
    BY <1>1 DEF WriteWrapper
  <2>4. src' = src
    BY <1>1 DEF WriteWrapper
  <2> QED
    BY <2>1, <2>2, <2>3, <2>4 DEF WrapperOut, Extended
<1>2. CASE PatchNext /\ ~WriteWrapper
  <2>1. /\ UNCHANGED <<src, headerOff>> /\ pc' # "wrapper" /\ flen' >= flen
        /\ pc \in {"wrapper", "failed", "panic"} => flen' = flen /\ pc' = "failed"
    BY <1>2, WrapperOnce, OutputGrows
  <2> QED
    BY <1>v, <2>1 DEF WrapperOut
<1>3. CASE UNCHANGED patchVars
  BY <1>3 DEF patchVars, WrapperOut
<1> QED
  BY <1>1, <1>2, <1>3

-----------------------------------------------------------------------------
(* Both together. *)

(* Reading the first image, nothing is known of an output. *)
LEMMA RoundEntered == RoundTripInit => RoundInv
<1> SUFFICES ASSUME NEW p \in Files, ReadFirst(p.file, p.image)
             PROVE  RoundInv
  BY DEF RoundTripInit
<1>1. /\ p.file \in File /\ p.image \in Image /\ WellScanned(p.file, p.image)
      /\ \A b \in Blocks : p.image.size[b] < U32
  BY FilesAssumption
<1>2. /\ ReaderStart(p.image) /\ file = p.file /\ stage = "read"
      /\ src = NoSource /\ req = NothingReplaced /\ hdr = src.size
      /\ pc = "idle" /\ NothingWritten
  BY DEF ReadFirst
<1>3. ReaderInv
  BY <1>1, <1>2, ReaderStarts
<1>4. img = p.image
  BY <1>2 DEF ReaderStart
<1>5. WriterInv
  BY <1>2, WriterIdle
<1>6. WrapperOut
  BY <1>2 DEF WrapperOut, NothingWritten, NoSource, WrapperLen
<1>7. Readable
  BY <1>1, <1>2, <1>4 DEF Readable
<1> QED
  BY <1>2, <1>3, <1>5, <1>6, <1>7 DEF RoundInv

(* The reader changes neither the image nor what the writer has. *)
LEMMA ReadStep ==
  ASSUME RoundInv, Read
  PROVE  RoundInv'
<1>1. ReaderInv'
  BY ReaderInvStep DEF RoundInv, Read
<1>2. img' = img /\ UNCHANGED <<patchVars, file, stage>>
  BY DEF Read, ReaderNext, ParseHeader, SkipBlock, TakeBlock, BlockOutOfBounds,
         ParseRamdisk, SplitKernel, SliceTail
<1>3. WriterInv'
  BY <1>2, WriterStep DEF RoundInv
<1>4. WrapperOut' /\ (stage = "read" => pc' = "idle" /\ NothingWritten')
  BY <1>2 DEF RoundInv, WrapperOut, NothingWritten, patchVars
<1>5. Readable'
  BY <1>2 DEF RoundInv, Readable, WellScanned
<1> QED
  BY <1>1, <1>2, <1>3, <1>4, <1>5 DEF RoundInv

(* A repack is a start of PatchSpec: nothing is asked of an image that its *)
(* being parsed does not already give.                                     *)
LEMMA RepackStep ==
  ASSUME RoundInv, NEW r \in Request, Repack(r)
  PROVE  RoundInv' /\ PatchInit'
<1>1. SourceOf \in ParsedImage /\ WellParsed(SourceOf)
  BY SourceIsImage, SourceIsWellFormed DEF RoundInv, Repack
<1>2. /\ src' = SourceOf /\ req' = r /\ hdr' = SourceOf.size /\ pc' = "wrapper"
      /\ UNCHANGED <<readerVars, file>> /\ stage' = "patch"
      /\ UNCHANGED <<nxt, i, pos, flen, prefix, headerOff, bodyVars, dtboOff,
                     magic, tailVars>>
  BY SourceFields DEF Repack
<1>3. NothingWritten
  BY DEF RoundInv, Repack
<1>4. NothingWritten'
  BY <1>2, <1>3 DEF NothingWritten, bodyVars, tailVars
<1>5. PatchStart(src, req)' /\ WellParsed(src)'
  BY <1>1, <1>2, <1>4 DEF PatchStart, WellParsed
<1>6. PatchInit'
  BY <1>1, <1>2, <1>5 DEF PatchInit
<1>7. WriterInv'
  BY <1>6, WriterEntered
<1>8. ReaderInv'
  BY <1>2, ReaderInvStep DEF RoundInv
<1>9. WrapperOut'
  BY <1>2, <1>4 DEF WrapperOut, NothingWritten
<1>10. Readable'
  BY <1>2 DEF RoundInv, Readable, WellScanned, readerVars
<1> QED
  BY <1>2, <1>6, <1>7, <1>8, <1>9, <1>10 DEF RoundInv

(* Each of the steps keeps the writer's part of the invariant. *)
LEMMA PatchPartStep ==
  ASSUME RoundInv, Patch
  PROVE  RoundInv'
<1>1. WriterInv' /\ WrapperOut'
  BY WriterStep, WrapperOutStep DEF RoundInv, WriterInv, Patch
<1>2. UNCHANGED <<readerVars, file, stage>> /\ stage = "patch"
  BY DEF Patch
<1>3. ReaderInv'
  BY <1>2, ReaderInvStep DEF RoundInv
<1>4. Readable'
  BY <1>2 DEF RoundInv, Readable, WellScanned, readerVars
<1> QED
  BY <1>1, <1>2, <1>3, <1>4 DEF RoundInv

(* What patch() has written, finished or not, is an image that can be read.*)
LEMMA ReopenStep ==
  ASSUME RoundInv, Reopen
  PROVE  RoundInv'
<1>1. WriterInv'
  BY WriterStep DEF RoundInv, Reopen
<1>2. UNCHANGED patchVars /\ stage' = "reread"
  BY DEF Reopen
<1>3. WrapperOut'
  BY <1>2 DEF RoundInv, WrapperOut, patchVars
<1>t. PatchTypeOK
  BY DEF RoundInv, WriterInv, PatchInv
<1>4. /\ flen - headerOff \in Nat /\ headerOff \in Nat /\ flen \in Nat
      /\ footer.at \in Nat /\ vbmeta.at \in Nat /\ vbmeta.len \in Nat
      /\ hdr \in [Blocks -> 0 .. (U32 - 1)]
  BY <1>t DEF RoundInv, WrapperOut, PatchTypeOK
<1>p. PICK mk \in MtkKernelNow, mr \in MtkRamdiskNow,
           rows \in [DOMAIN img.table -> Rows] :
        \E f \in FdtsNow(mk) : img' = Output(mk, mr, rows, f)
  BY DEF Reopen
<1>5. PICK f \in FdtsNow(mk) : img' = Output(mk, mr, rows, f)
  BY <1>p
<1>6. img' \in Image
  <2>1. img \in Image /\ klen \in Nat /\ hdr \in [Blocks -> Nat]
    BY <1>4, <1>t, ParsedValues DEF RoundInv, PatchTypeOK
  <2>2. /\ (IF magic THEN img.magic ELSE "other") \in {"ANDROID!", "VNDRBOOT", "other"}
        /\ img.version \in Nat /\ img.pageField \in Nat /\ img.entrySize \in Nat
    BY <2>1 DEF Image
  <2>3. mk \in BOOLEAN /\ mr \in BOOLEAN
    <3>1. img.mtkKernel \in BOOLEAN /\ img.mtkRamdisk \in BOOLEAN
      BY <2>1 DEF Image
    <3> QED
      BY <1>p, <3>1 DEF MtkKernelNow, MtkRamdiskNow, BeginsWithMtk
  <2>4. rows \in Seq(TableEntry)
    <3>1. PICK n \in Nat : DOMAIN img.table = 1 .. n
      BY <2>1 DEF Image
    <3>2. rows \in [1 .. n -> TableEntry]
      BY <1>p, <3>1, RowsAssumption
    <3> QED
      BY <3>2
  <2>5. f \in Fdts
    BY <1>5, <2>1, KernelFdtsAssumption DEF FdtsNow, Image
  <2> QED
    BY <1>4, <1>5, <2>1, <2>2, <2>3, <2>4, <2>5 DEF Image, Output
<1>7. PICK image \in Image : img' = image
  BY <1>6
<1>8. ReaderInv'
  <2>1. ReaderStart(image)'
    BY <1>7 DEF Reopen, ReaderStart
  <2>2. ReaderInit'
    BY <2>1 DEF ReaderInit
  <2> QED
    BY <2>2, ReaderStartsAgain
<1>9. Readable'
  <2>1. /\ file' = [wrapper |-> src.wrapper, payloadOff |-> headerOff,
                    kernelPacked |-> PackedNow(req.replace[Kernel], src.kernelPacked),
                    ramdiskPacked |-> PackedNow(req.replace[Ramdisk], src.ramdiskPacked),
                    avb |-> [has |-> FindsAvb, len |-> vbmeta.len]]
    BY DEF Reopen
  <2>2. src.wrapper \in Wrappers /\ src.kernelPacked \in BOOLEAN
        /\ src.ramdiskPacked \in BOOLEAN /\ src.avb \in [has : BOOLEAN, len : Nat]
    BY <1>t DEF PatchTypeOK, ParsedImage
  <2>3. \A b \in Blocks : req.replace[b] = NONE \/ req.replace[b].packed \in BOOLEAN
    BY <1>t, SourceValues DEF Replacement
  <2>4. /\ PackedNow(req.replace[Kernel], src.kernelPacked) \in BOOLEAN
        /\ PackedNow(req.replace[Ramdisk], src.ramdiskPacked) \in BOOLEAN
    BY <2>2, <2>3 DEF PackedNow, Kernel, Ramdisk, Blocks
  <2>5. FindsAvb \in BOOLEAN /\ (FindsAvb => flen - headerOff >= FooterSize)
    BY <1>4 DEF FindsAvb, FooterSize
  <2>6. file' \in File
    BY <1>4, <2>1, <2>2, <2>4, <2>5 DEF File
  <2>7. flen - headerOff > 0 => headerOff >= WrapperLen[src.wrapper]
    <3>1. WrapperLen[src.wrapper] \in Nat
      BY <2>2, WrapperLens
    <3> QED
      BY <1>4, <3>1 DEF RoundInv, WrapperOut
  <2>8. img'.len > 0 => WellScanned(file', img')
    BY <1>5, <2>1, <2>5, <2>7 DEF WellScanned, Output
  <2>9. \A b \in Blocks : img'.size[b] < U32
    BY <1>4, <1>5, U32Assumption DEF Output
  <2> QED
    BY <2>6, <2>8, <2>9 DEF Readable, WellScanned
<1> QED
  BY <1>1, <1>2, <1>3, <1>8, <1>9 DEF RoundInv

(* Every state of a round trip is one in which the invariants of its parts *)
(* hold.                                                                   *)
THEOREM RoundTripInvariant == RoundTripSpec => []RoundInv
<1>1. RoundInv /\ [RoundTripNext]_vars => RoundInv'
  <2> SUFFICES ASSUME RoundInv, [RoundTripNext]_vars PROVE RoundInv'
    OBVIOUS
  <2>1. CASE UNCHANGED vars
    <3>1. UNCHANGED <<patchVars, readerVars, file, stage>>
      BY <2>1 DEF vars
    <3>2. WriterInv' /\ ReaderInv'
      BY <3>1, WriterStep, ReaderInvStep DEF RoundInv
    <3>3. WrapperOut' /\ Readable' /\ (NothingWritten => NothingWritten') /\ pc' = pc
      BY <3>1 DEF RoundInv, WrapperOut, Readable, WellScanned, NothingWritten,
                  patchVars, readerVars
    <3> QED
      BY <3>1, <3>2, <3>3 DEF RoundInv
  <2>2. ASSUME NEW r \in RequestsFor(SourceOf) \cap Request, Repack(r)
        PROVE  RoundInv'
    BY <2>2, RepackStep
  <2> QED
    BY <2>1, <2>2, ReadStep, PatchPartStep, ReopenStep DEF RoundTripNext
<1> QED
  BY <1>1, RoundEntered, PTL DEF RoundTripSpec

(* The types of reader and writer, through any number of their steps. *)
THEOREM RoundTripTypes == RoundTripSpec => []RoundTripTypeOK
<1>1. RoundInv => RoundTripTypeOK
  BY DEF RoundInv, WriterInv, PatchInv, ReaderInv, WalkInv, Readable,
         RoundTripTypeOK
<1> QED
  BY <1>1, RoundTripInvariant, PTL

(* Whatever file is opened, an image that the reader accepts is one that   *)
(* patch() can work on.                                                    *)
THEOREM RoundTripWellFormed == RoundTripSpec => []ParsedIsWellFormed
<1>1. RoundInv => ParsedIsWellFormed
  BY SourceIsWellFormed DEF RoundInv, ParsedIsWellFormed
<1> QED
  BY <1>1, RoundTripInvariant, PTL

(* What is proved of a patch holds of every repack of a file: the chain of *)
(* pages, the sizes in the header, the vendor ramdisks and the end.        *)
THEOREM RoundTripChain == RoundTripSpec => []BlockChain
<1>1. RoundInv => BlockChain
  BY DEF RoundInv, WriterInv, PatchInv
<1> QED
  BY <1>1, RoundTripInvariant, PTL

(* In every state of a round trip the sizes that were stored are backed.   *)
THEOREM RoundTripSizes == RoundTripSpec => []NewSizesBacked
<1>1. RoundInv => NewSizesBacked
  BY SizesBacked DEF RoundInv, WriterInv
<1> QED
  BY <1>1, RoundTripInvariant, PTL

(* The vendor ramdisks of a repacked image do not overlap.                 *)
THEOREM RoundTripEntries == RoundTripSpec => []EntriesDisjoint
<1>1. RoundInv => EntriesDisjoint
  BY EntriesApart DEF RoundInv, WriterInv
<1> QED
  BY <1>1, RoundTripInvariant, PTL

(* A repacked image is not cut off, and its AVB metadata are in place.     *)
THEOREM RoundTripTail == RoundTripSpec => []TailKept
<1>1. RoundInv => TailKept
  BY FilledToTheEnd, MetadataInPlace DEF RoundInv, WriterInv, TailKept
<1> QED
  BY <1>1, RoundTripInvariant, PTL

-----------------------------------------------------------------------------
(* Reading back.  What the header says at each point of a patch: the sizes *)
(* up to a counter are those of the blocks that were written.              *)

InFront == pc \in {"idle", "wrapper", "header"} \/ InBody

Stored(b) == /\ HasSize(src.layout, b) /\ b # Signature
             /\ b = VendorTable => tableSz > 0

Counter == CASE pc = "sizes"      -> i
             [] pc = "dtboOffset" -> RecoveryDtbo + 1
             [] OTHER             -> 10

SizesSaid ==
  \A b \in Blocks :
    hdr[b] = IF b < Counter /\ Stored(b) THEN StoredSize(b) ELSE src.size[b]

DtboSaid ==
  Counter > RecoveryDtbo /\ pc # "dtboOffset" /\ HasSize(src.layout, RecoveryDtbo) =>
    dtboOff = DtboOffset

(* The first block begins behind the header, the signature is a copy.      *)
FirstAt == at[1] = headerOff + HdrSpace(src.layout, src.page)
SignatureKept == nxt > Signature => len[Signature] = src.body[Signature]

HeaderInv ==
  /\ InFront => hdr = src.size
  /\ BehindBody =>
       /\ SizesSaid /\ DtboSaid
       /\ Kernel < Counter /\ magic => HasSize(src.layout, Kernel)
       /\ pc = "dtboOffset" => i = RecoveryDtbo
  /\ InBody \/ BehindBody => FirstAt /\ SignatureKept

(* Closing a block changes neither the header nor what lies in front.      *)
LEMMA HeaderInvClosing ==
  ASSUME PatchInv, HeaderInv,
         WriteKernel \/ WriteRamdisk \/ CloseRamdisk \/ WriteBlock
         \/ WriteSignature \/ NoTable \/ CloseTable
  PROVE  HeaderInv'
<1>1. /\ InBody /\ nxt \in Blocks /\ pc' = "body" /\ UNCHANGED <<src, headerOff, headerVars>>
  BY ClosingShape
<1>2. PICK end \in Nat : end >= pos /\ CloseBlock(nxt, end)
  BY ClosingShape
<1>3. /\ nxt' = nxt + 1
      /\ \A b \in Blocks : b # nxt => len'[b] = len[b]
      /\ \A b \in 1 .. 10 : b # nxt + 1 => at'[b] = at[b]
  BY <1>1, <1>2, CloseBlockFacts
<1>4. FirstAt /\ SignatureKept
  BY <1>1 DEF HeaderInv
<1>5. FirstAt'
  <2>1. 1 \in 1 .. 10 /\ 1 # nxt + 1
    BY <1>1 DEF Blocks
  <2> QED
    BY <1>1, <1>3, <1>4, <2>1 DEF FirstAt
<1>6. SignatureKept'
  <2>1. CASE nxt = Signature
    <3>1. WriteSignature
      BY <2>1
      DEF WriteKernel, WriteRamdisk, CloseRamdisk, WriteBlock, NoTable, CloseTable,
          PatchInv, Position, Kernel, Ramdisk, Second, Extra, RecoveryDtbo, Dtb,
          Signature, VendorTable, Bootconfig
    <3>2. CloseBlock(Signature, pos + src.body[Signature]) /\ pc = "body"
      BY <3>1 DEF WriteSignature
    <3>3. PatchTypeOK /\ pos = at[nxt] /\ pos \in Nat /\ Signature \in Blocks
      BY <3>2 DEF PatchInv, Position, PatchTypeOK, Signature, Blocks
    <3>4. src.body[Signature] \in Nat
      BY <3>3, SourceValues
    <3>5. pos + src.body[Signature] \in Nat /\ pos + src.body[Signature] >= pos
      BY <3>3, <3>4
    <3>6. PICK e \in Nat : e = pos + src.body[Signature]
      BY <3>5
    <3>7. CloseBlock(nxt, e) /\ e >= pos
      BY <2>1, <3>2, <3>5, <3>6
    <3>8. len'[nxt] = e - at[nxt]
      BY <1>1, <3>7, CloseBlockFacts
    <3> QED
      BY <1>1, <2>1, <3>3, <3>4, <3>6, <3>8 DEF SignatureKept
  <2>2. CASE nxt # Signature
    BY <1>1, <1>3, <1>4, <2>2 DEF SignatureKept, Signature, Blocks
  <2> QED
    BY <2>1, <2>2
<1>7. hdr' = hdr /\ hdr = src.size
  BY <1>1 DEF HeaderInv, InFront, headerVars
<1> QED
  BY <1>1, <1>5, <1>6, <1>7 DEF HeaderInv, BehindBody

(* One size field after the other is stored, with the offset of the        *)
(* recovery dtbo in between.                                               *)
LEMMA HeaderInvStored ==
  ASSUME PatchInv, HeaderInv,
         StoreSize \/ StoreDtboOffset \/ SizesDone \/ SealWrapper
  PROVE  HeaderInv'
<1>1. /\ BehindBody /\ BehindBody' /\ ~InFront' /\ ~InBody'
      /\ UNCHANGED <<src, nxt, headerOff, bodyVars>>
  BY DEF StoreSize, StoreDtboOffset, SizesDone, SealWrapper, BehindBody, InFront,
         InBody
<1>2. FirstAt' /\ SignatureKept'
  BY <1>1 DEF HeaderInv, FirstAt, SignatureKept, bodyVars
<1>3. \A b \in Blocks : Stored(b)' = Stored(b) /\ StoredSize(b)' = StoredSize(b)
  BY <1>1 DEF Stored, StoredSize, bodyVars
<1>4. DtboOffset' = DtboOffset
  BY <1>1 DEF DtboOffset, bodyVars
<1>5. /\ hdr \in [Blocks -> 0 .. (U32 - 1)] /\ i \in Nat \ {0} /\ Blocks = 1 .. 9
  BY DEF PatchInv, PatchTypeOK, Blocks
<1>6. /\ SizesSaid /\ DtboSaid
      /\ Kernel < Counter /\ magic => HasSize(src.layout, Kernel)
      /\ pc = "dtboOffset" => i = RecoveryDtbo
  BY <1>1 DEF HeaderInv
<1> USE DEF Kernel, RecoveryDtbo
<1>7. CASE StoreSize
  <2>1. /\ pc = "sizes" /\ i \in Blocks /\ Counter = i
        /\ hdr' = IF Stored(i) THEN [hdr EXCEPT ![i] = StoredSize(i)] ELSE hdr
        /\ magic' = (magic /\ (i = Kernel => Stored(i)))
        /\ \/ i = RecoveryDtbo /\ Stored(i) /\ pc' = "dtboOffset" /\ i' = i
           \/ ~(i = RecoveryDtbo /\ Stored(i)) /\ i' = i + 1 /\ pc' = "sizes"
        /\ dtboOff' = dtboOff
    BY <1>7 DEF StoreSize, Stored, Counter
  <2>2. Counter' = i + 1
    BY <2>1, <1>5 DEF Counter
  <2>3. SizesSaid'
    <3> SUFFICES ASSUME NEW b \in Blocks
                 PROVE  hdr'[b] = IF b < i + 1 /\ Stored(b) THEN StoredSize(b)
                                  ELSE src.size[b]
      BY <1>1, <1>3, <2>2 DEF SizesSaid
    <3>1. hdr[b] = IF b < i /\ Stored(b) THEN StoredSize(b) ELSE src.size[b]
      BY <1>6, <2>1 DEF SizesSaid
    <3>2. CASE b = i
      BY <1>5, <2>1, <3>1, <3>2
    <3>3. CASE b # i
      <4>1. hdr'[b] = hdr[b] /\ (b < i + 1 <=> b < i)
        BY <1>5, <2>1, <3>3
      <4> QED
        BY <3>1, <4>1
    <3> QED
      BY <3>2, <3>3
  <2>4. DtboSaid'
    <3>1. CASE i = RecoveryDtbo
      <4>1. HasSize(src.layout, RecoveryDtbo) => Stored(RecoveryDtbo)
        BY DEF Stored, Signature, VendorTable
      <4> QED
        BY <1>1, <2>1, <3>1, <4>1 DEF DtboSaid
    <3>2. CASE i # RecoveryDtbo
      <4>1. Counter' > RecoveryDtbo => Counter > RecoveryDtbo
        BY <1>5, <2>1, <2>2, <3>2
      <4> QED
        BY <1>1, <1>4, <1>6, <2>1, <4>1 DEF DtboSaid
    <3> QED
      BY <3>1, <3>2
  <2>5. magic' => HasSize(src.layout, Kernel)
    <3>1. i = Kernel \/ Kernel < Counter
      BY <1>5, <2>1
    <3> QED
      BY <1>6, <2>1, <3>1 DEF Stored
  <2> QED
    BY <1>1, <1>2, <2>1, <2>3, <2>4, <2>5 DEF HeaderInv
<1>8. CASE StoreDtboOffset
  <2>1. /\ pc = "dtboOffset" /\ dtboOff' = DtboOffset /\ i' = i + 1 /\ pc' = "sizes"
        /\ hdr' = hdr /\ magic' = magic
    BY <1>8 DEF StoreDtboOffset
  <2>2. Counter' = Counter
    BY <1>6, <2>1 DEF Counter
  <2>3. SizesSaid'
    BY <1>1, <1>3, <1>6, <2>1, <2>2 DEF SizesSaid
  <2>4. DtboSaid'
    BY <1>4, <2>1 DEF DtboSaid
  <2> QED
    BY <1>1, <1>2, <1>6, <2>1, <2>2, <2>3, <2>4 DEF HeaderInv
<1>9. CASE SizesDone \/ SealWrapper
  <2>1. /\ pc' \in {"seal", "done"} /\ UNCHANGED <<hdr, magic, dtboOff>>
        /\ (pc = "sizes" /\ i \notin Blocks) \/ pc = "seal"
    BY <1>9 DEF SizesDone, SealWrapper, headerVars
  <2>2. Counter' = 10 /\ Counter >= 10
    BY <1>5, <2>1 DEF Counter
  <2>3. \A b \in Blocks : b < Counter /\ b < Counter'
    <3>1. Counter \in Nat
      BY <1>5, <2>1 DEF Counter
    <3> QED
      BY <1>5, <2>2, <3>1
  <2>4. SizesSaid'
    BY <1>1, <1>3, <1>6, <2>1, <2>3 DEF SizesSaid
  <2>5. DtboSaid'
    <3>1. Counter > RecoveryDtbo /\ pc # "dtboOffset"
      BY <1>5, <2>1, <2>3
    <3> QED
      BY <1>1, <1>4, <1>6, <2>1, <3>1 DEF DtboSaid
  <2>6. Kernel < Counter
    BY <1>5, <2>3
  <2> QED
    BY <1>1, <1>2, <1>6, <2>1, <2>4, <2>5, <2>6 DEF HeaderInv
<1> QED
  BY <1>7, <1>8, <1>9

(* Each of the steps keeps what the output's header says. *)
LEMMA HeaderInvStep ==
  ASSUME PatchInv, HeaderInv, [PatchNext]_patchVars
  PROVE  HeaderInv'
<1>1. CASE \/ WriteKernel \/ WriteRamdisk \/ CloseRamdisk \/ WriteBlock
           \/ WriteSignature \/ NoTable \/ CloseTable
  BY <1>1, HeaderInvClosing
<1>2. CASE StoreSize \/ StoreDtboOffset \/ SizesDone \/ SealWrapper
  BY <1>2, HeaderInvStored
<1>3. CASE WriteWrapper
  BY <1>3 DEF WriteWrapper, HeaderInv, InFront, InBody, BehindBody, headerVars
<1>4. CASE WriteHeader
  <2>1. /\ pc = "header" /\ nxt = 1 /\ nxt' = 1 /\ hdr' = hdr /\ src' = src
        /\ headerOff' = headerOff
        /\ \/ pc' = "failed"
           \/ /\ pc' = "body"
              /\ at' = [at EXCEPT ![1] = headerOff + HdrSpace(src.layout, src.page)]
    BY <1>4 DEF WriteHeader, PatchInv, Position, headerVars
  <2>2. at \in [1 .. 10 -> Nat]
    BY DEF PatchInv, PatchTypeOK
  <2>3. pc' = "body" => FirstAt'
    BY <2>1, <2>2 DEF FirstAt
  <2> QED
    BY <2>1, <2>3 DEF HeaderInv, InFront, InBody, BehindBody, SignatureKept, Signature
<1>5. CASE \/ StartEntries \/ WriteReplacedEntry \/ ReplacedDone
           \/ WriteKeptEntry \/ StartTable \/ WriteTableEntry
  <2>1. InBody /\ ~BehindBody' /\ UNCHANGED <<src, nxt, at, len, hdr>>
    BY <1>5, WithinExtends
  <2>2. headerOff' = headerOff
    BY <1>5 DEF StartEntries, WriteReplacedEntry, ReplacedDone, WriteKeptEntry,
                StartTable, WriteTableEntry
  <2> QED
    BY <2>1, <2>2 DEF HeaderInv, InFront, FirstAt, SignatureKept
<1>6. CASE WriteTail
  <2>1. /\ InBody /\ pc' = "sizes" /\ i' = 1
        /\ UNCHANGED <<src, nxt, headerOff, bodyVars, headerVars>>
    BY <1>6 DEF WriteTail, InBody
  <2>2. Counter' = 1
    BY <2>1 DEF Counter
  <2>3. SizesSaid'
    BY <2>1, <2>2 DEF HeaderInv, InFront, SizesSaid, Blocks, headerVars
  <2> QED
    BY <2>1, <2>2, <2>3
    DEF HeaderInv, InFront, InBody, BehindBody, DtboSaid, FirstAt, SignatureKept,
        RecoveryDtbo, Kernel, bodyVars
<1>7. CASE WriteFails
  BY <1>7 DEF WriteFails, HeaderInv, InFront, InBody, BehindBody
<1>8. CASE UNCHANGED patchVars
  BY <1>8
  DEF patchVars, HeaderInv, InFront, InBody, BehindBody, SizesSaid, Stored,
      StoredSize, Counter, DtboSaid, DtboOffset, FirstAt, SignatureKept
<1> QED
  BY <1>1, <1>2, <1>3, <1>4, <1>5, <1>6, <1>7, <1>8 DEF PatchNext

(* The header of an image is as the reader found it when a patch begins.   *)
LEMMA HeaderInvEntered == PatchInit' => HeaderInv'
<1>1. PatchInit => HeaderInv
  BY DEF PatchInit, PatchStart, HeaderInv, InFront, InBody, BehindBody
<1> QED
  BY <1>1, PTL

-----------------------------------------------------------------------------
(* What is not replaced is written as long as it was.                      *)

KernelKept ==
  nxt > Kernel /\ SameKernel =>
    klen = src.body[Kernel] /\ len[Kernel] = src.body[Kernel] + src.kdtb

OthersKept ==
  \A b \in Blocks \ {Kernel, VendorTable} :
    b < nxt /\ req.replace[b] = NONE /\ (b = Ramdisk => ~src.vendor) =>
      len[b] = src.body[b]

NoTableMade == nxt > VendorTable /\ ~src.vendor => len[VendorTable] = 0

KeptLens == InBody \/ BehindBody => KernelKept /\ OthersKept /\ NoTableMade

(* A block that is closed was copied, unless something replaces it.        *)
LEMMA KeptClosing ==
  ASSUME PatchInv, KeptLens,
         WriteKernel \/ WriteRamdisk \/ CloseRamdisk \/ WriteBlock
         \/ WriteSignature \/ NoTable \/ CloseTable
  PROVE  KeptLens'
<1>1. /\ InBody /\ nxt \in Blocks /\ pc' = "body" /\ UNCHANGED <<src, req>>
      /\ src.vendor /\ nxt = Ramdisk => pc = "kept"
  BY ClosingShape
<1>2. PICK end \in Nat : end >= pos /\ CloseBlock(nxt, end)
  BY ClosingShape
<1>3. /\ nxt' = nxt + 1 /\ Blocks = 1 .. 9
      /\ \A b \in Blocks : b # nxt => len'[b] = len[b]
  BY <1>1, <1>2, CloseBlockFacts DEF Blocks
<1>4. /\ KernelKept /\ OthersKept /\ NoTableMade
      /\ src.body \in [Blocks -> Nat] /\ src.kdtb \in Nat
  BY <1>1, SourceValues DEF KeptLens, PatchInv
<1>5. ASSUME NEW n \in Nat, pc = "body", CloseBlock(nxt, pos + n)
      PROVE  len'[nxt] = n
  <2>1. pos = at[nxt] /\ pos \in Nat
    BY <1>5 DEF PatchInv, Position, PatchTypeOK
  <2>2. PICK e \in Nat : e = pos + n
    BY <2>1
  <2>3. len'[nxt] = e - at[nxt]
    BY <1>1, <1>5, <2>1, <2>2, CloseBlockFacts
  <2> QED
    BY <2>1, <2>2, <2>3
<1>6. KernelKept'
  <2>1. CASE WriteKernel
    <3> SUFFICES ASSUME SameKernel
                 PROVE  klen' = src.body[Kernel] /\ len'[Kernel] = src.body[Kernel] + src.kdtb
      BY <1>1 DEF KernelKept, SameKernel
    <3>1. PICK n \in Written(req.replace[Kernel], src.body[Kernel], src.kernelPacked) :
            klen' = n /\ CloseBlock(Kernel, pos + n + src.kdtb)
      BY <2>1 DEF WriteKernel, SameKernel
    <3>2. n = src.body[Kernel] /\ n \in Nat /\ nxt = Kernel /\ pc = "body"
      BY <1>4, <2>1, <3>1 DEF SameKernel, Written, WriteKernel, Kernel, Blocks
    <3>3. PICK m \in Nat : m = n + src.kdtb
      BY <1>4, <3>2
    <3>4. pos + n + src.kdtb = pos + m
      <4>1. pos \in Nat
        BY DEF PatchInv, PatchTypeOK
      <4> QED
        BY <1>4, <3>2, <3>3, <4>1
    <3>5. CloseBlock(nxt, pos + m)
      BY <3>1, <3>2, <3>4
    <3>6. len'[nxt] = m
      BY <1>5, <3>2, <3>5
    <3>7. len'[Kernel] = src.body[Kernel] + src.kdtb
      BY <3>2, <3>3, <3>6
    <3> QED
      BY <3>1, <3>2, <3>7
  <2>2. CASE ~WriteKernel
    <3>1. nxt # Kernel /\ klen' = klen
      <4>1. CASE CloseRamdisk \/ CloseTable
        BY <4>1 DEF CloseRamdisk, CloseTable, PatchInv, Position, Kernel, Ramdisk,
                    VendorTable
      <4>2. CASE WriteRamdisk \/ WriteSignature \/ NoTable
        BY <4>2 DEF WriteRamdisk, WriteSignature, NoTable, Kernel, Ramdisk, Signature,
                    VendorTable
      <4>3. CASE WriteBlock
        BY <4>3 DEF WriteBlock, Kernel, Second, Extra, RecoveryDtbo, Dtb, Bootconfig
      <4> QED
        BY <2>2, <4>1, <4>2, <4>3
    <3>2. nxt > Kernel /\ Kernel \in Blocks
      BY <1>1, <1>3, <3>1 DEF Kernel
    <3>3. len'[Kernel] = len[Kernel]
      BY <1>3, <3>1, <3>2
    <3> QED
      BY <1>1, <1>4, <3>1, <3>2, <3>3 DEF KernelKept, SameKernel
  <2> QED
    BY <2>1, <2>2
<1>7. OthersKept'
  <2> SUFFICES ASSUME NEW b \in Blocks \ {Kernel, VendorTable}, b < nxt + 1,
                      req.replace[b] = NONE, b = Ramdisk => ~src.vendor
               PROVE  len'[b] = src.body[b]
    BY <1>1, <1>3 DEF OthersKept
  <2>1. CASE b # nxt
    <3>1. b < nxt
      BY <1>1, <1>3, <2>1
    <3>2. len[b] = src.body[b]
      BY <1>4, <3>1 DEF OthersKept
    <3> QED
      BY <1>3, <2>1, <3>2
  <2>2. CASE b = nxt
    <3>1. src.body[b] \in Nat /\ \A packed : Written(NONE, src.body[b], packed) = {src.body[b]}
      BY <1>4 DEF Written
    <3>2. WriteRamdisk \/ WriteBlock \/ WriteSignature
      BY <1>1, <2>2
      DEF WriteKernel, CloseRamdisk, CloseTable, NoTable, PatchInv, Position
    <3>3. pc = "body" /\ CloseBlock(nxt, pos + src.body[b])
      BY <2>2, <3>1, <3>2 DEF WriteRamdisk, WriteBlock, WriteSignature
    <3> QED
      BY <1>5, <2>2, <3>1, <3>3
  <2> QED
    BY <2>1, <2>2
<1>8. NoTableMade'
  <2> SUFFICES ASSUME ~src.vendor, nxt + 1 > VendorTable PROVE len'[VendorTable] = 0
    BY <1>1, <1>3 DEF NoTableMade
  <2>1. VendorTable \in Blocks
    BY DEF VendorTable, Blocks
  <2>2. CASE nxt = VendorTable
    <3>1. pc = "body" /\ CloseBlock(nxt, pos)
      BY <2>2 DEF WriteKernel, WriteRamdisk, CloseRamdisk, WriteBlock, WriteSignature,
                  NoTable, CloseTable, PatchInv, Position, Kernel, Ramdisk, Second,
                  Extra, RecoveryDtbo, Dtb, Signature, VendorTable, Bootconfig
    <3>2. pos + 0 = pos
      BY DEF PatchInv, PatchTypeOK
    <3> QED
      BY <1>5, <2>2, <3>1, <3>2
  <2>3. CASE nxt # VendorTable
    BY <1>1, <1>3, <1>4, <2>1, <2>3 DEF NoTableMade, VendorTable
  <2> QED
    BY <2>2, <2>3
<1> QED
  BY <1>6, <1>7, <1>8 DEF KeptLens

(* Each of the steps of the writer keeps those lengths.                    *)
LEMMA KeptStep ==
  ASSUME PatchInv, KeptLens, [PatchNext]_patchVars
  PROVE  KeptLens'
<1>u. ASSUME UNCHANGED <<src, req, nxt, klen, len>>
      PROVE  KernelKept' /\ OthersKept' /\ NoTableMade'
             <=> KernelKept /\ OthersKept /\ NoTableMade
  BY <1>u DEF KernelKept, SameKernel, OthersKept, NoTableMade
<1>1. CASE \/ WriteKernel \/ WriteRamdisk \/ CloseRamdisk \/ WriteBlock
           \/ WriteSignature \/ NoTable \/ CloseTable
  BY <1>1, KeptClosing
<1>2. CASE WriteWrapper
  BY <1>2 DEF WriteWrapper, KeptLens, InBody, BehindBody
<1>3. CASE WriteHeader
  <2>1. nxt' = 1
    BY <1>3 DEF WriteHeader, PatchInv, Position
  <2> QED
    BY <2>1 DEF KeptLens, KernelKept, OthersKept, NoTableMade, Kernel, VendorTable, Blocks
<1>4. CASE \/ StartEntries \/ WriteReplacedEntry \/ ReplacedDone
           \/ WriteKeptEntry \/ StartTable \/ WriteTableEntry
  <2>1. InBody /\ UNCHANGED <<src, nxt, len>>
    BY <1>4, WithinExtends
  <2>2. UNCHANGED <<req, klen>>
    BY <1>4 DEF StartEntries, WriteReplacedEntry, ReplacedDone, WriteKeptEntry,
                StartTable, WriteTableEntry, bodyVars
  <2> QED
    BY <1>u, <2>1, <2>2 DEF KeptLens
<1>5. CASE WriteTail \/ StoreSize \/ StoreDtboOffset
  <2>1. (InBody \/ BehindBody) /\ UNCHANGED <<src, req, nxt, klen, len>>
    BY <1>5 DEF WriteTail, StoreSize, StoreDtboOffset, InBody, BehindBody, bodyVars
  <2> QED
    BY <1>u, <2>1 DEF KeptLens
<1>6. CASE SizesDone \/ SealWrapper
  <2>1. (InBody \/ BehindBody) /\ UNCHANGED <<src, req, nxt, klen, len>>
    BY <1>6 DEF SizesDone, SealWrapper, InBody, BehindBody, bodyVars
  <2> QED
    BY <1>u, <2>1 DEF KeptLens
<1>7. CASE WriteFails
  BY <1>7 DEF WriteFails, KeptLens, InBody, BehindBody
<1>8. CASE UNCHANGED patchVars
  BY <1>u, <1>8 DEF patchVars, KeptLens, InBody, BehindBody
<1> QED
  BY <1>1, <1>2, <1>3, <1>4, <1>5, <1>6, <1>7, <1>8 DEF PatchNext

(* Nothing has been written when a patch begins.                           *)
LEMMA KeptEntered == PatchInit' => KeptLens'
<1>1. PatchInit => KeptLens
  BY DEF PatchInit, PatchStart, KeptLens, InBody, BehindBody
<1> QED
  BY <1>1, PTL

-----------------------------------------------------------------------------
(* Reading back.  Where the reader is in what the writer has left.         *)

Finishes == pc = "done" /\ magic /\ HeaderSays

(* While patch() runs, its source is the image that was read.              *)
Sourced == stage = "patch" => rpc = "parsed" /\ src = SourceOf

LEMMA SourceUnchanged ==
  UNCHANGED <<img, got, layout, page, file>> => SourceOf' = SourceOf
  BY DEF SourceOf, KernelLen, HasKernelDtb, KernelTrees, Deciding, Decides, TreeBegins,
         KernelBytes, KernelDtbLen, RamdiskLen, StripMtk, HasTable

(* The image that is read again is the one that was written.               *)
SameImage ==
  /\ img.magic # "other"
  /\ img.size = hdr /\ img.len = flen - headerOff
  /\ LayoutOf(img.magic, img.version) = src.layout
  /\ PageSizeVal(img.magic, img.version, img.pageField) = src.page

(* The reader is at the block that was written at that offset.             *)
InStep ==
  /\ layout = src.layout /\ page = src.page
  /\ off = at[cur] - headerOff
  /\ \A b \in Blocks : got[b] = IF b < cur THEN WrittenExtent(b) ELSE NoExtent

NotBegun == cur = 1 /\ \A b \in Blocks : got[b] = NoExtent

(* The source's reader has searched the kernel that is in the output.      *)
Searched == SameKernel /\ StripMtk(len[Kernel], img.mtkKernel) = len[Kernel]

BackInv ==
  /\ HeaderInv /\ KeptLens /\ Sourced
  /\ stage = "reread" /\ Finishes =>
       /\ SameImage
       /\ rpc \in {"header", "walk", "dtb", "tail", "parsed", "panic"}
       /\ rpc = "panic" => ~Searched
       /\ Searched => ~SearchPanics(img.fdts, len[Kernel])
       /\ rpc = "header" => NotBegun
       /\ rpc # "header" => InStep

(* No layout has both a kernel and a table of vendor ramdisks. *)
LEMMA KernelOrTable ==
  ASSUME NEW l \in Layouts, HasSize(l, Kernel)
  PROVE  ~HasSize(l, VendorTable)
<1>1. l \in {"BOOT_HEADER_V0", "BOOT_HEADER_V1", "BOOT_HEADER_V2",
             "BOOT_HEADER_V3", "BOOT_HEADER_V4", "VENDOR_BOOT_HEADER_V3",
             "VENDOR_BOOT_HEADER_V4"}
  BY DEF Layouts, Fields
<1>2. SizeField[1] = "kernel_size" /\ SizeField[8] = "vendor_ramdisk_table_size"
  BY DEF SizeField
<1>3. "kernel_size" \in Fields[l] /\ Kernel = 1 /\ VendorTable = 8
  BY <1>2 DEF HasSize, Kernel, VendorTable
<1>4. "kernel_size" \notin Vendor4Fields
  BY DEF Vendor4Fields, Vendor3Fields
<1>5. /\ "vendor_ramdisk_table_size" \notin V0Fields
      /\ "vendor_ramdisk_table_size" \notin V1Fields
      /\ "vendor_ramdisk_table_size" \notin V2Fields
      /\ "vendor_ramdisk_table_size" \notin V3Fields
      /\ "vendor_ramdisk_table_size" \notin V4Fields
      /\ "vendor_ramdisk_table_size" \notin Vendor3Fields
  BY DEF V0Fields, V1Fields, V2Fields, V3Fields, V4Fields, Vendor3Fields
<1>6. /\ Fields["BOOT_HEADER_V0"] = V0Fields /\ Fields["BOOT_HEADER_V1"] = V1Fields
      /\ Fields["BOOT_HEADER_V2"] = V2Fields /\ Fields["BOOT_HEADER_V3"] = V3Fields
      /\ Fields["BOOT_HEADER_V4"] = V4Fields
      /\ Fields["VENDOR_BOOT_HEADER_V3"] = Vendor3Fields
      /\ Fields["VENDOR_BOOT_HEADER_V4"] = Vendor4Fields
  BY DEF Fields
<1>7. "vendor_ramdisk_table_size" \notin Fields[l]
  <2>1. l # "VENDOR_BOOT_HEADER_V4"
    BY <1>3, <1>4, <1>6
  <2>2. Fields[l] \in {V0Fields, V1Fields, V2Fields, V3Fields, V4Fields, Vendor3Fields}
    BY <1>1, <1>6, <2>1
  <2>3. \A f \in {V0Fields, V1Fields, V2Fields, V3Fields, V4Fields, Vendor3Fields} :
          "vendor_ramdisk_table_size" \notin f
    BY <1>5, Zenon
  <2> QED
    BY <2>2, <2>3, Zenon
<1> QED
  BY <1>2, <1>3, <1>7 DEF HasSize

(* What the header and the extents of the blocks are when a patch that the *)
(* reader can read has finished.                                           *)
LEMMA FinishedFacts ==
  ASSUME RoundInv, HeaderInv, Finishes
  PROVE  /\ ~HasSize(src.layout, VendorTable)
         /\ \A b \in Blocks : len[b] = IF HasSize(src.layout, b) THEN hdr[b] ELSE 0
         /\ src.page \in Nat \ {0} /\ src.layout \in Layouts
         /\ headerOff \in Nat /\ flen \in Nat
         /\ \A b \in Blocks : /\ at[b] \in Nat /\ len[b] \in Nat /\ at[b] >= headerOff
                              /\ at[b + 1] = at[b] + Align(len[b], src.page)
                              /\ len[b] > 0 => at[b] + len[b] <= flen
         /\ at[10] \in Nat /\ at[10] <= flen /\ at[10] >= headerOff
         /\ at[1] = headerOff + HdrSpace(src.layout, src.page)
         /\ HdrSpace(src.layout, src.page) \in Nat
         /\ flen - headerOff >= TotalSize[src.layout]
         /\ HasSize(src.layout, RecoveryDtbo) => dtboOff = at[RecoveryDtbo] - headerOff
<1>1. /\ PatchTypeOK /\ BlockChain /\ nxt = 10 /\ BehindBody /\ Counter = 10
      /\ WellParsed(src)
  BY DEF RoundInv, WriterInv, PatchInv, Position, BehindBody, Finishes, Counter
<1>2. /\ headerOff \in Nat /\ flen \in Nat /\ at \in [1 .. 10 -> Nat]
      /\ len \in [Blocks -> Nat] /\ Finished = Blocks /\ Blocks = 1 .. 9
      /\ src.page \in Nat \ {0} /\ src.layout \in Layouts
  <2>1. /\ headerOff \in Nat /\ flen \in Nat /\ at \in [1 .. 10 -> Nat]
        /\ len \in [Blocks -> Nat]
    BY <1>1 DEF PatchTypeOK
  <2>2. src.page \in Nat \ {0} /\ src.layout \in Layouts
    BY <1>1, SourceValues
  <2>3. Finished = Blocks /\ Blocks = 1 .. 9
    BY <1>1 DEF Finished, Blocks
  <2> QED
    BY <2>1, <2>2, <2>3
<1>3. /\ SizesSaid /\ DtboSaid /\ HasSize(src.layout, Kernel) /\ FirstAt /\ SignatureKept
  BY <1>1 DEF HeaderInv, Finishes, Kernel
<1>4. ~HasSize(src.layout, VendorTable)
  BY <1>2, <1>3, KernelOrTable
<1>5. \A b \in Blocks : len[b] = IF HasSize(src.layout, b) THEN hdr[b] ELSE 0
  <2> SUFFICES ASSUME NEW b \in Blocks
               PROVE  len[b] = IF HasSize(src.layout, b) THEN hdr[b] ELSE 0
    OBVIOUS
  <2>1. len[b] \in Nat /\ b < 10
    BY <1>2
  <2>2. CASE ~HasSize(src.layout, b)
    BY <2>1, <2>2 DEF Finishes, HeaderSays
  <2>3. CASE HasSize(src.layout, b) /\ b = Signature
    <3>1. hdr[b] = src.size[b]
      BY <1>1, <1>3, <2>1, <2>3 DEF SizesSaid, Stored
    <3>2. len[b] = src.size[b]
      BY <1>1, <1>3, <2>3 DEF SignatureKept, WellParsed, Signature
    <3> QED
      BY <2>3, <3>1, <3>2
  <2>4. CASE HasSize(src.layout, b) /\ b # Signature
    <3>1. hdr[b] = len[b] % U32
      BY <1>1, <1>3, <1>4, <2>1, <2>4 DEF SizesSaid, Stored, StoredSize
    <3>2. len[b] < U32
      BY <2>1, U32Assumption DEF Finishes, HeaderSays
    <3>3. len[b] % U32 = len[b]
      BY <2>1, <3>2, U32Assumption
    <3> QED
      BY <2>4, <3>1, <3>3
  <2> QED
    BY <2>2, <2>3, <2>4
<1>6. \A b \in Blocks : /\ at[b] \in Nat /\ len[b] \in Nat /\ at[b] >= headerOff
                        /\ at[b + 1] = at[b] + Align(len[b], src.page)
                        /\ at[b + 1] >= at[b]
  <2> TAKE b \in Blocks
  <2>1. /\ at[b] \in Nat /\ len[b] \in Nat /\ at[b] >= headerOff
        /\ at[b + 1] = at[b] + Align(len[b], src.page)
    BY <1>1, <1>2 DEF BlockChain
  <2>2. Align(len[b], src.page) \in Nat
    BY <1>2, <2>1, AlignFacts
  <2> QED
    BY <2>1, <2>2
<1>7. at[10] >= at[1] /\ at[10] \in Nat /\ at[1] \in Nat
  <2>1. /\ at[2] >= at[1] /\ at[3] >= at[2] /\ at[4] >= at[3] /\ at[5] >= at[4]
        /\ at[6] >= at[5] /\ at[7] >= at[6] /\ at[8] >= at[7] /\ at[9] >= at[8]
        /\ at[10] >= at[9]
    <3>1. \A b \in 1 .. 9 : at[b + 1] >= at[b]
      BY <1>2, <1>6
    <3>2. /\ at[1 + 1] >= at[1] /\ at[2 + 1] >= at[2] /\ at[3 + 1] >= at[3]
          /\ at[4 + 1] >= at[4] /\ at[5 + 1] >= at[5] /\ at[6 + 1] >= at[6]
          /\ at[7 + 1] >= at[7] /\ at[8 + 1] >= at[8] /\ at[9 + 1] >= at[9]
      BY <3>1
    <3> QED
      BY <3>2
  <2>2. \A b \in 1 .. 10 : at[b] \in Nat
    BY <1>2
  <2> QED
    BY <2>1, <2>2
<1>8. at[10] <= flen
  <2>1. NeverShorter
    BY FilledToTheEnd DEF RoundInv, WriterInv
  <2> QED
    BY <2>1 DEF NeverShorter, Finishes, HeaderSays
<1>9. /\ HdrSpace(src.layout, src.page) \in Nat
      /\ TotalSize[src.layout] <= HdrSpace(src.layout, src.page)
      /\ TotalSize[src.layout] \in Nat
  BY <1>2, HdrSpaceFacts, LayoutFacts
<1>10. at[1] = headerOff + HdrSpace(src.layout, src.page)
  BY <1>3 DEF FirstAt
<1>11. flen - headerOff >= TotalSize[src.layout] /\ at[10] >= headerOff
  BY <1>2, <1>7, <1>8, <1>9, <1>10
<1>12. \A b \in Blocks : len[b] > 0 => at[b] + len[b] <= flen
  BY <1>2 DEF RoundInv, WriterInv, FillInv, BlocksFilled
<1>13. HasSize(src.layout, RecoveryDtbo) => dtboOff = at[RecoveryDtbo] - headerOff
  BY <1>1, <1>3 DEF DtboSaid, Finishes, DtboOffset, RecoveryDtbo
<1> QED
  BY <1>2, <1>4, <1>5, <1>6, <1>7, <1>8, <1>9, <1>10, <1>11, <1>12, <1>13

-----------------------------------------------------------------------------
(* The steps of a round trip.                                              *)

(* Nothing needs no padding. *)
LEMMA AlignZero ==
  ASSUME NEW a \in Nat \ {0}
  PROVE  Align(0, a) = 0
  BY AlignFacts, DivUnique DEF Align

(* Reading the header brings the reader to the first block. *)
LEMMA HeaderReadBack ==
  ASSUME RoundInv, HeaderInv, Finishes, SameImage, rpc = "header", NotBegun,
         ParseHeader, UNCHANGED patchVars
  PROVE  rpc' = "walk" /\ InStep'
<1>1. /\ flen - headerOff >= TotalSize[src.layout] /\ src.page \in Nat \ {0}
      /\ at[1] = headerOff + HdrSpace(src.layout, src.page)
      /\ headerOff \in Nat /\ HdrSpace(src.layout, src.page) \in Nat
  BY FinishedFacts
<1>2. /\ rpc' = "walk" /\ layout' = src.layout /\ page' = src.page
      /\ off' = HdrSpace(src.layout, src.page) /\ cur' = 1 /\ got' = got
  <2>1. LayoutOf(img.magic, img.version) = src.layout /\ img.magic # "other"
        /\ PageSizeVal(img.magic, img.version, img.pageField) = src.page
        /\ img.len = flen - headerOff /\ cur = 1
    BY DEF SameImage, NotBegun
  <2>2. ~(img.len < TotalSize[src.layout]) /\ src.page # 0
    <3>1. img.len \in Nat /\ TotalSize[src.layout] \in Nat
      BY ParsedValues, FinishedFacts, LayoutFacts DEF RoundInv
    <3> QED
      BY <1>1, <2>1, <3>1
  <2> QED
    BY <2>1, <2>2 DEF ParseHeader
<1>3. off' = at[1] - headerOff
  BY <1>1, <1>2
<1>4. \A b \in Blocks : got'[b] = NoExtent /\ ~(b < 1)
  BY <1>2 DEF NotBegun, Blocks
<1> QED
  BY <1>2, <1>3, <1>4 DEF InStep, patchVars

(* Skipping or taking a block brings it to the next one, and no block is   *)
(* out of bounds.                                                          *)
LEMMA BlockReadBack ==
  ASSUME RoundInv, HeaderInv, Finishes, SameImage, rpc # "header", InStep,
         SkipBlock \/ TakeBlock \/ BlockOutOfBounds, UNCHANGED patchVars
  PROVE  rpc' = "walk" /\ InStep' /\ img' = img
<1>1. /\ cur \in Blocks /\ rpc = "walk" /\ img' = img /\ layout' = layout /\ page' = page
  BY DEF SkipBlock, TakeBlock, BlockOutOfBounds
<1>2. BlockSize = len[cur]
  BY <1>1, FinishedFacts DEF BlockSize, SameImage, InStep
<1>3. /\ at[cur] \in Nat /\ len[cur] \in Nat /\ at[cur] >= headerOff
      /\ at[cur + 1] = at[cur] + Align(len[cur], src.page)
      /\ len[cur] > 0 => at[cur] + len[cur] <= flen
      /\ src.page \in Nat \ {0} /\ headerOff \in Nat /\ flen \in Nat
  BY <1>1, FinishedFacts
<1>4. Align(len[cur], src.page) \in Nat /\ Align(0, src.page) = 0
  BY <1>3, AlignFacts, AlignZero
<1>5. /\ off = at[cur] - headerOff /\ layout = src.layout /\ page = src.page
      /\ img.len = flen - headerOff
      /\ \A b \in Blocks : got[b] = IF b < cur THEN WrittenExtent(b) ELSE NoExtent
  BY DEF InStep, SameImage
<1>6. ~BlockOutOfBounds
  BY <1>2, <1>3, <1>5 DEF BlockOutOfBounds, InBounds
<1>7. /\ rpc' = "walk" /\ cur' = cur + 1 /\ off' = at[cur + 1] - headerOff
      /\ got'[cur] = WrittenExtent(cur)
      /\ \A b \in Blocks : b # cur => got'[b] = got[b]
  <2>1. CASE SkipBlock
    <3>1. /\ len[cur] = 0 /\ rpc' = "walk" /\ cur' = cur + 1 /\ off' = off /\ got' = got
      BY <1>1, <1>2, <2>1 DEF SkipBlock
    <3>2. at[cur + 1] = at[cur]
      BY <1>3, <1>4, <3>1
    <3>3. got[cur] = NoExtent /\ WrittenExtent(cur) = NoExtent
      BY <1>1, <1>5, <3>1 DEF WrittenExtent, Blocks
    <3> QED
      BY <1>5, <3>1, <3>2, <3>3
  <2>2. CASE TakeBlock
    <3>1. /\ len[cur] > 0 /\ rpc' = "walk" /\ cur' = cur + 1
          /\ off' = off + Align(len[cur], src.page)
          /\ got' = [got EXCEPT ![cur] = [off |-> off, len |-> len[cur]]]
      BY <1>1, <1>2, <1>5, <2>2 DEF TakeBlock
    <3>2. off' = at[cur + 1] - headerOff
      BY <1>3, <1>4, <1>5, <3>1
    <3>3. got \in [Blocks -> Extent]
      BY DEF RoundInv, ReaderInv, WalkInv, ReaderTypeOK
    <3>4. got'[cur] = WrittenExtent(cur) /\ \A b \in Blocks : b # cur => got'[b] = got[b]
      BY <1>1, <1>5, <3>1, <3>3 DEF WrittenExtent
    <3> QED
      BY <3>1, <3>2, <3>4
  <2> QED
    BY <1>6, <2>1, <2>2
<1>8. \A b \in Blocks :
        got'[b] = IF b < cur + 1 THEN WrittenExtent(b) ELSE NoExtent
  <2> TAKE b \in Blocks
  <2>1. CASE b = cur
    BY <1>1, <1>7, <2>1 DEF Blocks
  <2>2. CASE b # cur
    <3>1. b < cur + 1 <=> b < cur
      BY <1>1, <2>2 DEF Blocks
    <3> QED
      BY <1>5, <1>7, <2>2, <3>1
  <2> QED
    BY <2>1, <2>2
<1> QED
  BY <1>1, <1>5, <1>7, <1>8 DEF InStep, WrittenExtent, patchVars

(* Behind the last block there is neither a table to fail on nor an end of *)
(* the file, and no tree to panic on in a kernel that was searched before. *)
LEMMA EndReadBack ==
  ASSUME RoundInv, HeaderInv, Finishes, SameImage, rpc # "header", InStep,
         Searched => ~SearchPanics(img.fdts, len[Kernel]),
         ParseRamdisk \/ SplitKernel \/ SliceTail, UNCHANGED patchVars
  PROVE  /\ rpc' \in {"dtb", "tail", "parsed", "panic"} /\ InStep' /\ img' = img
         /\ rpc' = "panic" => ~Searched
<1>1. UNCHANGED <<img, layout, page, off, cur, got>>
  BY DEF ParseRamdisk, SplitKernel, SliceTail
<1>2. InStep'
  BY <1>1 DEF InStep, WrittenExtent, patchVars
<1>3. ~HasTable
  <2>1. VendorTable \in Blocks
    BY DEF VendorTable, Blocks
  <2>2. len[VendorTable] = 0
    BY <2>1, FinishedFacts
  <2>3. got[VendorTable] = NoExtent
    <3>1. WrittenExtent(VendorTable) = NoExtent
      BY <2>2 DEF WrittenExtent
    <3>2. \/ got[VendorTable] = WrittenExtent(VendorTable)
          \/ got[VendorTable] = NoExtent
      BY <2>1 DEF InStep
    <3> QED
      BY <3>1, <3>2
  <2>4. got[VendorTable].len = 0
    BY <2>3 DEF NoExtent
  <2> QED
    BY <2>4 DEF HasTable
<1>4. SliceTail => TailInBounds
  <2>1. rpc = "tail" => cur = 10
    BY DEF RoundInv, ReaderInv
  <2>2. at[10] \in Nat /\ at[10] <= flen /\ headerOff \in Nat /\ flen \in Nat
    BY FinishedFacts
  <2> QED
    BY <2>1, <2>2 DEF SliceTail, TailInBounds, InStep, SameImage
<1>5. ASSUME SplitKernel, Searched
      PROVE  ~SearchPanics(img.fdts, KernelBytes)
  <2>1. cur = 10 /\ Kernel \in Blocks /\ Kernel < 10
    BY <1>5 DEF SplitKernel, RoundInv, ReaderInv, Kernel, Blocks
  <2>2. got[Kernel] = WrittenExtent(Kernel) /\ len[Kernel] \in Nat
    BY <2>1, FinishedFacts DEF InStep
  <2>3. got[Kernel].len = len[Kernel]
    BY <2>2 DEF WrittenExtent, NoExtent
  <2> QED
    BY <1>5, <2>3 DEF KernelBytes, Searched
<1> QED
  BY <1>1, <1>2, <1>3, <1>4, <1>5 DEF ParseRamdisk, SplitKernel, SliceTail

(* The reader of a finished image follows its writer. *)
LEMMA ReadBackStep ==
  ASSUME RoundInv, BackInv, Read
  PROVE  BackInv'
<1>1. UNCHANGED patchVars /\ stage' = stage /\ ReaderNext /\ stage # "patch"
  BY DEF Read
<1>2. HeaderInv' /\ KeptLens'
  BY <1>1, HeaderInvStep, KeptStep DEF RoundInv, WriterInv, BackInv
<1>3. Sourced'
  BY <1>1 DEF Sourced
<1>4. ASSUME stage' = "reread", Finishes'
      PROVE  /\ SameImage' /\ rpc' \in {"walk", "dtb", "tail", "parsed", "panic"} /\ InStep'
             /\ rpc' = "panic" => ~Searched'
             /\ Searched' => ~SearchPanics(img'.fdts, len'[Kernel])
  <2>1. Finishes
    BY <1>1, <1>4 DEF Finishes, HeaderSays, patchVars
  <2>2. /\ HeaderInv /\ SameImage
        /\ Searched => ~SearchPanics(img.fdts, len[Kernel])
        /\ rpc = "header" => NotBegun
        /\ rpc # "header" => InStep
    BY <1>1, <1>4, <2>1 DEF BackInv
  <2>3. /\ rpc' \in {"walk", "dtb", "tail", "parsed", "panic"} /\ InStep' /\ img' = img
        /\ rpc' = "panic" => ~Searched
    <3>1. CASE ParseHeader
      <4>1. rpc = "header" /\ img' = img
        BY <3>1 DEF ParseHeader
      <4> QED
        BY <1>1, <2>1, <2>2, <3>1, <4>1, HeaderReadBack
    <3>2. CASE SkipBlock \/ TakeBlock \/ BlockOutOfBounds
      <4>1. rpc # "header"
        BY <3>2 DEF SkipBlock, TakeBlock, BlockOutOfBounds
      <4> QED
        BY <1>1, <2>1, <2>2, <3>2, <4>1, BlockReadBack
    <3>3. CASE ParseRamdisk \/ SplitKernel \/ SliceTail
      <4>1. rpc # "header"
        BY <3>3 DEF ParseRamdisk, SplitKernel, SliceTail
      <4> QED
        BY <1>1, <2>1, <2>2, <3>3, <4>1, EndReadBack
    <3> QED
      BY <1>1, <3>1, <3>2, <3>3 DEF ReaderNext
  <2>4. UNCHANGED <<hdr, flen, headerOff, src, req, len>>
    BY <1>1 DEF patchVars
  <2>5. SameImage'
    BY <2>2, <2>3, <2>4 DEF SameImage
  <2>6. Searched' <=> Searched
    BY <2>3, <2>4 DEF Searched, SameKernel
  <2> QED
    BY <2>2, <2>3, <2>4, <2>5, <2>6
<1> QED
  BY <1>2, <1>3, <1>4 DEF BackInv

(* A finished kernel that was searched is the one the source's reader did  *)
(* not panic on.                                                           *)
LEMMA SearchedKernel ==
  ASSUME RoundInv, BackInv, stage = "patch", pc = "done", SameKernel
  PROVE  len[Kernel] = KernelBytes /\ ~SearchPanics(img.fdts, KernelBytes)
<1>1. rpc = "parsed" /\ src = SourceOf
  BY DEF BackInv, Sourced
<1>2. nxt > Kernel /\ BehindBody
  BY DEF RoundInv, WriterInv, PatchInv, Position, BehindBody, Kernel
<1>3. len[Kernel] = src.body[Kernel] + src.kdtb
  BY <1>2 DEF BackInv, KeptLens, KernelKept
<1>4. src.body[Kernel] = KernelLen /\ src.kdtb = KernelDtbLen
  BY <1>1, SourceFields
<1>5. KernelLen + KernelDtbLen = KernelBytes
  BY KernelParts DEF RoundInv
<1>6. ~SearchPanics(img.fdts, KernelBytes)
  BY <1>1 DEF RoundInv, ReaderInv, WalkInv
<1> QED
  BY <1>3, <1>4, <1>5, <1>6

(* Reopening what was written: its header says what the first reader found.*)
LEMMA ReopenBack ==
  ASSUME RoundInv, BackInv, Reopen
  PROVE  BackInv'
<1>1. UNCHANGED patchVars /\ stage = "patch" /\ stage' = "reread" /\ rpc' = "header"
  BY DEF Reopen
<1>2. HeaderInv' /\ KeptLens'
  BY <1>1, HeaderInvStep, KeptStep DEF RoundInv, WriterInv, BackInv
<1>3. Sourced'
  BY <1>1 DEF Sourced
<1>o. PICK mk \in MtkKernelNow, mr \in MtkRamdiskNow,
           rows \in [DOMAIN img.table -> Rows] :
        \E f \in FdtsNow(mk) : img' = Output(mk, mr, rows, f)
  BY DEF Reopen
<1>f. PICK f \in FdtsNow(mk) : img' = Output(mk, mr, rows, f)
  BY <1>o
<1>4. ASSUME Finishes'
      PROVE  /\ SameImage' /\ NotBegun'
             /\ Searched' => ~SearchPanics(img'.fdts, len'[Kernel])
  <2>1. magic /\ pc = "done"
    BY <1>1, <1>4 DEF Finishes, patchVars
  <2>2. src.layout = layout /\ src.page = page /\ HeaderRead
    BY <1>1, SourceFields DEF BackInv, Sourced, RoundInv, ReaderInv
  <2>3. /\ img'.magic = img.magic /\ img'.version = img.version
        /\ img'.pageField = img.pageField /\ img'.size = hdr
        /\ img'.len = flen - headerOff /\ img'.mtkKernel = mk /\ img'.fdts = f
    BY <1>f, <2>1 DEF Output
  <2>4. UNCHANGED <<hdr, flen, headerOff, src, req, len>>
    BY <1>1 DEF patchVars
  <2>5. SameImage'
    BY <2>2, <2>3, <2>4 DEF SameImage, HeaderRead
  <2>6. NotBegun'
    BY DEF Reopen, NotBegun
  <2>7. ASSUME Searched' PROVE ~SearchPanics(img'.fdts, len'[Kernel])
    <3>1. SameKernel /\ StripMtk(len[Kernel], mk) = len[Kernel]
      BY <2>3, <2>4, <2>7 DEF Searched, SameKernel
    <3>2. f = img.fdts
      BY <2>1, <3>1 DEF FdtsNow
    <3>3. ~SearchPanics(img.fdts, len[Kernel])
      BY <1>1, <2>1, <3>1, SearchedKernel
    <3> QED
      BY <2>3, <2>4, <3>2, <3>3
  <2> QED
    BY <2>5, <2>6, <2>7
<1> QED
  BY <1>1, <1>2, <1>3, <1>4 DEF BackInv

(* Starting over to repack keeps what is read back. *)
LEMMA RepackBack ==
  ASSUME RoundInv, BackInv, NEW r \in Request, Repack(r)
  PROVE  BackInv'
<1>1. HeaderInv' /\ KeptLens'
  BY RepackStep, HeaderInvEntered, KeptEntered
<1>2. /\ stage' = "patch" /\ rpc = "parsed" /\ src' = SourceOf
      /\ UNCHANGED <<rpc, img, got, layout, page, file>>
  BY DEF Repack, readerVars
<1>3. Sourced'
  BY <1>2, SourceUnchanged DEF Sourced
<1> QED
  BY <1>1, <1>2, <1>3 DEF BackInv

(* Starting a patch keeps what is read back. *)
LEMMA PatchBack ==
  ASSUME RoundInv, BackInv, Patch
  PROVE  BackInv'
<1>1. HeaderInv' /\ KeptLens'
  BY HeaderInvStep, KeptStep DEF RoundInv, WriterInv, BackInv, Patch
<1>2. /\ PatchNext /\ stage' = stage /\ stage = "patch"
      /\ UNCHANGED <<rpc, img, got, layout, page, file>>
  BY DEF Patch, readerVars
<1>3. src' = src
  BY <1>2, WrapperOnce DEF WriteWrapper
<1>4. Sourced'
  BY <1>2, <1>3, SourceUnchanged DEF BackInv, Sourced
<1> QED
  BY <1>1, <1>2, <1>4 DEF BackInv

(* The reader of a finished output is always where the writer was. *)
THEOREM RoundTripFollows == RoundTripSpec => []BackInv
<1>1. RoundTripInit => BackInv
  BY DEF RoundTripInit, ReadFirst, BackInv, HeaderInv, KeptLens, Sourced, InFront,
         InBody, BehindBody
<1>2. RoundInv /\ BackInv /\ [RoundTripNext]_vars => BackInv'
  <2> SUFFICES ASSUME RoundInv, BackInv, [RoundTripNext]_vars PROVE BackInv'
    OBVIOUS
  <2>1. CASE UNCHANGED vars
    <3>1. UNCHANGED <<patchVars, readerVars, file, stage>>
      BY <2>1 DEF vars
    <3>2. HeaderInv' /\ KeptLens'
      BY <3>1, HeaderInvStep, KeptStep DEF RoundInv, WriterInv, BackInv
    <3>3. /\ UNCHANGED <<src, req, pc, magic, hdr, flen, headerOff, at, len, stage>>
          /\ UNCHANGED <<img, rpc, layout, page, off, cur, got>>
      BY <3>1 DEF patchVars, readerVars
    <3>4. (Finishes' <=> Finishes) /\ (SameImage' <=> SameImage)
          /\ (NotBegun' <=> NotBegun) /\ (InStep' <=> InStep)
          /\ (Searched' <=> Searched)
      BY <3>3 DEF Finishes, HeaderSays, SameImage, NotBegun, InStep, WrittenExtent,
                  Searched, SameKernel
    <3>5. Sourced'
      BY <3>1, <3>3, SourceUnchanged DEF BackInv, Sourced
    <3> QED
      BY <3>2, <3>3, <3>4, <3>5 DEF BackInv
  <2>2. ASSUME NEW r \in RequestsFor(SourceOf) \cap Request, Repack(r)
        PROVE  BackInv'
    BY <2>2, RepackBack
  <2> QED
    BY <2>1, <2>2, ReadBackStep, PatchBack, ReopenBack DEF RoundTripNext
<1> QED
  BY <1>1, <1>2, RoundTripInvariant, PTL DEF RoundTripSpec

(* Reading what patch() wrote finds every block where it was put, and does *)
(* not fail: for every image the reader accepts, with any wrapper, any page*)
(* size and any layout, and for every request.  It panics on no kernel that*)
(* was searched when the source was read.                                  *)
THEOREM RoundTripReadBack == RoundTripSpec => []ReadBack
<1>1. RoundInv /\ BackInv => ReadBack
  <2> SUFFICES ASSUME RoundInv, BackInv, stage = "reread", Finishes
               PROVE  /\ rpc # "error" /\ (rpc = "panic" => ~Searched)
                      /\ rpc = "parsed" =>
                           /\ \A b \in Blocks : got[b] = WrittenExtent(b)
                           /\ got[RecoveryDtbo].len > 0 =>
                                got[RecoveryDtbo].off = dtboOff
    BY DEF ReadBack, Finishes, Searched
  <2>1. rpc # "error" /\ (rpc = "panic" => ~Searched)
    BY DEF BackInv
  <2>2. ASSUME rpc = "parsed"
        PROVE  \A b \in Blocks : got[b] = WrittenExtent(b)
    <3>1. cur = 10 /\ InStep
      BY <2>2 DEF BackInv, RoundInv, ReaderInv
    <3> QED
      BY <3>1 DEF InStep, Blocks
  <2>3. ASSUME rpc = "parsed", got[RecoveryDtbo].len > 0
        PROVE  got[RecoveryDtbo].off = dtboOff
    <3>1. RecoveryDtbo \in Blocks
      BY DEF RecoveryDtbo, Blocks
    <3>2. got[RecoveryDtbo] = [off |-> at[RecoveryDtbo] - headerOff, len |-> len[RecoveryDtbo]]
          /\ len[RecoveryDtbo] > 0
      <4>1. got[RecoveryDtbo] = WrittenExtent(RecoveryDtbo)
        BY <2>2, <2>3, <3>1
      <4>2. NoExtent.len = 0
        BY DEF NoExtent
      <4> QED
        BY <2>3, <4>1, <4>2 DEF WrittenExtent
    <3>3. HasSize(src.layout, RecoveryDtbo)
      BY <3>1, <3>2 DEF Finishes, HeaderSays
    <3> QED
      BY <3>2, <3>3, FinishedFacts DEF BackInv
  <2> QED
    BY <2>1, <2>2, <2>3
<1> QED
  BY <1>1, RoundTripInvariant, RoundTripFollows, PTL

-----------------------------------------------------------------------------
(* Repacking without a change.  Of two blocks that the reader found next to*)
(* each other, the second begins behind the padding of the first, so that  *)
(* the extents add up as those of the writer do.                           *)

Empty(b) == got[b].len = 0

(* From block b on, the reader found none in front of block c. *)
NoneFrom(b, c) == \A d \in Blocks : b <= d /\ d < c => Empty(d)

BehindPadding(b) == got[b].off + Align(got[b].len, page)

ChainInv ==
  /\ \A b \in Blocks : Empty(b) => got[b] = NoExtent
  /\ \A c \in Blocks : ~Empty(c) /\ NoneFrom(1, c) => got[c].off = HdrSpace(layout, page)
  /\ \A b, c \in Blocks : b < c /\ ~Empty(b) /\ ~Empty(c) /\ NoneFrom(b + 1, c) =>
       got[c].off = BehindPadding(b)
  /\ rpc \in {"walk", "dtb", "tail", "parsed"} =>
       /\ NoneFrom(1, cur) => off = HdrSpace(layout, page)
       /\ \A b \in Blocks : b < cur /\ ~Empty(b) /\ NoneFrom(b + 1, cur) =>
            off = BehindPadding(b)

(* Before it takes a block, the reader has found nothing. *)
LEMMA ChainBegins ==
  ASSUME \A b \in Blocks : got[b] = NoExtent,
         rpc \in {"walk", "dtb", "tail", "parsed"} => off = HdrSpace(layout, page)
  PROVE  ChainInv
<1>1. \A b \in Blocks : Empty(b)
  BY DEF Empty, NoExtent
<1> QED
  BY <1>1 DEF ChainInv

(* Every block that is taken is the next one of the chain. *)
LEMMA ChainTakes ==
  ASSUME ReaderInv, ChainInv, TakeBlock
  PROVE  ChainInv'
<1>0. PICK k \in Blocks : k = cur
  BY DEF TakeBlock
<1>1. /\ BlockSize > 0 /\ cur' = k + 1 /\ rpc = "walk"
      /\ UNCHANGED <<img, layout, page>> /\ rpc' = "walk"
      /\ got' = [got EXCEPT ![k] = [off |-> off, len |-> BlockSize]]
      /\ off' = off + Align(BlockSize, page)
  BY <1>0 DEF TakeBlock
<1>2. /\ got \in [Blocks -> Extent] /\ Blocks = 1 .. 9
      /\ \A b \in Blocks : got[b].len = Sized(b)
  BY DEF ReaderInv, WalkInv, ReaderTypeOK, Blocks
<1>3. /\ got'[k] = [off |-> off, len |-> BlockSize]
      /\ \A b \in Blocks : b # k => got'[b] = got[b]
  BY <1>1, <1>2
<1>4. \A b \in Blocks : b >= k => Empty(b)
  BY <1>0, <1>2 DEF Empty, Sized
<1>5. ~Empty(k)'
  <2>1. got'[k].len > 0
    BY <1>1, <1>3
  <2> QED
    BY <2>1 DEF Empty
<1>6. \A b \in Blocks : b # k => /\ Empty(b)' <=> Empty(b)
                                 /\ BehindPadding(b)' = BehindPadding(b)
                                 /\ got'[b] = got[b]
  BY <1>1, <1>3 DEF Empty, BehindPadding
<1>7. \A b \in Nat, c \in Blocks : c <= k /\ NoneFrom(b, c)' => NoneFrom(b, c)
  <2> SUFFICES ASSUME NEW b \in Nat, NEW c \in Blocks, c <= k, NoneFrom(b, c)',
                      NEW d \in Blocks, b <= d, d < c
               PROVE  Empty(d)
    BY DEF NoneFrom
  <2>1. Empty(d)'
    BY DEF NoneFrom
  <2>2. d # k
    BY <1>2
  <2> QED
    BY <1>6, <2>1, <2>2
<1>8. \A b \in Nat : b <= k => ~NoneFrom(b, k + 1)'
  BY <1>2, <1>5 DEF NoneFrom
<1>9. \A c \in Blocks : ~Empty(c)' => c <= k /\ (c # k => ~Empty(c))
  <2> SUFFICES ASSUME NEW c \in Blocks, ~Empty(c)', c # k
               PROVE  c <= k /\ ~Empty(c)
    BY <1>2
  <2> QED
    BY <1>2, <1>4, <1>6
<1>c. /\ NoneFrom(1, k) => off = HdrSpace(layout, page)
      /\ \A b \in Blocks : b < k /\ ~Empty(b) /\ NoneFrom(b + 1, k) =>
           off = BehindPadding(b)
  BY <1>0, <1>1 DEF ChainInv
<1>10. ASSUME NEW b \in Blocks, Empty(b)' PROVE got'[b] = NoExtent
  <2>1. b # k
    BY <1>5, <1>10
  <2> QED
    BY <1>6, <1>10, <2>1 DEF ChainInv
<1>11. ASSUME NEW c \in Blocks, ~Empty(c)', NoneFrom(1, c)'
       PROVE  got'[c].off = HdrSpace(layout, page)
  <2>1. NoneFrom(1, c)
    BY <1>7, <1>9, <1>11
  <2>2. CASE c = k
    BY <1>3, <1>c, <2>1, <2>2
  <2>3. CASE c # k
    BY <1>6, <1>9, <1>11, <2>1, <2>3 DEF ChainInv
  <2> QED
    BY <2>2, <2>3
<1>12. ASSUME NEW b \in Blocks, NEW c \in Blocks, b < c, ~Empty(b)', ~Empty(c)',
              NoneFrom(b + 1, c)'
       PROVE  got'[c].off = BehindPadding(b)'
  <2>1. NoneFrom(b + 1, c) /\ b # k /\ ~Empty(b) /\ b < k
    BY <1>2, <1>7, <1>9, <1>12
  <2>2. CASE c = k
    BY <1>3, <1>6, <1>c, <2>1, <2>2
  <2>3. CASE c # k
    BY <1>6, <1>9, <1>12, <2>1, <2>3 DEF ChainInv
  <2> QED
    BY <2>2, <2>3
<1>13. ASSUME NEW b \in Blocks, b < k + 1, ~Empty(b)', NoneFrom(b + 1, k + 1)'
       PROVE  off' = BehindPadding(b)'
  <2>1. b = k
    BY <1>2, <1>8, <1>13
  <2> QED
    BY <1>1, <1>3, <2>1 DEF BehindPadding
<1>14. ~NoneFrom(1, k + 1)'
  BY <1>2, <1>8
<1>15. \A b : NoneFrom(b, cur)' <=> NoneFrom(b, k + 1)'
  BY <1>1 DEF NoneFrom
<1>16. \A b \in Blocks : b < cur' /\ ~Empty(b)' /\ NoneFrom(b + 1, cur)' =>
        off' = BehindPadding(b)'
  BY <1>1, <1>13, <1>15
<1> QED
  BY <1>1, <1>10, <1>11, <1>12, <1>14, <1>15, <1>16 DEF ChainInv

(* Each of the steps of the reader keeps its chain. *)
LEMMA ChainStep ==
  ASSUME ReaderInv, ChainInv, [ReaderNext]_readerVars
  PROVE  ChainInv'
<1>1. CASE ParseHeader
  <2>1. cur = 1 /\ got' = got
    BY <1>1 DEF ParseHeader, ReaderInv, WalkInv
  <2>2. \A b \in Blocks : Empty(b)
    BY <2>1 DEF ReaderInv, Sized, Blocks, Empty
  <2>3. \A b \in Blocks : got'[b] = NoExtent
    BY <2>1, <2>2 DEF ChainInv
  <2>4. rpc' \in {"walk", "dtb", "tail", "parsed"} => off' = HdrSpace(layout', page')
    BY <1>1 DEF ParseHeader
  <2>5. \A b \in Blocks : Empty(b)'
    BY <2>3 DEF Empty, NoExtent
  <2> QED
    BY <2>3, <2>4, <2>5 DEF ChainInv
<1>2. CASE SkipBlock
  <2>1. /\ cur \in Blocks /\ cur' = cur + 1 /\ rpc = "walk" /\ rpc' = "walk"
        /\ UNCHANGED <<img, layout, page, got, off>>
    BY <1>2 DEF SkipBlock
  <2>2. Empty(cur)
    BY <2>1 DEF ReaderInv, Sized, Empty, Blocks
  <2>3. \A b, c : (Empty(b)' <=> Empty(b)) /\ (NoneFrom(b, c)' <=> NoneFrom(b, c))
                  /\ BehindPadding(b)' = BehindPadding(b)
    BY <2>1 DEF Empty, NoneFrom, BehindPadding
  <2>4. \A b \in Nat : NoneFrom(b, cur + 1) => NoneFrom(b, cur)
    BY <2>1 DEF NoneFrom, Blocks
  <2>5. ASSUME NEW b \in Blocks, b < cur + 1, ~Empty(b), NoneFrom(b + 1, cur + 1)
        PROVE  off = BehindPadding(b)
    <3>1. b < cur /\ NoneFrom(b + 1, cur)
      BY <2>1, <2>2, <2>4, <2>5 DEF Blocks
    <3> QED
      BY <2>1, <2>5, <3>1 DEF ChainInv
  <2>6. NoneFrom(1, cur + 1) => off = HdrSpace(layout, page)
    BY <2>1, <2>4 DEF ChainInv
  <2> QED
    BY <2>1, <2>3, <2>5, <2>6 DEF ChainInv
<1>3. CASE TakeBlock
  BY <1>3, ChainTakes
<1>4. CASE \/ BlockOutOfBounds \/ ParseRamdisk \/ SplitKernel \/ SliceTail
           \/ UNCHANGED readerVars
  <2>1. UNCHANGED <<layout, page, off, cur, got>>
    BY <1>4 DEF BlockOutOfBounds, ParseRamdisk, SplitKernel, SliceTail, readerVars
  <2>2. rpc' \in {"walk", "dtb", "tail", "parsed"} => rpc \in {"walk", "dtb", "tail", "parsed"}
    BY <1>4 DEF BlockOutOfBounds, ParseRamdisk, SplitKernel, SliceTail, readerVars
  <2>3. \A b, c : (Empty(b)' <=> Empty(b)) /\ (NoneFrom(b, c)' <=> NoneFrom(b, c))
                  /\ BehindPadding(b)' = BehindPadding(b)
    BY <2>1 DEF Empty, NoneFrom, BehindPadding
  <2> QED
    BY <2>1, <2>2, <2>3 DEF ChainInv
<1> QED
  BY <1>1, <1>2, <1>3, <1>4 DEF ReaderNext

(* A reader that starts over has no chain yet. *)
LEMMA ChainBeginsAgain ==
  (rpc = "header" /\ \A b \in Blocks : got[b] = NoExtent)' => ChainInv'
<1>1. rpc = "header" /\ (\A b \in Blocks : got[b] = NoExtent) => ChainInv
  BY ChainBegins
<1> QED
  BY <1>1, PTL

(* A repack for which the file is to come out as it was. *)
Quiet ==
  /\ stage = "patch" /\ req = NothingReplaced
  /\ ~img.mtkKernel /\ ~img.mtkRamdisk /\ ~src.vendor
  /\ Empty(VendorTable)

(* The writer is in step with the chain of the source: what it has finished*)
(* is where the reader found it, and what it writes next will be.          *)
CopyInv ==
  Quiet =>
    /\ InBody \/ BehindBody => \A b \in Blocks : b < nxt => got[b] = WrittenExtent(b)
    /\ InBody => \A c \in Blocks : nxt <= c /\ ~Empty(c) /\ NoneFrom(nxt, c) =>
                   got[c].off = at[nxt] - headerOff

StableInv == ChainInv /\ CopyInv

(* Nothing was asked to be replaced: a block is copied.                    *)
LEMMA QuietCopies ==
  ASSUME Quiet, RoundInv
  PROVE  /\ req.kdtb = NONE
         /\ \A b \in Blocks : \A n, packed : Written(req.replace[b], n, packed) = {n}
<1>1. \A b \in Blocks : req.replace[b] = NONE
  BY DEF Quiet, NothingReplaced
<1> QED
  BY <1>1 DEF Quiet, NothingReplaced, Written

(* The block that a quiet repack closes has the length that was read.      *)
LEMMA QuietCloses ==
  ASSUME Quiet, RoundInv, Sourced,
         WriteKernel \/ WriteRamdisk \/ CloseRamdisk \/ WriteBlock
         \/ WriteSignature \/ NoTable \/ CloseTable
  PROVE  pos = at[nxt] /\ CloseBlock(nxt, pos + got[nxt].len)
<1>1. PatchInv /\ ReaderInv /\ src = SourceOf /\ ~src.vendor
  BY DEF RoundInv, WriterInv, Sourced, Quiet
<1>2. ~CloseRamdisk /\ ~CloseTable /\ pc = "body"
  BY <1>1 DEF PatchInv, Position, CloseRamdisk, CloseTable, WriteKernel, WriteRamdisk,
              WriteBlock, WriteSignature, NoTable
<1>3. pos = at[nxt] /\ pos \in Nat
  BY <1>1, <1>2 DEF PatchInv, Position, PatchTypeOK
<1>4. \A b \in Blocks \ {Kernel, Ramdisk} : src.body[b] = got[b].len
  BY <1>1, SourceFields
<1>b. /\ {Kernel, Ramdisk, Signature, VendorTable} \subseteq Blocks
      /\ {Second, Extra, RecoveryDtbo, Dtb, Bootconfig} \subseteq Blocks \ {Kernel, Ramdisk}
      /\ Signature \notin {Kernel, Ramdisk}
  BY DEF Blocks, Kernel, Ramdisk, Second, Extra, RecoveryDtbo, Dtb, Signature,
         VendorTable, Bootconfig
<1>5. CASE WriteKernel
  <2>1. nxt = Kernel /\ CloseBlock(Kernel, pos + KernelLen + KernelDtbLen)
    <3>1. PICK n \in Written(req.replace[Kernel], src.body[Kernel],
                             src.kernelPacked) :
            CloseBlock(Kernel,
                       pos + n + (IF req.kdtb = NONE THEN src.kdtb ELSE req.kdtb.len))
      BY <1>5 DEF WriteKernel
    <3>2. n = KernelLen /\ req.kdtb = NONE /\ src.kdtb = KernelDtbLen
      <4>1. Written(req.replace[Kernel], src.body[Kernel], src.kernelPacked)
              = {src.body[Kernel]}
        BY <1>b, QuietCopies
      <4> QED
        BY <1>1, <4>1, QuietCopies, SourceFields
    <3> QED
      BY <1>5, <3>1, <3>2 DEF WriteKernel
  <2>2. KernelLen + KernelDtbLen = got[Kernel].len /\ KernelLen \in Nat
        /\ KernelDtbLen \in Nat
    BY <1>1, KernelParts DEF Quiet
  <2>3. pos + KernelLen + KernelDtbLen = pos + got[Kernel].len
    BY <1>3, <2>2
  <2> QED
    BY <1>3, <2>1, <2>3
<1>6. CASE WriteRamdisk
  <2>1. nxt = Ramdisk /\ CloseBlock(Ramdisk, pos + RamdiskLen)
    <3>1. PICK n \in Written(req.replace[Ramdisk], src.body[Ramdisk],
                             src.ramdiskPacked) : CloseBlock(Ramdisk, pos + n)
      BY <1>6 DEF WriteRamdisk
    <3>2. Written(req.replace[Ramdisk], src.body[Ramdisk], src.ramdiskPacked)
            = {src.body[Ramdisk]}
      BY <1>b, QuietCopies
    <3> QED
      BY <1>1, <1>6, <3>1, <3>2, SourceFields DEF WriteRamdisk
  <2>2. RamdiskLen = got[Ramdisk].len
    BY <1>1, KernelParts DEF Quiet
  <2> QED
    BY <1>3, <2>1, <2>2
<1>7. CASE WriteBlock
  <2>1. nxt \in Blocks \ {Kernel, Ramdisk}
    BY <1>7, <1>b DEF WriteBlock
  <2>2. CloseBlock(nxt, pos + src.body[nxt])
    <3>1. PICK n \in Written(req.replace[nxt], src.body[nxt], FALSE) :
            CloseBlock(nxt, pos + n)
      BY <1>7 DEF WriteBlock
    <3>2. Written(req.replace[nxt], src.body[nxt], FALSE) = {src.body[nxt]}
      BY <2>1, QuietCopies
    <3> QED
      BY <3>1, <3>2
  <2> QED
    BY <1>3, <1>4, <2>1, <2>2
<1>8. CASE WriteSignature
  BY <1>3, <1>4, <1>8, <1>b DEF WriteSignature
<1>9. CASE NoTable
  <2>1. nxt = VendorTable /\ CloseBlock(nxt, pos) /\ got[VendorTable].len = 0
    BY <1>9 DEF NoTable, Quiet, Empty
  <2> QED
    BY <1>3, <2>1
<1> QED
  BY <1>2, <1>5, <1>6, <1>7, <1>8, <1>9

(* A block that is copied leaves the writer in step.                       *)
LEMMA CopyClosing ==
  ASSUME RoundInv, Sourced, StableInv, Quiet, UNCHANGED <<readerVars, stage>>,
         WriteKernel \/ WriteRamdisk \/ CloseRamdisk \/ WriteBlock
         \/ WriteSignature \/ NoTable \/ CloseTable
  PROVE  CopyInv'
<1>1. PICK k \in Blocks : k = nxt
  BY ClosingShape DEF RoundInv, WriterInv
<1>2. InBody /\ UNCHANGED <<src, headerOff>> /\ PatchInv
  BY ClosingShape DEF RoundInv, WriterInv
<1>3. /\ at \in [1 .. 10 -> Nat] /\ headerOff \in Nat /\ src.page \in Nat \ {0}
      /\ Blocks = 1 .. 9 /\ ReaderInv /\ at[k] >= headerOff
      /\ \A b \in Blocks : got[b].len \in Nat /\ got[b].off \in Nat
  <2>1. at \in [1 .. 10 -> Nat] /\ headerOff \in Nat /\ src.page \in Nat \ {0}
    BY <1>2, SourceValues DEF PatchInv, PatchTypeOK
  <2>2. at[k] >= headerOff
    BY <1>1, <1>2 DEF PatchInv, Position
  <2>3. ReaderInv /\ \A b \in Blocks : got[b].len \in Nat /\ got[b].off \in Nat
    BY ParsedValues DEF RoundInv
  <2> QED
    BY <2>1, <2>2, <2>3 DEF Blocks
<1>4. PICK end \in Nat : end = at[k] + got[k].len
  BY <1>1, <1>3
<1>5. /\ nxt' = k + 1
      /\ len'[k] = got[k].len
      /\ \A b \in Blocks : b # k => len'[b] = len[b]
      /\ \A b \in 1 .. 10 : b # k + 1 => at'[b] = at[b]
      /\ at'[k + 1] = at[k] + Align(got[k].len, src.page)
  <2>1. CloseBlock(nxt, end) /\ end >= pos /\ pos = at[nxt]
    BY <1>1, <1>3, <1>4, QuietCloses
  <2>2. /\ nxt' = nxt + 1 /\ len'[nxt] = end - at[nxt]
        /\ \A b \in Blocks : b # nxt => len'[b] = len[b]
        /\ \A b \in 1 .. 10 : b # nxt + 1 => at'[b] = at[b]
        /\ at'[nxt'] = at[nxt] + Align(len'[nxt], src.page)
    BY <1>1, <1>2, <2>1, CloseBlockFacts
  <2>3. end - at[k] = got[k].len
    BY <1>3, <1>4
  <2> QED
    BY <1>1, <2>2, <2>3
<1>6. /\ \A b \in Blocks : b < k => got[b] = WrittenExtent(b)
      /\ \A c \in Blocks : k <= c /\ ~Empty(c) /\ NoneFrom(k, c) =>
           got[c].off = at[k] - headerOff
  BY <1>1, <1>2 DEF StableInv, CopyInv
<1>7. UNCHANGED <<img, page, got>> /\ src.page = page
  BY SourceFields DEF readerVars, Sourced, Quiet
<1>8. \A b \in Blocks : b < k + 1 => got[b] = WrittenExtent(b)'
  <2> SUFFICES ASSUME NEW b \in Blocks, b < k + 1
               PROVE  got[b] = WrittenExtent(b)'
    OBVIOUS
  <2>1. CASE b = k
    <3>1. CASE Empty(k)
      BY <1>5, <2>1, <3>1 DEF StableInv, ChainInv, WrittenExtent, Empty
    <3>2. CASE ~Empty(k)
      <4>1. got[k].off = at[k] - headerOff
        BY <1>3, <1>6, <3>2 DEF NoneFrom
      <4>2. got[k] = [off |-> at[k] - headerOff, len |-> got[k].len]
        BY <4>1 DEF RoundInv, ReaderInv, WalkInv, ReaderTypeOK, Extent
      <4>3. got[k].len > 0 /\ at'[k] = at[k] /\ headerOff' = headerOff
        BY <1>2, <1>3, <1>5, <3>2 DEF Empty
      <4> QED
        BY <1>5, <2>1, <4>2, <4>3 DEF WrittenExtent
    <3> QED
      BY <3>1, <3>2
  <2>2. CASE b # k
    <3>1. b < k /\ b # k + 1 /\ b \in 1 .. 10
      BY <1>3, <2>2
    <3>2. len'[b] = len[b] /\ at'[b] = at[b] /\ headerOff' = headerOff
      BY <1>2, <1>5, <2>2, <3>1
    <3> QED
      BY <1>6, <3>1, <3>2 DEF WrittenExtent
  <2> QED
    BY <2>1, <2>2
<1>9. ASSUME NEW c \in Blocks, k + 1 <= c, ~Empty(c), NoneFrom(k + 1, c)
      PROVE  got[c].off = at'[k + 1] - headerOff
  <2>1. CASE Empty(k)
    <3>1. NoneFrom(k, c)
      BY <1>3, <1>9, <2>1 DEF NoneFrom
    <3>2. at'[k + 1] = at[k]
      BY <1>3, <1>5, <2>1, AlignZero DEF Empty
    <3> QED
      BY <1>3, <1>6, <1>9, <3>1, <3>2
  <2>2. CASE ~Empty(k)
    <3>1. got[k].off = at[k] - headerOff
      BY <1>3, <1>6, <2>2 DEF NoneFrom
    <3>2. got[c].off = got[k].off + Align(got[k].len, page)
      BY <1>3, <1>9, <2>2 DEF StableInv, ChainInv, BehindPadding
    <3>3. Align(got[k].len, page) \in Nat
      BY <1>3, <1>7, AlignFacts
    <3> QED
      BY <1>3, <1>5, <1>7, <3>1, <3>2, <3>3
  <2> QED
    BY <2>1, <2>2
<1>10. \A b, c : (Empty(b)' <=> Empty(b)) /\ (NoneFrom(b, c)' <=> NoneFrom(b, c))
  BY <1>7 DEF Empty, NoneFrom
<1>11. \A c : NoneFrom(nxt, c)' <=> NoneFrom(k + 1, c)
  BY <1>5, <1>7 DEF NoneFrom, Empty
<1>12. headerOff' = headerOff /\ got' = got
  BY <1>2, <1>7
<1>13. \A b \in Blocks : b < nxt' => got'[b] = WrittenExtent(b)'
  BY <1>5, <1>8, <1>12
<1>14. \A c \in Blocks : nxt' <= c /\ ~Empty(c)' /\ NoneFrom(nxt, c)' =>
         got'[c].off = at'[nxt'] - headerOff'
  BY <1>5, <1>9, <1>10, <1>11, <1>12
<1> QED
  BY <1>13, <1>14 DEF CopyInv

(* Each of the steps of the writer keeps it in step with its source.       *)
LEMMA CopyStep ==
  ASSUME RoundInv, BackInv, StableInv, PatchNext, UNCHANGED <<readerVars, stage>>
  PROVE  CopyInv'
<1> SUFFICES ASSUME Quiet PROVE CopyInv'
  <2>1. UNCHANGED <<src, req>>
    BY WrapperOnce DEF WriteWrapper
  <2>2. Quiet' => Quiet
    BY <2>1 DEF Quiet, Empty, readerVars
  <2> QED
    BY <2>2 DEF CopyInv
<1>1. PatchInv /\ ~src.vendor /\ HeaderInv
  BY DEF RoundInv, WriterInv, Quiet, BackInv
<1>2. CASE \/ WriteKernel \/ WriteRamdisk \/ CloseRamdisk \/ WriteBlock
           \/ WriteSignature \/ NoTable \/ CloseTable
  BY <1>2, CopyClosing DEF BackInv
<1>3. CASE \/ StartEntries \/ WriteReplacedEntry \/ ReplacedDone
           \/ WriteKeptEntry \/ StartTable \/ WriteTableEntry
  <2>1. ~StartEntries /\ ~StartTable
    BY <1>1 DEF StartEntries, StartTable
  <2>2. pc \in {"replaced", "kept", "table"}
    BY <1>3, <2>1 DEF WriteReplacedEntry, ReplacedDone, WriteKeptEntry, WriteTableEntry
  <2> QED
    BY <1>1, <2>2 DEF PatchInv, Position
<1>4. CASE WriteWrapper
  BY <1>4 DEF WriteWrapper, CopyInv, InBody, BehindBody
<1>5. CASE WriteHeader
  <2>1. /\ nxt = 1 /\ nxt' = 1 /\ src' = src /\ headerOff' = headerOff
        /\ pc' \in {"failed", "body"}
        /\ pc' = "body" =>
             at' = [at EXCEPT ![1] = headerOff + HdrSpace(src.layout, src.page)]
    BY <1>1, <1>5 DEF WriteHeader, PatchInv, Position
  <2>2. /\ at \in [1 .. 10 -> Nat] /\ headerOff \in Nat
        /\ HdrSpace(src.layout, src.page) \in Nat
    BY <1>1, SourceValues, HdrSpaceFacts DEF PatchInv, PatchTypeOK
  <2>3. pc' = "body" => at'[1] - headerOff = HdrSpace(src.layout, src.page)
    BY <2>1, <2>2
  <2>4. src.layout = layout /\ src.page = page
    BY SourceFields DEF BackInv, Sourced, Quiet
  <2>5. \A c \in Blocks : (Empty(c)' <=> Empty(c)) /\ (NoneFrom(nxt, c)' <=> NoneFrom(1, c))
                          /\ got'[c] = got[c]
    BY <2>1 DEF readerVars, Empty, NoneFrom
  <2>6. \A b \in Blocks : ~(b < 1)
    BY DEF Blocks
  <2>7. ASSUME InBody', NEW c \in Blocks, ~Empty(c), NoneFrom(1, c)
        PROVE  got[c].off = at'[1] - headerOff
    <3>1. pc' = "body"
      BY <2>1, <2>7 DEF InBody
    <3> QED
      BY <2>3, <2>4, <2>7, <3>1 DEF StableInv, ChainInv
  <2> QED
    BY <2>1, <2>5, <2>6, <2>7 DEF CopyInv
<1>6. CASE WriteTail \/ StoreSize \/ StoreDtboOffset \/ SizesDone \/ SealWrapper
           \/ WriteFails
  <2>1. /\ UNCHANGED <<nxt, at, len, headerOff>> /\ ~InBody'
        /\ BehindBody' => InBody \/ BehindBody
    <3>1. CASE WriteTail \/ StoreSize \/ StoreDtboOffset
      BY <3>1 DEF WriteTail, StoreSize, StoreDtboOffset, InBody, BehindBody, bodyVars
    <3>2. CASE SizesDone \/ SealWrapper \/ WriteFails
      BY <3>2 DEF SizesDone, SealWrapper, WriteFails, InBody, BehindBody, bodyVars
    <3> QED
      BY <1>6, <3>1, <3>2
  <2>2. \A b \in Blocks : WrittenExtent(b)' = WrittenExtent(b) /\ got'[b] = got[b]
    BY <2>1 DEF WrittenExtent, readerVars
  <2> QED
    BY <2>1, <2>2 DEF StableInv, CopyInv
<1> QED
  BY <1>2, <1>3, <1>4, <1>5, <1>6 DEF PatchNext

(* In every state of a round trip reader and writer agree on the chain.    *)
THEOREM RoundTripAgrees == RoundTripSpec => []StableInv
<1>1. RoundTripInit => StableInv
  <2> SUFFICES ASSUME NEW p \in Files, ReadFirst(p.file, p.image) PROVE StableInv
    BY DEF RoundTripInit
  <2>1. rpc = "header" /\ stage = "read" /\ \A b \in Blocks : got[b] = NoExtent
    BY DEF ReadFirst, ReaderStart
  <2> QED
    BY <2>1, ChainBegins DEF StableInv, CopyInv, Quiet
<1>2. RoundInv /\ BackInv /\ StableInv /\ [RoundTripNext]_vars => StableInv'
  <2> SUFFICES ASSUME RoundInv, BackInv, StableInv, [RoundTripNext]_vars
               PROVE  StableInv'
    OBVIOUS
  <2>1. CASE UNCHANGED vars
    <3>1. /\ UNCHANGED <<patchVars, readerVars, stage, file>>
          /\ UNCHANGED <<img, rpc, layout, page, off, cur, got>>
          /\ UNCHANGED <<src, req, pc, nxt, at, len, headerOff>>
      BY <2>1 DEF vars, readerVars, patchVars
    <3>2. ChainInv'
      BY <3>1, ChainStep DEF StableInv, RoundInv
    <3>3. CopyInv'
      BY <3>1 DEF StableInv, CopyInv, Quiet, InBody, BehindBody, Empty, NoneFrom,
                  WrittenExtent
    <3> QED
      BY <3>2, <3>3 DEF StableInv
  <2>2. CASE Read
    <3>1. ChainInv' /\ stage' # "patch"
      BY <2>2, ChainStep DEF Read, StableInv, RoundInv
    <3> QED
      BY <3>1 DEF StableInv, CopyInv, Quiet
  <2>3. ASSUME NEW r \in RequestsFor(SourceOf) \cap Request, Repack(r)
        PROVE  StableInv'
    <3>1. UNCHANGED readerVars /\ pc' = "wrapper"
      BY <2>3 DEF Repack
    <3>2. ChainInv'
      BY <3>1, ChainStep DEF StableInv, RoundInv
    <3> QED
      BY <3>1, <3>2 DEF StableInv, CopyInv, InBody, BehindBody
  <2>4. CASE Patch
    <3>1. PatchNext /\ UNCHANGED <<readerVars, file, stage>>
      BY <2>4 DEF Patch
    <3>2. ChainInv' /\ CopyInv'
      BY <3>1, ChainStep, CopyStep DEF StableInv, RoundInv
    <3> QED
      BY <3>2 DEF StableInv
  <2>5. CASE Reopen
    <3>1. rpc' = "header" /\ stage' = "reread" /\ \A b \in Blocks : got'[b] = NoExtent
      BY <2>5 DEF Reopen
    <3>2. ChainInv'
      BY <3>1, ChainBeginsAgain
    <3> QED
      BY <3>1, <3>2 DEF StableInv, CopyInv, Quiet
  <2> QED
    BY <2>1, <2>2, <2>3, <2>4, <2>5 DEF RoundTripNext
<1> QED
  BY <1>1, <1>2, RoundTripInvariant, RoundTripFollows, PTL DEF RoundTripSpec

(* A repack that replaces nothing writes what the reader handed out, and   *)
(* moves no block of an image without MTK headers, whatever the image:     *)
(* patch() undoes what the reader does.                                    *)
THEOREM RoundTripStable == RoundTripSpec => []RepackStable
<1>1. RoundInv /\ BackInv /\ StableInv => RepackStable
  <2> SUFFICES ASSUME RoundInv, BackInv, StableInv, stage = "patch", pc = "done",
                      req = NothingReplaced, ~src.vendor, Empty(VendorTable)
               PROVE  /\ klen = KernelLen /\ len[Kernel] = KernelBytes
                      /\ len[Ramdisk] = RamdiskLen
                      /\ \A b \in Blocks \ {Kernel, Ramdisk} : len[b] = got[b].len
                      /\ ~img.mtkKernel /\ ~img.mtkRamdisk =>
                           \A b \in Blocks : got[b] = WrittenExtent(b)
    BY DEF RepackStable, Empty
  <2>1. nxt = 10 /\ BehindBody
    BY DEF RoundInv, WriterInv, PatchInv, Position, BehindBody
  <2>2. SameKernel /\ \A b \in Blocks : req.replace[b] = NONE
    BY DEF SameKernel, NothingReplaced, Kernel, Blocks
  <2>3. src = SourceOf /\ KernelKept /\ OthersKept /\ NoTableMade
    BY <2>1 DEF BackInv, Sourced, KeptLens
  <2>4. klen = KernelLen /\ len[Kernel] = KernelBytes
    BY <2>1, <2>2, <2>3, SearchedKernel, SourceFields DEF KernelKept, Kernel
  <2>5. \A b \in Blocks \ {Kernel, VendorTable} : len[b] = src.body[b]
    BY <2>1, <2>2, <2>3 DEF OthersKept, Blocks
  <2>6. len[Ramdisk] = RamdiskLen
    BY <2>3, <2>5, SourceFields DEF Ramdisk, Kernel, VendorTable, Blocks
  <2>7. \A b \in Blocks \ {Kernel, Ramdisk} : len[b] = got[b].len
    <3> TAKE b \in Blocks \ {Kernel, Ramdisk}
    <3>1. CASE b = VendorTable
      BY <2>1, <2>3, <3>1 DEF NoTableMade, Empty, VendorTable
    <3>2. CASE b # VendorTable
      BY <2>3, <2>5, <3>2, SourceFields
    <3> QED
      BY <3>1, <3>2
  <2>8. ASSUME ~img.mtkKernel, ~img.mtkRamdisk
        PROVE  \A b \in Blocks : got[b] = WrittenExtent(b)
    BY <2>1, <2>8 DEF StableInv, CopyInv, Quiet, Blocks
  <2> QED
    BY <2>4, <2>6, <2>7, <2>8
<1> QED
  BY <1>1, RoundTripInvariant, RoundTripFollows, RoundTripAgrees, PTL

-----------------------------------------------------------------------------
(* What an interrupted patch leaves, and what the AVB metadata become.     *)

(* Each size field is the source's or the one of the block that was        *)
(* written; that of the table only behind a magic that is lost.            *)
FieldsMixed ==
  /\ \A b \in Blocks : hdr[b] \in {src.size[b], StoredSize(b)}
  /\ magic => hdr[VendorTable] = src.size[VendorTable]

(* The image that is read again has the header that was left.              *)
Reread ==
  stage = "reread" =>
    /\ img.size = hdr
    /\ img.magic # "other" => magic
    /\ file.avb = [has |-> FindsAvb, len |-> vbmeta.len]

(* The reader is never in front of the writer, whatever of the sizes the   *)
(* header could not say.                                                   *)
BehindWriter ==
  stage = "reread" /\ pc = "done" /\ magic =>
    /\ LayoutOf(img.magic, img.version) = src.layout
    /\ PageSizeVal(img.magic, img.version, img.pageField) = src.page
    /\ rpc \in {"walk", "dtb", "tail", "parsed"} =>
         layout = src.layout /\ page = src.page /\ off <= at[cur] - headerOff

MixInv == FieldsMixed /\ Reread /\ BehindWriter

(* Fields are stored one by one, and that of a table when the magic is     *)
(* already gone: no layout has both a kernel and a table.                  *)
LEMMA FieldsStep ==
  ASSUME PatchInv, HeaderInv, FieldsMixed, [PatchNext]_patchVars
  PROVE  FieldsMixed'
<1>1. CASE /\ InFront
           /\ UNCHANGED <<src, hdr>>
  BY <1>1 DEF HeaderInv, FieldsMixed
<1>2. CASE StoreSize
  <2> DEFINE stored == Stored(i)
  <2>1. /\ pc = "sizes" /\ i \in Blocks /\ UNCHANGED <<src, bodyVars>>
        /\ hdr' = IF stored THEN [hdr EXCEPT ![i] = StoredSize(i)] ELSE hdr
        /\ magic' = (magic /\ (i = Kernel => stored))
    BY <1>2 DEF StoreSize, Stored
  <2>2. \A b : StoredSize(b)' = StoredSize(b)
    BY <2>1 DEF StoredSize, bodyVars
  <2>3. hdr \in [Blocks -> 0 .. (U32 - 1)] /\ src.layout \in Layouts
    BY SourceValues DEF PatchInv, PatchTypeOK
  <2>4. \A b \in Blocks : hdr'[b] \in {src.size[b], StoredSize(b)}
    BY <2>1, <2>3 DEF FieldsMixed
  <2>5. ASSUME magic', stored PROVE i # VendorTable
    <3>1. i = VendorTable => Kernel < Counter /\ BehindBody
      BY <2>1 DEF Counter, Kernel, VendorTable, BehindBody
    <3>2. i = VendorTable => HasSize(src.layout, Kernel) /\ HasSize(src.layout, VendorTable)
      BY <2>1, <2>5, <3>1 DEF HeaderInv, Stored
    <3> QED
      BY <2>3, <3>2, KernelOrTable
  <2>6. VendorTable \in Blocks
    BY DEF VendorTable, Blocks
  <2>7. magic' => hdr'[VendorTable] = src.size[VendorTable]
    BY <2>1, <2>3, <2>5, <2>6 DEF FieldsMixed
  <2> QED
    BY <2>1, <2>2, <2>4, <2>7 DEF FieldsMixed
<1>3. CASE UNCHANGED <<src, hdr, magic, len, tableSz>>
  BY <1>3 DEF FieldsMixed, StoredSize
<1>4. CASE \/ WriteWrapper \/ WriteHeader \/ WriteTail
  BY <1>1, <1>4 DEF WriteWrapper, WriteHeader, WriteTail, InFront, InBody, headerVars
<1>5. CASE \/ WriteKernel \/ WriteRamdisk \/ CloseRamdisk \/ WriteBlock
           \/ WriteSignature \/ NoTable \/ CloseTable
  BY <1>1, <1>5, ClosingShape DEF InFront, headerVars
<1>6. CASE \/ StartEntries \/ WriteReplacedEntry \/ ReplacedDone
           \/ WriteKeptEntry \/ StartTable \/ WriteTableEntry
  <2>1. InBody /\ UNCHANGED <<src, hdr>>
    BY <1>6, WithinExtends
  <2> QED
    BY <1>1, <2>1 DEF InFront
<1>7. CASE \/ StoreDtboOffset \/ SizesDone \/ SealWrapper \/ WriteFails
           \/ UNCHANGED patchVars
  <2>1. UNCHANGED <<src, hdr, magic, len, tableSz>>
    BY <1>7 DEF StoreDtboOffset, SizesDone, SealWrapper, WriteFails, patchVars,
                bodyVars, headerVars
  <2> QED
    BY <1>3, <2>1
<1> QED
  BY <1>2, <1>4, <1>5, <1>6, <1>7 DEF PatchNext

(* In a finished image with a magic no field says more than was written.   *)
LEMMA FieldsSayLess ==
  ASSUME RoundInv, HeaderInv, pc = "done", magic
  PROVE  \A b \in Blocks : HasSize(src.layout, b) => hdr[b] \in Nat /\ hdr[b] <= len[b]
<1>1. /\ PatchTypeOK /\ nxt = 10 /\ BehindBody /\ Counter = 10 /\ WellParsed(src)
  BY DEF RoundInv, WriterInv, PatchInv, Position, BehindBody, Counter
<1>2. /\ len \in [Blocks -> Nat] /\ hdr \in [Blocks -> 0 .. (U32 - 1)]
      /\ src.layout \in Layouts /\ Blocks = 1 .. 9
  BY <1>1, SourceValues DEF PatchTypeOK, Blocks
<1>3. SizesSaid /\ SignatureKept /\ HasSize(src.layout, Kernel)
  BY <1>1 DEF HeaderInv, Kernel
<1>4. ~HasSize(src.layout, VendorTable)
  BY <1>2, <1>3, KernelOrTable
<1> SUFFICES ASSUME NEW b \in Blocks, HasSize(src.layout, b)
             PROVE  hdr[b] \in Nat /\ hdr[b] <= len[b]
  OBVIOUS
<1>5. len[b] \in Nat /\ b < 10 /\ hdr[b] \in Nat
  BY <1>2, U32Assumption
<1>6. CASE b = Signature
  <2>1. hdr[b] = src.size[b]
    BY <1>1, <1>3, <1>5, <1>6 DEF SizesSaid, Stored
  <2>2. len[b] = src.size[b]
    BY <1>1, <1>3, <1>6 DEF SignatureKept, WellParsed, Signature
  <2> QED
    BY <1>5, <2>1, <2>2
<1>7. CASE b # Signature
  <2>1. hdr[b] = len[b] % U32
    BY <1>1, <1>3, <1>4, <1>5, <1>7 DEF SizesSaid, Stored, StoredSize
  <2>2. /\ len[b] % U32 \in Nat /\ len[b] \div U32 \in Nat
        /\ len[b] = (len[b] \div U32) * U32 + (len[b] % U32)
    BY <1>5, U32Assumption, DivFacts
  <2>3. (len[b] \div U32) * U32 \in Nat
    BY <2>2, U32Assumption
  <2> QED
    BY <1>5, <2>1, <2>2, <2>3
<1> QED
  BY <1>6, <1>7

(* Where the blocks of a finished image are. *)
LEMMA DoneChain ==
  ASSUME RoundInv, HeaderInv, pc = "done"
  PROVE  /\ headerOff \in Nat /\ at \in [1 .. 10 -> Nat] /\ src.page \in Nat \ {0}
         /\ at[1] = headerOff + HdrSpace(src.layout, src.page)
         /\ HdrSpace(src.layout, src.page) \in Nat
         /\ \A b \in Blocks : /\ len[b] \in Nat /\ at[b] \in Nat
                              /\ at[b + 1] = at[b] + Align(len[b], src.page)
                              /\ Align(len[b], src.page) \in Nat
<1>1. /\ PatchTypeOK /\ BlockChain /\ nxt = 10 /\ BehindBody
  BY DEF RoundInv, WriterInv, PatchInv, Position, BehindBody
<1>2. /\ headerOff \in Nat /\ at \in [1 .. 10 -> Nat] /\ len \in [Blocks -> Nat]
      /\ src.page \in Nat \ {0} /\ src.layout \in Layouts
      /\ Finished = Blocks /\ Blocks = 1 .. 9
  <2>1. /\ headerOff \in Nat /\ at \in [1 .. 10 -> Nat] /\ len \in [Blocks -> Nat]
    BY <1>1 DEF PatchTypeOK
  <2>2. src.page \in Nat \ {0} /\ src.layout \in Layouts
    BY <1>1, SourceValues
  <2>3. Finished = Blocks /\ Blocks = 1 .. 9
    BY <1>1 DEF Finished, Blocks
  <2> QED
    BY <2>1, <2>2, <2>3
<1>3. at[1] = headerOff + HdrSpace(src.layout, src.page)
  BY <1>1 DEF HeaderInv, FirstAt
<1>4. HdrSpace(src.layout, src.page) \in Nat
  BY <1>2, HdrSpaceFacts
<1>5. \A b \in Blocks : len[b] \in Nat /\ at[b] \in Nat
  BY <1>2
<1>6. \A b \in Blocks : at[b + 1] = at[b] + Align(len[b], src.page)
  BY <1>1, <1>2 DEF BlockChain
<1>7. \A b \in Blocks : Align(len[b], src.page) \in Nat
  BY <1>2, <1>5, AlignFacts
<1> QED
  BY <1>2, <1>3, <1>4, <1>5, <1>6, <1>7

(* The reader of a finished image stays behind its writer. *)
LEMMA BehindWriterStep ==
  ASSUME RoundInv, HeaderInv, MixInv, ReaderNext, UNCHANGED <<patchVars, stage>>
  PROVE  BehindWriter'
<1> SUFFICES ASSUME stage = "reread", pc = "done", magic
             PROVE  BehindWriter'
  BY DEF BehindWriter, patchVars
<1>1. /\ LayoutOf(img.magic, img.version) = src.layout
      /\ PageSizeVal(img.magic, img.version, img.pageField) = src.page
      /\ img' = img /\ img.size = hdr /\ UNCHANGED <<src, at, headerOff>>
  BY DEF MixInv, BehindWriter, Reread, ReaderNext, ParseHeader, SkipBlock, TakeBlock,
         BlockOutOfBounds, ParseRamdisk, SplitKernel, SliceTail, patchVars
<1> SUFFICES ASSUME rpc' \in {"walk", "dtb", "tail", "parsed"}
             PROVE  /\ layout' = src.layout /\ page' = src.page
                    /\ off' <= at[cur'] - headerOff
  BY <1>1 DEF BehindWriter
<1>2. CASE ParseHeader
  <2>1. /\ layout' = src.layout /\ page' = src.page
        /\ off' = HdrSpace(src.layout, src.page) /\ cur' = 1
    BY <1>1, <1>2 DEF ParseHeader, RoundInv, ReaderInv, WalkInv
  <2> QED
    BY <2>1, DoneChain
<1>3. CASE ~ParseHeader
  <2>1. rpc \in {"walk", "dtb", "tail", "parsed"} /\ UNCHANGED <<layout, page>>
    BY <1>3 DEF ReaderNext, SkipBlock, TakeBlock, BlockOutOfBounds, ParseRamdisk,
                SplitKernel, SliceTail
  <2>2. layout = src.layout /\ page = src.page /\ off <= at[cur] - headerOff
    BY <2>1 DEF MixInv, BehindWriter
  <2>3. off \in Nat /\ cur \in 1 .. 10
    BY DEF RoundInv, ReaderInv, WalkInv, ReaderTypeOK
  <2>4. CASE SkipBlock
    <3>1. cur \in Blocks /\ off' = off /\ cur' = cur + 1
      BY <2>4 DEF SkipBlock
    <3>2. at[cur + 1] = at[cur] + Align(len[cur], src.page) /\ at[cur] \in Nat
          /\ Align(len[cur], src.page) \in Nat /\ headerOff \in Nat
      BY <3>1, DoneChain
    <3> QED
      BY <2>1, <2>2, <2>3, <3>1, <3>2
  <2>5. CASE TakeBlock
    <3>1. cur \in Blocks /\ off' = off + Align(BlockSize, page) /\ cur' = cur + 1
          /\ BlockSize > 0
      BY <2>5 DEF TakeBlock
    <3>2. at[cur + 1] = at[cur] + Align(len[cur], src.page) /\ at[cur] \in Nat
          /\ Align(len[cur], src.page) \in Nat /\ headerOff \in Nat
          /\ len[cur] \in Nat /\ src.page \in Nat \ {0}
      BY <3>1, DoneChain
    <3>3. BlockSize \in Nat /\ BlockSize <= len[cur]
      <4>1. HasSize(src.layout, cur) /\ BlockSize = hdr[cur]
        BY <1>1, <2>2, <3>1 DEF BlockSize
      <4> QED
        BY <3>1, <4>1, FieldsSayLess
    <3>4. Align(BlockSize, page) <= Align(len[cur], src.page)
          /\ Align(BlockSize, page) \in Nat
      BY <2>2, <3>2, <3>3, AlignMonotone, AlignFacts
    <3> QED
      BY <2>1, <2>2, <2>3, <3>1, <3>2, <3>4
  <2>6. CASE ~SkipBlock /\ ~TakeBlock
    <3>1. UNCHANGED <<off, cur>>
      BY <1>3, <2>6 DEF ReaderNext, BlockOutOfBounds, ParseRamdisk, SplitKernel,
                       SliceTail
    <3> QED
      BY <2>1, <2>2, <3>1
  <2> QED
    BY <2>4, <2>5, <2>6
<1> QED
  BY <1>2, <1>3

(* In every state of a round trip the header is such a mixture.            *)
THEOREM RoundTripMixes == RoundTripSpec => []MixInv
<1>1. RoundTripInit => MixInv
  BY DEF RoundTripInit, ReadFirst, NothingWritten, MixInv, FieldsMixed, Reread,
         BehindWriter
<1>2. RoundInv /\ BackInv /\ MixInv /\ [RoundTripNext]_vars => MixInv'
  <2> SUFFICES ASSUME RoundInv, BackInv, MixInv, [RoundTripNext]_vars
               PROVE  MixInv'
    OBVIOUS
  <2>i. PatchInv /\ HeaderInv
    BY DEF RoundInv, WriterInv, BackInv
  <2>u. UNCHANGED <<patchVars, img, file, stage>> => Reread'
    BY DEF MixInv, Reread, FindsAvb, patchVars
  <2>1. CASE UNCHANGED vars
    <3>1. /\ UNCHANGED <<patchVars, readerVars, stage, file>>
          /\ UNCHANGED <<img, rpc, layout, page, off, cur, got>>
          /\ UNCHANGED <<src, pc, at, headerOff, magic>>
      BY <2>1 DEF vars, readerVars, patchVars
    <3>2. FieldsMixed' /\ Reread'
      BY <2>i, <2>u, <3>1, FieldsStep DEF MixInv
    <3>3. BehindWriter'
      BY <3>1 DEF MixInv, BehindWriter
    <3> QED
      BY <3>2, <3>3 DEF MixInv
  <2>2. CASE Read
    <3>1. ReaderNext /\ UNCHANGED <<patchVars, file, stage>>
      BY <2>2 DEF Read
    <3>2. img' = img
      BY <3>1 DEF ReaderNext, ParseHeader, SkipBlock, TakeBlock, BlockOutOfBounds,
                  ParseRamdisk, SplitKernel, SliceTail
    <3>3. BehindWriter'
      BY <2>i, <3>1, BehindWriterStep
    <3> QED
      BY <2>i, <2>u, <3>1, <3>2, <3>3, FieldsStep DEF MixInv
  <2>3. ASSUME NEW r \in RequestsFor(SourceOf) \cap Request, Repack(r)
        PROVE  MixInv'
    <3>1. src' = SourceOf /\ hdr' = img.size /\ stage' = "patch"
      BY <2>3 DEF Repack
    <3>2. hdr' = src'.size
      BY <3>1, SourceFields
    <3> QED
      BY <3>1, <3>2 DEF MixInv, FieldsMixed, Reread, BehindWriter
  <2>4. CASE Patch
    <3>1. PatchNext /\ stage' = "patch"
      BY <2>4 DEF Patch
    <3> QED
      BY <2>i, <3>1, FieldsStep DEF MixInv, Reread, BehindWriter
  <2>5. CASE Reopen
    <3>1. /\ UNCHANGED patchVars /\ rpc' = "header" /\ stage = "patch"
          /\ img'.size = hdr
          /\ img'.magic = IF magic THEN img.magic ELSE "other"
          /\ img'.version = img.version /\ img'.pageField = img.pageField
          /\ file'.avb = [has |-> FindsAvb, len |-> vbmeta.len]
      BY <2>5 DEF Reopen, Output
    <3>2. Reread'
      BY <3>1 DEF Reread, FindsAvb, patchVars
    <3>3. BehindWriter'
      <4>1. src.layout = layout /\ src.page = page /\ HeaderRead
        BY <3>1, SourceFields DEF BackInv, Sourced, RoundInv, ReaderInv
      <4>2. magic' = magic /\ src' = src
        BY <3>1 DEF patchVars
      <4> QED
        BY <3>1, <4>1, <4>2 DEF BehindWriter, HeaderRead
    <3> QED
      BY <2>i, <3>1, <3>2, <3>3, FieldsStep DEF MixInv
  <2> QED
    BY <2>1, <2>2, <2>3, <2>4, <2>5 DEF RoundTripNext
<1> QED
  BY <1>1, <1>2, RoundTripInvariant, RoundTripFollows, PTL DEF RoundTripSpec

(* Whenever patch() fails, a reader of what it left finds blocks of the old*)
(* sizes and of new ones, and no others.                                   *)
THEOREM RoundTripMixture == RoundTripSpec => []InterruptedIsMixture
<1>1. RoundInv /\ MixInv => InterruptedIsMixture
  <2> SUFFICES ASSUME RoundInv, MixInv, stage = "reread", rpc = "parsed",
                      NEW b \in Blocks, got[b].len > 0
               PROVE  got[b].len \in {src.size[b], len[b] % U32}
    BY DEF InterruptedIsMixture
  <2>1. got[b].len = Sized(b) /\ img.magic # "other"
    BY DEF RoundInv, ReaderInv, HeaderRead
  <2>2. got[b].len = hdr[b] /\ magic
    BY <2>1 DEF Sized, MixInv, Reread
  <2>3. b # VendorTable => hdr[b] \in {src.size[b], len[b] % U32}
    BY DEF MixInv, FieldsMixed, StoredSize
  <2> QED
    BY <2>2, <2>3 DEF MixInv, FieldsMixed
<1> QED
  BY <1>1, RoundTripInvariant, RoundTripMixes, PTL

(* Metadata that fit behind the new payload are found again, and no block  *)
(* reaches into the footer, for every image and every request.             *)
THEOREM RoundTripKeepsAvb == RoundTripSpec => []AvbSurvives
<1>1. RoundInv /\ BackInv /\ MixInv => AvbSurvives
  <2> SUFFICES ASSUME RoundInv, BackInv, MixInv, stage = "reread", pc = "done",
                      rpc = "parsed", src.avb.has, src.wrapper = "none",
                      src.avb.len >= AvbMagicSize, Fits
               PROVE  file.avb = src.avb /\ off <= footer.at
    BY DEF AvbSurvives, Fits
  <2>1. PatchInv /\ AvbIntact /\ PatchTypeOK
    BY MetadataInPlace DEF RoundInv, WriterInv, PatchInv
  <2>2. /\ src.fileLen \in Nat /\ src.avb.len \in Nat /\ at[10] \in Nat
        /\ headerOff \in Nat /\ src.avb \in [has : BOOLEAN, len : Nat]
    BY <2>1, SourceValues DEF PatchTypeOK, ParsedImage
  <2>3. headerOff = 0
    BY DEF RoundInv, WrapperOut, WrapperLen
  <2>4. /\ vbmeta = [at |-> Align(at[10], 4096), len |-> src.avb.len]
        /\ footer.at = src.fileLen - FooterSize /\ footer.at + FooterSize = flen
    BY <2>1 DEF RoundInv, WriterInv, AvbInv, MetadataPlaced, BehindBody, FooterStart,
                AvbIntact, Fits
  <2>5. Align(at[10], 4096) \in Nat /\ at[10] <= Align(at[10], 4096)
    BY <2>2, MetadataAligned
  <2>6. Align(at[10], 4096) + src.avb.len <= footer.at
    BY <2>2, <2>4, <2>5 DEF Fits, FooterSize
  <2>7. FindsAvb
    <3>1. vbmeta.at = Align(at[10], 4096) /\ vbmeta.len = src.avb.len
      BY <2>4
    <3>2. vbmeta.at + AvbMagicSize <= footer.at
      BY <2>2, <2>4, <2>5, <2>6, <3>1 DEF AvbMagicSize, FooterSize
    <3> QED
      BY <2>3, <2>4, <3>1, <3>2 DEF FindsAvb
  <2>8. file.avb = [has |-> TRUE, len |-> src.avb.len]
    BY <2>4, <2>7 DEF MixInv, Reread
  <2>9. magic /\ cur = 10
    BY DEF MixInv, Reread, RoundInv, ReaderInv, HeaderRead
  <2>10. off <= at[10] - headerOff /\ off \in Nat
    BY <2>9, ParsedValues DEF MixInv, BehindWriter, RoundInv
  <2>11. off <= footer.at
    BY <2>2, <2>3, <2>4, <2>5, <2>6, <2>10 DEF FooterSize
  <2> QED
    BY <2>2, <2>8, <2>11
<1> QED
  BY <1>1, RoundTripInvariant, RoundTripFollows, RoundTripMixes, PTL

=============================================================================
