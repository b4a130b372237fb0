----------------------------- MODULE RoundTrip -----------------------------
(***************************************************************************)
(* Reading an image, patching it, and reading the result: BootBlocks and   *)
(* BootPatch put together as cmd_repack and the next command on its output *)
(* do (main.rs).  What the reader hands over is a source of the patch,     *)
(* what the patch wrote, finished or interrupted, is an image to read.     *)
(***************************************************************************)
EXTENDS BootPatch, BootBlocks

CONSTANTS
  Files,           \* what there is to read: an image and what surrounds it
  RequestsFor(_),  \* the options patch() may be called with for an image
  Rows,            \* what bytes of a ramdisk may say when read as a table row
  KernelFdts       \* the device tree magics that a new kernel may hold

VARIABLES
  file,   \* what BootImage::parse finds around and inside the blocks
  stage   \* "read", "patch" or "reread"

vars == <<patchVars, readerVars, file, stage>>

(* The wrapper and the offset of the payload, the formats the blocks are   *)
(* recognised as, and the AVB metadata.                                    *)
File == [wrapper : Wrappers, payloadOff : Nat,
         kernelPacked : BOOLEAN, ramdiskPacked : BOOLEAN,
         avb : [has : BOOLEAN, len : Nat]]

(* The payload begins behind the wrapper (the scan of BootImage::parse),   *)
(* and a footer is found in the last bytes of the file.                    *)
WellScanned(f, image) ==
  /\ f.payloadOff >= WrapperLen[f.wrapper]
  /\ f.avb.has => image.len >= FooterSize

ASSUME FilesAssumption ==
  \A p \in Files : /\ p.file \in File /\ p.image \in Image
                   /\ WellScanned(p.file, p.image)
                   /\ \A b \in Blocks : p.image.size[b] < U32

ASSUME RowsAssumption == Rows \subseteq TableEntry
ASSUME KernelFdtsAssumption == KernelFdts \subseteq Fdts

RoundTripTypeOK ==
  /\ PatchTypeOK /\ ReaderTypeOK
  /\ file \in File
  /\ stage \in {"read", "patch", "reread"}

-----------------------------------------------------------------------------
(* The BootImage that BootImage::parse returns: slices of the file.        *)
SourceOf ==
  [layout |-> layout, page |-> page,
   fileLen |-> file.payloadOff + img.len, payloadOff |-> file.payloadOff,
   wrapper |-> file.wrapper, size |-> img.size,
   body |-> [b \in Blocks |-> CASE b = Kernel  -> KernelLen
                                [] b = Ramdisk -> RamdiskLen
                                [] OTHER       -> got[b].len],
   kdtb |-> KernelDtbLen,
   kernelPacked |-> file.kernelPacked, ramdiskPacked |-> file.ramdiskPacked,
   vendor |-> HasTable,
   entries |-> IF HasTable
               THEN [k \in DOMAIN img.table |->
                       [len |-> img.table[k].len, packed |-> file.ramdiskPacked]]
               ELSE <<>>,
   avb |-> file.avb]

(* NoSource stands for the source while there is none. *)
NoSource ==
  [layout |-> "BOOT_HEADER_V0", page |-> 1, fileLen |-> 0, payloadOff |-> 0,
   wrapper |-> "none", size |-> [b \in Blocks |-> 0],
   body |-> [b \in Blocks |-> 0], kdtb |-> 0, kernelPacked |-> FALSE,
   ramdiskPacked |-> FALSE, vendor |-> FALSE, entries |-> <<>>,
   avb |-> [has |-> FALSE, len |-> 0]]

NothingReplaced ==
  [replace |-> [b \in Blocks |-> NONE], kdtb |-> NONE, vendor |-> <<>>,
   noCompress |-> FALSE, cmdline |-> "keep"]

-----------------------------------------------------------------------------
ReadFirst(f, image) ==
  /\ ReaderStart(image)
  /\ file = f
  /\ stage = "read"
  /\ src = NoSource /\ req = NothingReplaced /\ hdr = src.size
  /\ pc = "idle" /\ NothingWritten

Read == /\ stage \in {"read", "reread"}
        /\ ReaderNext
        /\ UNCHANGED <<patchVars, file, stage>>

(* cmd_repack: patch() is called with the parsed image.  It is also the    *)
(* start of PatchSpec with the source read and the request given.          *)
Repack(r) ==
  /\ stage = "read" /\ rpc = "parsed"
  /\ src' = SourceOf
  /\ req' = r
  /\ hdr' = img.size
  /\ pc' = "wrapper"
  /\ stage' = "patch"
  /\ UNCHANGED <<nxt, i, pos, flen, prefix, headerOff, bodyVars, dtboOff,
                 magic, tailVars, readerVars, file>>

Patch == /\ stage = "patch"
         /\ PatchNext
         /\ UNCHANGED <<readerVars, file, stage>>

(* What a block is recognised as after a replacement: what was put there,  *)
(* or the format of the block it was encoded in.                           *)
PackedNow(repl, before) ==
  IF repl = NONE THEN before ELSE repl.packed \/ (before /\ ~req.noCompress)

(* AVB metadata are looked for from the end of the file and, although the  *)
(* patch records an offset of the file, from the start of the payload;     *)
(* they are found by the magic that they begin with.                       *)
AvbMagicSize == 4

FindsAvb ==
  /\ src.avb.has
  /\ footer.at + FooterSize = flen
  /\ headerOff = 0
  /\ vbmeta.len >= AvbMagicSize
  /\ vbmeta.at + AvbMagicSize <= footer.at

(* Whether block b begins with an MTK header in the output.  Bytes that are*)
(* new, and those behind a header that was stripped, may do so; a header   *)
(* that was not stripped is still there.                                   *)
BeginsWithMtk(b, had, new) ==
  IF pc = "failed" \/ new \/ (had /\ got[b].len > 512) THEN BOOLEAN ELSE {had}

MtkKernelNow ==
  BeginsWithMtk(Kernel, img.mtkKernel,
    req.replace[Kernel] # NONE \/ (req.kdtb # NONE /\ klen < 4))

MtkRamdiskNow ==
  BeginsWithMtk(Ramdisk, img.mtkRamdisk,
    req.replace[Ramdisk] # NONE \/ src.vendor)

(* The kernel's bytes are those the source's reader searched for a tree.   *)
SameKernel == req.replace[Kernel] = NONE /\ req.kdtb = NONE

FdtsNow(mtk) ==
  IF pc = "done" /\ SameKernel /\ StripMtk(len[Kernel], mtk) = len[Kernel]
  THEN {img.fdts} ELSE KernelFdts

(* The image in the output: the header with the sizes that were stored.    *)
(* The number of table entries is never stored, so as many rows are read as*)
(* before, from what was written in their place.                           *)
Output(mk, mr, rows, f) ==
  [magic |-> IF magic THEN img.magic ELSE "other",
   version |-> img.version, pageField |-> img.pageField,
   size |-> hdr, entrySize |-> img.entrySize, table |-> rows,
   len |-> flen - headerOff, mtkKernel |-> mk, mtkRamdisk |-> mr, fdts |-> f]

(* The output is opened and its wrapper recognised.  The images of a nookhd*)
(* or acclaim wrapper are not followed further: their wrapper is not       *)
(* restored.                                                               *)
Reopen ==
  /\ stage = "patch" /\ pc \in {"done", "failed"}
  /\ src.wrapper \in {"none", "dhtb", "blob"}
  /\ stage' = "reread"
  /\ file' = [wrapper |-> src.wrapper, payloadOff |-> headerOff,
              kernelPacked |-> PackedNow(req.replace[Kernel], src.kernelPacked),
              ramdiskPacked |-> PackedNow(req.replace[Ramdisk], src.ramdiskPacked),
              avb |-> [has |-> FindsAvb, len |-> vbmeta.len]]
  /\ \E mk \in MtkKernelNow, mr \in MtkRamdiskNow,
        rows \in [DOMAIN img.table -> Rows] : \E f \in FdtsNow(mk) :
       img' = Output(mk, mr, rows, f)
  /\ rpc' = "header"
  /\ layout' = "BOOT_HEADER_V0" /\ page' = 1 /\ off' = 0 /\ cur' = 1
  /\ got' = [b \in Blocks |-> NoExtent]
  /\ UNCHANGED patchVars

RoundTripNext ==
  \/ Read
  \/ \E r \in RequestsFor(SourceOf) \cap Request : Repack(r)
  \/ Patch
  \/ Reopen

RoundTripInit == \E p \in Files : ReadFirst(p.file, p.image)

RoundTripSpec == RoundTripInit /\ [][RoundTripNext]_vars

-----------------------------------------------------------------------------
(* Properties.                                                             *)

(* Every image the reader accepts is one the writer can work on: its blocks*)
(* are blocks of its layout, its vendor ramdisks parts of a ramdisk, and   *)
(* the space of the header and a footer lie inside the file, so that none  *)
(* of the subtractions of patch() underflows.                              *)
ParsedIsWellFormed == rpc = "parsed" => WellParsed(SourceOf)

(* The header can say what was written: each block that has bytes has a    *)
(* field, which is wide enough for its length, and there is some block.    *)
HeaderSays ==
  /\ \A b \in Blocks : len[b] > 0 => HasSize(src.layout, b) /\ len[b] < U32
  /\ \E b \in Blocks : len[b] > 0

(* The extent of block b in the payload, as it was written. *)
WrittenExtent(b) ==
  IF len[b] > 0 THEN [off |-> at[b] - headerOff, len |-> len[b]] ELSE NoExtent

(* Reading back what patch() wrote finds every block exactly where it was  *)
(* put, and never fails (patch against BootImageBlocks::parse), provided   *)
(* the header kept its magic and can say what was written.  A recovery dtbo*)
(* is where the header's recovery_dtbo_offset says.  The reader can panic  *)
(* in the search for a device tree only, and only in bytes of a kernel that*)
(* the source's reader did not search: new ones, or what is left of a      *)
(* kernel when a second MTK header is stripped from it.                    *)
ReadBack ==
  stage = "reread" /\ pc = "done" /\ magic /\ HeaderSays =>
    /\ rpc # "error"
    /\ rpc = "panic" =>
         ~SameKernel \/ StripMtk(len[Kernel], img.mtkKernel) # len[Kernel]
    /\ rpc = "parsed" =>
         /\ \A b \in Blocks : got[b] = WrittenExtent(b)
         /\ got[RecoveryDtbo].len > 0 => got[RecoveryDtbo].off = dtboOff

(* A repack that replaces nothing writes as many bytes of each block as the*)
(* reader handed out, the kernel split where it was; an MTK header is what *)
(* gets lost, and where there was none no block moves: patch() is the      *)
(* inverse of the reader.  Excepted are vendor ramdisks, which are written *)
(* without the gaps between them.                                          *)
RepackStable ==
  /\ stage = "patch" /\ pc = "done" /\ req = NothingReplaced
  /\ ~src.vendor /\ got[VendorTable].len = 0
  => /\ klen = KernelLen /\ len[Kernel] = KernelBytes /\ len[Ramdisk] = RamdiskLen
     /\ \A b \in Blocks \ {Kernel, Ramdisk} : len[b] = got[b].len
     /\ ~img.mtkKernel /\ ~img.mtkRamdisk =>
          \A b \in Blocks : got[b] = WrittenExtent(b)

(* AVB metadata survive a repack: when the new payload and the metadata    *)
(* fit into the file, the reader finds them again, as long as a wrapper    *)
(* does not shift the payload.  Excepted is a vbmeta whose footer gave it  *)
(* fewer bytes than its magic has.                                         *)
AvbSurvives ==
  /\ stage = "reread" /\ pc = "done" /\ rpc = "parsed"
  /\ src.avb.has /\ src.wrapper = "none" /\ src.avb.len >= AvbMagicSize
  /\ Align(at[10], 4096) + src.avb.len + FooterSize <= src.fileLen
  => file.avb = src.avb /\ off <= footer.at

(* An image left by an interrupted patch is read as a mixture: every block *)
(* the reader returns has the size it had in the source or the size of the *)
(* block that was being written, never a third one.                        *)
InterruptedIsMixture ==
  stage = "reread" /\ pc = "failed" /\ rpc = "parsed" =>
    \A b \in Blocks : got[b].len > 0 => got[b].len \in {src.size[b], len[b] % U32}

(* "Repack boot image from current directory files" (main.rs): the output  *)
(* of cmd_repack is a boot image, that is, the reader accepts it.          *)
RepackReadable ==
  stage = "reread" /\ pc = "done" => rpc # "error"
=============================================================================
