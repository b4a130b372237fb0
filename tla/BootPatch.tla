----------------------------- MODULE BootPatch ------------------------------
(***************************************************************************)
(* The writer of a boot image: BootImagePatchOption::patch (patcher.rs).   *)
(*                                                                         *)
(* patch() writes a whole new image to a seekable output: the wrapper the  *)
(* source had, its header as it was, the blocks one after the other and    *)
(* each padded to a page, the AVB metadata, and only then goes back to the *)
(* header to store the new sizes.  The output is described by where each   *)
(* part of it was written, never by its bytes; every write can fail.       *)
(***************************************************************************)
EXTENDS BootLayouts, Sequences

CONSTANTS
  EncodedLens,  \* the lengths an encoder may produce
  U32,          \* 2^32: the modulus of the header's size fields
  NONE          \* an option that is not set

ASSUME U32Assumption == U32 \in Nat \ {0}
ASSUME EncodedAssumption == EncodedLens \subseteq Nat

VARIABLES
  src,        \* self.source: the parsed image
  req,        \* the options
  pc,         \* the part of patch() that runs next
  nxt,        \* in the body: the block that is written next
  i,          \* in the loops over vendor ramdisks: the loop counter
  pos,        \* the position of the output
  flen,       \* the length of the output
  prefix,     \* the bytes of the source written in front of the header
  headerOff,  \* header_off
  at,         \* where each block begins; at[10] is payload_end
  len,        \* the bytes of each block that were written
  klen,       \* of the kernel block, the bytes in front of the kernel_dtb
  ents,       \* new_entries: the size and offset recorded for each
  tableSz,    \* vendor_ramdisk_table_sz
  hdr,        \* the size field of each block in the output's header
  dtboOff,    \* the recovery_dtbo_offset field in the output's header
  magic,      \* does the output's header still begin with its magic?
  vbmeta,     \* where the vbmeta header was written
  footer,     \* where the AVB footer was written, and what it says
  wrapSize    \* the image size stored in a DHTB or blob wrapper

patchVars == <<src, req, pc, nxt, i, pos, flen, prefix, headerOff, at, len,
               klen, ents, tableSz, hdr, dtboOff, magic, vbmeta, footer,
               wrapSize>>

-----------------------------------------------------------------------------
(* Types.                                                                  *)

Wrappers == {"none", "dhtb", "blob", "nookhd", "acclaim"}

(* The bytes patch() re-emits for a wrapper.                               *)
WrapperLen == [none |-> 0, dhtb |-> 512, blob |-> 80,
               nookhd |-> 1048576, acclaim |-> 262144]

FooterSize == 64

Replacement == [len : Nat, packed : BOOLEAN]

(* A BootImage as BootImage::parse returns it: body holds the lengths of   *)
(* its blocks (kernel and ramdisk without an MTK header, kernel without    *)
(* the kernel_dtb), size the fields of its header.                         *)
ParsedImage ==
  [layout : Layouts, page : Nat \ {0}, fileLen : Nat, payloadOff : Nat,
   wrapper : Wrappers, size : [Blocks -> 0 .. (U32 - 1)], body : [Blocks -> Nat],
   kdtb : Nat, kernelPacked : BOOLEAN, ramdiskPacked : BOOLEAN,
   vendor : BOOLEAN, entries : Seq(Replacement),
   avb : [has : BOOLEAN, len : Nat]]

(* What every image that BootImage::parse returns satisfies: a block comes *)
(* from a field of the layout, vendor ramdisks are parts of a ramdisk, the *)
(* payload begins behind the wrapper, the tail slice succeeded, and a      *)
(* footer was found inside the file.                                       *)
WellParsed(s) ==
  /\ \A b \in Blocks : s.body[b] > 0 => HasSize(s.layout, b)
  /\ s.body[Signature] =
       IF HasSize(s.layout, Signature) THEN s.size[Signature] ELSE 0
  /\ s.kdtb > 0 => s.body[Kernel] > 0
  /\ s.vendor => HasSize(s.layout, VendorTable) /\ s.body[Ramdisk] > 0
  /\ \A k \in DOMAIN s.entries : s.entries[k].len <= s.body[Ramdisk]
  /\ s.payloadOff >= WrapperLen[s.wrapper]
  /\ s.payloadOff + HdrSpace(s.layout, s.page) <= s.fileLen
  /\ s.avb.has => s.fileLen >= FooterSize

(* The replacements of the blocks, of the kernel_dtb and of the vendor     *)
(* ramdisks (by index, from 1), and the flags.                             *)
Request ==
  [replace : [Blocks -> Replacement \cup {NONE}],
   kdtb : Replacement \cup {NONE},
   vendor : Seq([idx : Nat, data : Replacement]),
   noCompress : BOOLEAN,
   cmdline : {"keep", "fits", "long"}]

PatchOutcomes == {"done", "failed", "panic"}
PatchSteps == {"idle", "wrapper", "header", "body", "replaced", "kept", "table",
               "sizes", "dtboOffset", "seal"} \cup PatchOutcomes

PatchTypeOK ==
  /\ src \in ParsedImage
  /\ req \in Request
  /\ pc \in PatchSteps
  /\ nxt \in 1 .. 10
  /\ i \in Nat \ {0}
  /\ pos \in Nat /\ flen \in Nat
  /\ prefix \in [from : Nat, len : Nat]
  /\ headerOff \in Nat
  /\ at \in [1 .. 10 -> Nat]
  /\ len \in [Blocks -> Nat]
  /\ klen \in Nat
  /\ ents \in Seq([off : Nat, len : Nat, packed : BOOLEAN])
  /\ tableSz \in 0 .. (U32 - 1)
  /\ hdr \in [Blocks -> 0 .. (U32 - 1)]
  /\ dtboOff \in Nat
  /\ magic \in BOOLEAN
  /\ vbmeta \in [at : Nat, len : Nat]
  /\ footer \in [at : Nat, vbmetaOff : Nat, origSize : Nat]
  /\ wrapSize \in Nat

-----------------------------------------------------------------------------
(* The state in which patch() is entered.                                  *)

NothingWritten ==
  /\ nxt = 1 /\ i = 1 /\ pos = 0 /\ flen = 0
  /\ prefix = [from |-> 0, len |-> 0] /\ headerOff = 0
  /\ at = [b \in 1 .. 10 |-> 0] /\ len = [b \in Blocks |-> 0]
  /\ klen = 0 /\ ents = <<>> /\ tableSz = 0
  /\ dtboOff = 0 /\ magic = TRUE
  /\ vbmeta = [at |-> 0, len |-> 0]
  /\ footer = [at |-> 0, vbmetaOff |-> 0, origSize |-> 0]
  /\ wrapSize = 0

PatchStart(s, r) ==
  /\ src = s /\ req = r /\ hdr = s.size
  /\ pc = "wrapper"
  /\ NothingWritten

bodyVars == <<at, len, klen, ents, tableSz>>
headerVars == <<hdr, dtboOff, magic>>
tailVars == <<vbmeta, footer, wrapSize>>

-----------------------------------------------------------------------------
(* Writing.                                                                *)

(* The length of the output once it holds the bytes from p to e.           *)
Extended(p, e) == IF p < e /\ flen < e THEN e ELSE flen

(* The number of bytes write_block_optional writes: the original, the      *)
(* replacement as it is, or the replacement compressed when the original   *)
(* was compressed and the replacement is not.                              *)
Written(repl, orig, origPacked) ==
  IF repl = NONE THEN {orig}
  ELSE IF ~req.noCompress /\ ~repl.packed /\ origPacked THEN EncodedLens
  ELSE {repl.len}

(* Mutant of PagePadding: counts from the start of the file. *)
FilePadding(end) == Padding(end, src.page)

(* align_block *)
PagePadding(end) == Padding(end - headerOff, src.page)

(* Ends block b, whose data reach to end, and pads it to a page, counted   *)
(* from the header.                                                        *)
CloseBlock(b, end) ==
  LET stop == end + PagePadding(end)
  IN /\ len' = [len EXCEPT ![b] = end - at[b]]
     /\ at' = [at EXCEPT ![b + 1] = stop]
     /\ pos' = stop
     /\ flen' = Extended(pos, stop)
     /\ nxt' = b + 1

-----------------------------------------------------------------------------
(* The steps of patch().                                                   *)

(* The wrapper of the source is copied.  payload_offset is already behind  *)
(* a pre-header, and slicing a whole pre-header from there may panic.      *)
WriteWrapper ==
  LET n == WrapperLen[src.wrapper]
      from == IF src.wrapper \in {"nookhd", "acclaim"} THEN src.payloadOff ELSE 0
  IN /\ pc = "wrapper"
     /\ \/ /\ from + n <= src.fileLen
           /\ prefix' = [from |-> from, len |-> n]
           /\ headerOff' = n
           /\ pos' = n
           /\ flen' = Extended(0, n)
           /\ pc' = "header"
        \/ /\ from + n > src.fileLen
           /\ pc' = "panic"
           /\ UNCHANGED <<prefix, headerOff, pos, flen>>
     /\ UNCHANGED <<src, req, nxt, i, bodyVars, headerVars, tailVars>>

(* The header is copied with the sizes it had, and a command line that     *)
(* does not fit its field ends the patch here.                             *)
WriteHeader ==
  /\ pc = "header"
  /\ flen' = Extended(pos, headerOff + TotalSize[src.layout])
  /\ \/ /\ req.cmdline = "long"
        /\ pc' = "failed"
        /\ UNCHANGED <<pos, at>>
     \/ /\ req.cmdline # "long"
        /\ pc' = "body"
        /\ pos' = headerOff + HdrSpace(src.layout, src.page)
        /\ at' = [at EXCEPT ![1] = pos']
  /\ UNCHANGED <<src, req, nxt, i, prefix, headerOff, len, klen, ents, tableSz,
                 headerVars, tailVars>>

(* The kernel with the kernel_dtb directly behind it: one block.           *)
WriteKernel ==
  /\ pc = "body" /\ nxt = Kernel
  /\ \E k \in Written(req.replace[Kernel], src.body[Kernel], src.kernelPacked) :
     LET d == IF req.kdtb = NONE THEN src.kdtb ELSE req.kdtb.len
     IN /\ klen' = k
        /\ CloseBlock(Kernel, pos + k + d)
  /\ UNCHANGED <<src, req, pc, i, prefix, headerOff, ents, tableSz,
                 headerVars, tailVars>>

(* A ramdisk that is a single archive, or absent.                          *)
WriteRamdisk ==
  /\ pc = "body" /\ nxt = Ramdisk
  /\ ~src.vendor
  /\ \E n \in Written(req.replace[Ramdisk], src.body[Ramdisk],
                      src.ramdiskPacked) :
       CloseBlock(Ramdisk, pos + n)
  /\ UNCHANGED <<src, req, pc, i, prefix, headerOff, klen, ents, tableSz,
                 headerVars, tailVars>>

(* A ramdisk made of vendor ramdisks: new_entries is a copy of the entries *)
(* with offset 0.                                                          *)
StartEntries ==
  /\ pc = "body" /\ nxt = Ramdisk
  /\ src.vendor
  /\ ents' = [k \in DOMAIN src.entries |->
                [off |-> 0, len |-> src.entries[k].len,
                 packed |-> src.entries[k].packed]]
  /\ i' = 1
  /\ pc' = "replaced"
  /\ UNCHANGED <<src, req, nxt, pos, flen, prefix, headerOff, at, len, klen,
                 tableSz, headerVars, tailVars>>

(* Mutant of EntryOffset: the position behind the entry. *)
EntryEnd(n) == (pos + n - at[Ramdisk]) % U32

EntryOffset(n) == (pos - at[Ramdisk]) % U32

(* Writes n bytes at the end of the ramdisk and records them as entry k, in*)
(* numbers that are cast to 32 bits.                                       *)
PutEntry(k, n) ==
  /\ ents' = [ents EXCEPT ![k].off = EntryOffset(n), ![k].len = n % U32]
  /\ pos' = pos + n
  /\ flen' = Extended(pos, pos + n)

(* The first loop: the replacements in the order they were asked for, an   *)
(* index without an entry being ignored.                                   *)
WriteReplacedEntry ==
  /\ pc = "replaced" /\ i <= Len(req.vendor)
  /\ LET r == req.vendor[i]
     IN \/ /\ r.idx \in DOMAIN ents
           /\ \E n \in Written(r.data, 0, ents[r.idx].packed) : PutEntry(r.idx, n)
        \/ /\ r.idx \notin DOMAIN ents
           /\ UNCHANGED <<ents, pos, flen>>
  /\ i' = i + 1
  /\ UNCHANGED <<src, req, pc, nxt, prefix, headerOff, at, len, klen, tableSz,
                 headerVars, tailVars>>

ReplacedDone ==
  /\ pc = "replaced" /\ i > Len(req.vendor)
  /\ i' = 1
  /\ pc' = "kept"
  /\ UNCHANGED <<src, req, nxt, pos, flen, prefix, headerOff, bodyVars,
                 headerVars, tailVars>>

IsReplaced(k) == \E j \in DOMAIN req.vendor : req.vendor[j].idx = k

(* The second loop: every entry that was not replaced, in order.           *)
WriteKeptEntry ==
  /\ pc = "kept" /\ i <= Len(ents)
  /\ \/ IsReplaced(i) /\ UNCHANGED <<ents, pos, flen>>
     \/ ~IsReplaced(i) /\ PutEntry(i, src.entries[i].len)
  /\ i' = i + 1
  /\ UNCHANGED <<src, req, pc, nxt, prefix, headerOff, at, len, klen, tableSz,
                 headerVars, tailVars>>

CloseRamdisk ==
  /\ pc = "kept" /\ i > Len(ents)
  /\ CloseBlock(Ramdisk, pos)
  /\ pc' = "body"
  /\ UNCHANGED <<src, req, i, prefix, headerOff, klen, ents, tableSz,
                 headerVars, tailVars>>

(* The blocks that are never compressed.                                   *)
WriteBlock ==
  /\ pc = "body" /\ nxt \in {Second, Extra, RecoveryDtbo, Dtb, Bootconfig}
  /\ \E n \in Written(req.replace[nxt], src.body[nxt], FALSE) :
       CloseBlock(nxt, pos + n)
  /\ UNCHANGED <<src, req, pc, i, prefix, headerOff, klen, ents, tableSz,
                 headerVars, tailVars>>

(* The signature is copied; nothing replaces it.                           *)
WriteSignature ==
  /\ pc = "body" /\ nxt = Signature
  /\ CloseBlock(Signature, pos + src.body[Signature])
  /\ UNCHANGED <<src, req, pc, i, prefix, headerOff, klen, ents, tableSz,
                 headerVars, tailVars>>

NoTable ==
  /\ pc = "body" /\ nxt = VendorTable
  /\ ~src.vendor
  /\ CloseBlock(VendorTable, pos)
  /\ UNCHANGED <<src, req, pc, i, prefix, headerOff, klen, ents, tableSz,
                 headerVars, tailVars>>

StartTable ==
  /\ pc = "body" /\ nxt = VendorTable
  /\ src.vendor
  /\ i' = 1
  /\ pc' = "table"
  /\ UNCHANGED <<src, req, nxt, pos, flen, prefix, headerOff, bodyVars,
                 headerVars, tailVars>>

(* VendorRamdiskTableEntryPatch::serialize is handed the data of the       *)
(* source's vendor ramdisk where a row of the table is meant, and stores   *)
(* size and offset in its first bytes: a row is as long as that ramdisk.   *)
WriteTableEntry ==
  /\ pc = "table" /\ i <= Len(ents)
  /\ \/ /\ src.entries[i].len >= 8
        /\ pos' = pos + src.entries[i].len
        /\ flen' = Extended(pos, pos')
        /\ i' = i + 1
        /\ UNCHANGED pc
     \/ /\ src.entries[i].len < 8
        /\ pc' = "panic"
        /\ UNCHANGED <<pos, flen, i>>
  /\ UNCHANGED <<src, req, nxt, prefix, headerOff, bodyVars, headerVars,
                 tailVars>>

CloseTable ==
  /\ pc = "table" /\ i > Len(ents)
  /\ CloseBlock(VendorTable, pos)
  /\ tableSz' = (Len(ents) * TableEntrySize) % U32
  /\ pc' = "body"
  /\ UNCHANGED <<src, req, i, prefix, headerOff, klen, ents, headerVars,
                 tailVars>>

(* Mutants: a footer directly behind the payload, and no zero fill.        *)
FooterBehindPayload == pos
NoFill == pos

(* footer_start, and the end of the zero fill of an image without AVB.     *)
FooterStart == src.fileLen - FooterSize
FillEnd == IF pos < src.fileLen THEN src.fileLen ELSE pos

(* Behind the payload: vbmeta on a 4096 boundary of the file and the       *)
(* footer where the source had it, or zeros up to the source's length.     *)
WriteTail ==
  /\ pc = "body" /\ nxt = 10
  /\ \/ /\ src.avb.has
        /\ LET v == Align(pos, 4096)
               e == v + src.avb.len
               f == FooterStart
           IN /\ vbmeta' = [at |-> v, len |-> src.avb.len]
              /\ footer' = [at |-> f, vbmetaOff |-> v,
                            origSize |-> pos - headerOff]
              /\ pos' = f + FooterSize
              /\ flen' = IF Extended(pos, e) < pos' THEN pos' ELSE Extended(pos, e)
     \/ /\ ~src.avb.has
        /\ pos' = FillEnd
        /\ flen' = Extended(pos, pos')
        /\ UNCHANGED <<vbmeta, footer>>
  /\ i' = 1
  /\ pc' = "sizes"
  /\ UNCHANGED <<src, req, nxt, prefix, headerOff, bodyVars, headerVars,
                 wrapSize>>

(* Mutant of StoredSize: the size with its padding. *)
PaddedSize(b) == IF b = VendorTable THEN tableSz ELSE (at[b + 1] - at[b]) % U32

StoredSize(b) == IF b = VendorTable THEN tableSz ELSE len[b] % U32

(* The size field of block i, at last.  kernel_size is stored without      *)
(* asking for the field: in a layout that does not have it the offset is 0,*)
(* where the magic is.  Nothing writes signature_size, and a table size of *)
(* zero is not stored.                                                     *)
StoreSize ==
  LET stored == /\ HasSize(src.layout, i)
                /\ i # Signature
                /\ i = VendorTable => tableSz > 0
  IN /\ pc = "sizes" /\ i \in Blocks
     /\ hdr' = IF stored THEN [hdr EXCEPT ![i] = StoredSize(i)] ELSE hdr
     /\ magic' = (magic /\ (i = Kernel => stored))
     /\ \/ i = RecoveryDtbo /\ stored /\ pc' = "dtboOffset" /\ UNCHANGED i
        \/ ~(i = RecoveryDtbo /\ stored) /\ i' = i + 1 /\ UNCHANGED pc
     /\ UNCHANGED <<src, req, nxt, pos, flen, prefix, headerOff, bodyVars,
                    dtboOff, tailVars>>

DtboOffset == at[RecoveryDtbo] - headerOff

(* recovery_dtbo_offset is stored together with recovery_dtbo_size.        *)
StoreDtboOffset ==
  /\ pc = "dtboOffset"
  /\ dtboOff' = DtboOffset
  /\ i' = i + 1
  /\ pc' = "sizes"
  /\ UNCHANGED <<src, req, nxt, pos, flen, prefix, headerOff, bodyVars, hdr,
                 magic, tailVars>>

SizesDone ==
  /\ pc = "sizes" /\ i \notin Blocks
  /\ pc' = "seal"
  /\ UNCHANGED <<src, req, nxt, i, pos, flen, prefix, headerOff, bodyVars,
                 headerVars, tailVars>>

(* The size of the image in a DHTB header (with its 20 bytes of trailer)   *)
(* or in a blob header.                                                    *)
SealWrapper ==
  /\ pc = "seal"
  /\ wrapSize' = CASE src.wrapper = "dhtb" -> (at[10] - headerOff + 20) % U32
                   [] src.wrapper = "blob" -> (at[10] - headerOff) % U32
                   [] OTHER -> 0
  /\ pc' = "done"
  /\ UNCHANGED <<src, req, nxt, i, pos, flen, prefix, headerOff, bodyVars,
                 headerVars, vbmeta, footer>>

(* Any write or seek may fail: patch() returns the error and leaves what   *)
(* it has written.                                                         *)
WriteFails ==
  /\ pc \notin {"idle"} \cup PatchOutcomes
  /\ pc' = "failed"
  /\ UNCHANGED <<src, req, nxt, i, pos, flen, prefix, headerOff, bodyVars,
                 headerVars, tailVars>>

PatchNext ==
  \/ WriteWrapper \/ WriteHeader
  \/ WriteKernel \/ WriteRamdisk
  \/ StartEntries \/ WriteReplacedEntry \/ ReplacedDone \/ WriteKeptEntry
  \/ CloseRamdisk
  \/ WriteBlock \/ WriteSignature
  \/ NoTable \/ StartTable \/ WriteTableEntry \/ CloseTable
  \/ WriteTail \/ StoreSize \/ StoreDtboOffset \/ SizesDone \/ SealWrapper
  \/ WriteFails

PatchInit ==
  \E s \in ParsedImage, r \in Request : WellParsed(s) /\ PatchStart(s, r)

PatchSpec == PatchInit /\ [][PatchNext]_patchVars

-----------------------------------------------------------------------------
(* Properties.                                                             *)

(* The blocks the output holds when patch() is at block nxt.               *)
Finished == {b \in Blocks : b < nxt}

(* Each block begins on a page of the payload and the next one on the      *)
(* first page behind it (align_padding against header_off), which is where *)
(* the reader looks for it: a wrapper in front or a block that grew never  *)
(* shifts what follows by less than a page.                                *)
BlockChain ==
  \A b \in Finished :
    /\ at[b] >= headerOff
    /\ (at[b] - headerOff) % src.page = 0
    /\ at[b + 1] = at[b] + Align(len[b], src.page)

(* Wherever patch() stops, a size in the header that is not the source's   *)
(* is the size of a block that is completely in the output: the header is  *)
(* updated behind the blocks.  The vendor ramdisk table, whose size is     *)
(* computed, is the exception.                                             *)
NewSizesBacked ==
  \A b \in Blocks \ {VendorTable} : hdr[b] # src.size[b] =>
    /\ hdr[b] = len[b] % U32
    /\ len[b] > 0 => at[b] + len[b] <= flen

(* The offsets and sizes that patch() records in new_entries, and that    *)
(* WriteTableEntry stores in the rows it writes, are those of parts of the *)
(* new ramdisk that never overlap, whatever the order, the number and the  *)
(* indices of the replacements (the two loops over new_entries), and no    *)
(* cast has cut them, as long as the header's 32 bits can say how long the *)
(* new ramdisk is.                                                         *)
EntriesDisjoint ==
  pc = "done" /\ src.vendor /\ len[Ramdisk] < U32 =>
    /\ \A k \in DOMAIN ents : ents[k].off + ents[k].len <= len[Ramdisk]
    /\ \A k, m \in DOMAIN ents : k # m =>
         \/ ents[k].off + ents[k].len <= ents[m].off
         \/ ents[m].off + ents[m].len <= ents[k].off

(* When the new payload and the AVB metadata fit into the length of the    *)
(* source, the metadata overlap neither the payload nor the footer, and    *)
(* the footer ends the output, where avbtool and the reader look for it.   *)
AvbIntact ==
  LET fits == Align(at[10], 4096) + src.avb.len + FooterSize <= src.fileLen
  IN pc = "done" /\ src.avb.has /\ fits =>
       /\ vbmeta.at >= at[10]
       /\ vbmeta.at + vbmeta.len <= footer.at
       /\ footer.vbmetaOff = vbmeta.at
       /\ footer.at + FooterSize = flen
       /\ flen = src.fileLen

(* A finished image is never shorter than its source (the zero fill and    *)
(* the place of the footer), and it holds all its blocks with their        *)
(* padding: the reader slices the tail behind the padding.  The exception  *)
(* is an image whose blocks are all empty.                                 *)
NeverShorter ==
  pc = "done" /\ (\E b \in Blocks : len[b] > 0) =>
    /\ flen >= src.fileLen
    /\ flen >= at[10]

(* The end of a finished image: never in front of the source's end or of   *)
(* the last padding, and with AVB metadata that fit where they are sought. *)
TailKept == NeverShorter /\ AvbIntact
=============================================================================
