# A TLA+ model of my_Androidboot

my_Androidboot is a Rust library (`src/myboot`) and a command line tool
(`src/myboot-cli`) that read, change and write Android boot and vendor boot
images. This directory holds TLA+ modules that model them, TLC configurations
that check the models on small instances, and proofs of the most important
properties for all instances.

The program is single-threaded and keeps no state between two commands except
files. What is hard about it is not concurrency but *agreement*: a reader and a
writer that compute the same offsets independently; a command that takes up what
another left in a directory; an encoder, a decoder and a format check that walk
the same stream; and all of them after a write that failed half way.

## Inventory

| Component | State | Operations | Hard behaviour | What makes it correct |
|---|---|---|---|---|
| Header layouts (`layouts.rs`, `utils.rs`, `constants.rs`) | none; seven tables of fields | `has_*`, `hdr_space`, `align_to` | an undeclared field is offset 0, where the magic is | the fields read are those written |
| Image reader (`parser.rs`) | `BootImage`: slices of a mapped file | scan for the header, header, blocks, vendor ramdisk table, search for a device tree in the kernel, tail, AVB footer | wrappers in and behind each other; sizes a header claims; files cut short; unchecked slices | blocks disjoint, in order and inside the file; panics only where stated; the scan ends |
| Image writer (`patcher.rs`) | the output and offsets into it | `BootImagePatchOption::patch` | the header is written first and completed last; padding relative to the header; AVB metadata in a fixed place; every write can fail | chain of blocks, sizes backed by bytes, vendor ramdisks disjoint, AVB metadata intact |
| Unpack, split and repack (`main.rs`) | the current directory | `cmd_unpack`, `cmd_split`, `cmd_repack` | stale, torn and missing files; formats changed by `--no-decompress` | a complete unpack decides what a repack takes |
| Sign and verify (`main.rs`, `sign.rs`) | the image, changed in place | `cmd_sign`, `cmd_verify`, edits by the patching commands in between | a crash between two writes; the place of the signature | no torn structure is accepted; a signed file is clean |
| CPIO archives (`cpio.rs`) | a map from names to entries | `add`, `rm`, `mv`, `ls`, `exists`, `dump`, `load_from_data` | several archives in a file, cut files, names that are normalised on one side only | dump and load are inverse; the loader never hands out a wrong entry and ends |
| LZ4 legacy streams (`compress.rs`, `check_fmt_lg` of `parser.rs`) | chunker, stream offset | encode, decode, tell the LG variant | feeding in arbitrary pieces, cut streams | the chunks tile the data; encoder and decoder are a stream |
| Other codecs (`compress.rs`) | in third-party crates | `get_encoder`, `get_decoder` | | not modelled |
| Device tree patching (`dtb.rs`, `cmd_dtb_patch`) | the file, a copy in memory, two nested offsets, `modified` | `dtb_patch_verity`, `dtb_patch_initramfs` | nested walks with bounds from the file; damaged and concatenated trees; a flag shared by all properties | only tokens are walked, every tree is found, only verity parts are lost and what a damaged value lies over, a second call changes nothing |
| Hex patching (`hexpatch.rs`, `cmd_hexpatch`) | the file, a copy in memory | `hex2byte`, `hexpatch` | the data change while they are searched | the loop replaces the leftmost matches of what was read |
| Image id, digests (`sign.rs`) | none | SHA-1, SHA-256 | | not modelled |
| Printing and copying commands (`main.rs`) | none | info, list, sha1, compress, decompress | | not modelled |

How they interact:

    main.rs cmd_unpack --> parser --> files in the directory --> cmd_repack
                             ^                                       |
                             |  the next command reads               v
                             +------------------------- output <-- patcher
    main.rs cmd_sign / cmd_verify --> parser, sign.rs --> the image in place
    parser, patcher, cmd_unpack --> compress (by the format of a block)
    cmd list --> cpio (an uncompressed ramdisk)
    cmd_dtb_patch --> dtb, cmd_hexpatch --> hexpatch --> the same file again

All interaction is by call or by file; there are no callbacks but the flush
closure of the chunker, no threads and no locks. PROJECT.json lists the hazards,
each at its line.

## Modules

| Module | Models | State and actions |
|---|---|---|
| `BootLayouts` | `layouts.rs`, `BootHeader::parse`'s choice of a layout, `align_to` | operators only |
| `BootScan` | the scan at the head of `BootImage::parse` | the file as a sequence of magics, `curs`, `flags`, `payloadOff`; one action per branch of the loop |
| `BootBlocks` | `BootHeader::parse`, `BootImageBlocks::parse`, the tail slice | the header's claims and the length of the data; one action per outcome of `get_block_impl`; `SplitKernel` is the search for a device tree |
| `BootParse` | `BootImage::parse` as a whole | composes `BootScan` and `BootBlocks`: `EnterPayload` hands the magic behind the scan to the reader; then the AVB footer in the tail, one action per slice |
| `BootPatch` | `BootImagePatchOption::patch` | where each part of the output was written; one action per write or group of writes that nothing observes in between, `WriteFails` between any two |
| `RoundTrip` | reader, `cmd_repack`, writer, reader | composes `BootBlocks` and `BootPatch`: `SourceOf` is what the reader hands to the writer, `Reopen` makes an image of an output |
| `Workspace` | `cmd_unpack`, `cmd_split`, `cmd_repack`, the directory | what each file holds: whose bytes, compressed or not, whole or cut short |
| `BootSign` | `cmd_sign`, `cmd_verify`, `verify_boot_image`, what `cmd_hexpatch` and `cmd_dtb_patch` do to the file between them | the file as a sequence of cells, written one by one; `Edit` changes some anywhere and may leave a beginning of the file |
| `Cpio` | `Cpio` and its archives | the map, and the records of an archive with their offsets |
| `Stream` | what a compressed stream promises to the two at its ends | abstract: what was sent, what arrived, what was read |
| `Lz4Blocks` | `Chunker`, `Lz4BlockEncoder`, `Lz4BlockDecoder`, `check_fmt_lg` | blocks with their offsets, three walks |
| `PatchedFile` | the file of a command that patches in place | what is on disk, whether it is whole, the copy in memory; `WriteBack` |
| `DtbPatch` | `cmd_dtb_patch` and the two walks of `dtb.rs` | the trees of a file by their headers and decoded tokens, `pos`, `so`, `modified`; one action per branch of the loops |
| `HexReplace` | what `hex-patch` promises | abstract: one step replaces all matches |
| `HexPatch` | `hex2byte`, `hexpatch`, `cmd_hexpatch` | bytes, `hpos`, `offsets`; one action per branch of the loop |

`MC*` modules give the constants values. The modules named `...Proofs` hold
proofs. Operators called "Mutant of ..." are plausible
wrong versions of the definition that follows them; no specification uses them.

Two modules are abstract specifications that a detailed one implements:
`Lz4Blocks.KeepsPromise` maps the encoder's total, the cut file and the decoder's
blocks to a `Stream`, and `HexPatch.KeepsPromise` maps the loop to `HexReplace`,
which does in one step, on what was read, what the loop does in place.

Abstractions that hold everywhere:

* Bytes are replaced by what they are: a block by its extent, a file by whose
  bytes it holds, an archive by its records. Offsets and lengths stay numbers,
  since agreement on them is what the modules are about.
* An encoder produces some length out of a small set; a decoder undoes it.
* Modelled code that fails ends in an outcome of its own: an error the caller is
  given, or a panic (an unchecked slice, a division by zero).

Correspondence in detail is in PROJECT.json, "map". Some remarks:

* `BootBlocks.Image` is any header over any number of bytes. Whether a block begins
  with an MTK header and where the kernel has the magic of a device tree, with
  what behind it (`Fdt`), are inputs; what `find_dtb_in_data` makes of them is
  modelled: a header that is cut ends the search, an implausible one sends it on,
  and the slice of the first tag can panic (`TagCut`, `parser.rs:433`). The branch
  for a zImage is left out, as no format is ever recognised as `ZIMAGE`.
* A vendor ramdisk is placed by its table relative to the ramdisk behind an MTK
  header; `EntriesInsideRamdisk` is about the bytes of the file that this names.
* Casts to `u32` are remainders by the constant `U32`: those of the size fields and
  those of the offsets and sizes of vendor ramdisks.
* `RoundTrip.Reopen` reads an output under the old number of table entries, which is
  never rewritten. What the rows say is any of `Rows`, since they are serialised
  from the wrong bytes (`patcher.rs:272`); whether a block that is new, or lay behind a
  stripped header, begins with an MTK header is free; and a kernel that no
  reader has searched before may hold any of `KernelFdts`.
* `BootPatch.ParsedImage` is what the reader returns. `WellParsed` says what the
  writer relies on; `RoundTrip.ParsedIsWellFormed` checks that the reader
  establishes it, so that `BootPatch` assumes nothing the code does not provide.
* In `BootPatch`, `hdr`, `magic` and `dtboOff` are the fields of the output's
  header; they are written by `StoreSize`, one field at a time and in the order
  of the code. `flen` and `pos` differ, as `patch()` leaves holes.
* In `BootParse` the marks of the scan stand for stretches of bytes of any length,
  while the reader's offsets are bytes of the payload: what joins the two is
  whether there is a payload and which magic it begins with.
* In `DtbPatch` what the bytes at an offset of a structure decode to is an input,
  so that a walk that has left the tokens of a damaged tree finds whatever the
  instance put there; an offset at which no token is listed holds none. Values are
  split at their commas; a value of one part is never touched.
* A value is cleared and written by its length. In a damaged file its bytes may be
  those of headers, tokens, names and values, of its own tree or of others (`Hit`).
  `Store` then leaves the file as it was elsewhere and anything in `Debris` where the
  bytes are shared (`SameElsewhere`), or no change but the value's. `over` is history: the
  trees of which a value has overwritten something else; `WalksTokens` and
  `AgainChangesNothing` except them, `OnlyVerityLost` does not: it says for each token
  whether it is touched. A value that is written makes no new magic unless `Debris` has it.
* In `BootSign` a cell changed by an edit is told from all others (`Edited`): an edit
  makes no magic and does not move the end of the blocks.
* In `Workspace`, `fresh` and `edited` are history: which unpack was the last
  command to complete (but for splits of the same image), and which files the user replaced since.
  A part that is `cut` is an LZ4 stream with a block that does not decompress: its
  decoder reports the end of the data, so that the dump leaves a short file and
  succeeds (`compress.rs:258`).
* In `Cpio` the loader finds a record only at the offset its own arithmetic
  leads to. Searching the next magic behind a trailer (`SkipTrailer`) is modelled
  as one step to the next record; that data may contain a magic is left out.

## Runs and bounds

| Run | Question | Bounds |
|---|---|---|
| `BootParse` | What does `BootImage::parse` hand out, where can it panic, does it end? | every file of up to 3 of all magics, up to 5 of five of them, wrappers of 1 to 4 positions; every layout, sizes 0, 1, a page and one more, lengths on, before and behind each boundary; kernels with magics whose structure ends before, in and behind the end of the kernel; footers with each field in front of, in and behind the tail |
| `RoundTrip` | Is the output well-formed wherever `patch()` stops, and does the reader find what the writer wrote? | every layout, three wrappers and two hooks, AVB or not; replacements shorter, longer, compressed, longer than a size field; two possible rows of a new table, two possible new kernels; a failure at every write |
| `VendorRepack` (violation) | Is a repacked vendor image an image? | 4 vendor images, nothing replaced |
| `Workspace` | What does a complete unpack guarantee to a repack? | two images, three files, two vendor ramdisks of one name, a part that decodes in part, splits between |
| `Cpio` | Map operations; dump and load | six names, maps of two entries, archives of up to four records (two archives), every cut |
| `CpioKind` (violation) | Does a regular file stay one? | three names |
| `Lz4Blocks` | Are encoder and decoder a stream, and is the variant told? | chunks of 3 bytes, up to 8 bytes in pieces, every cut |
| `BootSign` | Signing again and again with crashes in between | a body of 2 cells, signatures of 3, AVB structures of 2, tails up to 7, 2 edits of up to 2 cells that leave any beginning of the file |
| `SignVerify` (violation) | Is a signed image said to be signed? | as `BootSign` |
| `DtbPatch` | What does the command do to a file, once and again? | trees with up to 9 tokens; one tree, two with gaps and odd lengths, one in another; over 25 kinds of damage, among them values that run over the next token, over names and over the next tree; offsets and the sizes of headers are real |
| `DtbVerity` (violation) | Is verity removed from a sound tree? | one tree as dtc writes it |
| `HexPatch` | Does the loop replace the leftmost matches? | every file of up to 6 bytes of two values, 12 texts as patterns |

Why these bounds are enough to be interesting: `U32` is 65536 in the runs and
stands for 2^32, so that a length that overflows a size field (70000) is in
reach. Page sizes, header sizes and wrappers in `BootBlocks` and `BootPatch` are
the real ones, as it is their remainders that matter. In the scan of `BootParse`,
in `BootSign` and in `Lz4Blocks` lengths are scaled down so that every
position and every cut is tried; nothing in that code compares them with
anything but each other. In `Cpio` `MaxEntries` bounds the map and the state
constraint of `MCCpio` bounds how many records an archive has and what is done
to the map once there is one; header, name and data lengths are real.
`BootSign.MaxTail`, `MaxEdits` and `MaxCells`, `Lz4Blocks.MaxTotal` and the two calls of
`DtbPatch` are the other bounds.

Every property of a passing run has a mutant, a wrong version of one definition
that models code, under which TLC finds the property violated.

Fairness: five specifications have some. `WF(LoadStep)` in `Cpio`, `WF(Next)` in
`BootParse` and `HexPatch`, `WF(ReadStep)` in `Lz4Blocks` (check and decoder) and
`WF(Next /\ dpc # "idle")` in `DtbPatch` each stand for one loop of one thread over
bytes in memory, which makes no call it could wait in. Nobody has to call a
command or to feed an encoder. All other specifications promise safety alone: a
command may be killed at any point.

Deadlock is not checked where a run ends by itself: a reader or a patch that has
come to its outcome, a stream decoded to its end, a file patched. `Cpio`, `Workspace` and
`BootSign` describe sequences of commands and must never be stuck.

## Findings

The violated properties are claims of the program about itself that the code
does not keep; PROJECT.json has the details.

* `patch()` stores `kernel_size` at offset 0 of a layout that has no such field,
  over the magic of a vendor boot image (`patcher.rs:316`, run `VendorRepack`).
* `load_from_data` takes regular files for symlinks (`cpio.rs:176`, run
  `CpioKind`).
* `cmd_verify` looks for a signature at the end of the file, `cmd_sign` writes it
  behind the blocks (`sign.rs:117`, run `SignVerify`).
* The walk over a device tree ends at the offset of its structure and not at its
  length, so that most of an ordinary tree is not looked at (`dtb.rs:75`, run
  `DtbVerity`).

Conditions in other properties that look odd say where the code does less than
one would expect, for example in `ReadBack`: `magic` excepts the vendor images of
the first finding, `HeaderSays` images into which `cmd_repack` has put a file whose
block their header cannot name (`main.rs:259` to 273 read such files whatever the
image, and a `second` that an older image left in the directory moves all later
blocks of a version 4 image). Others are `AvbSurvives` (no wrapper), `VariantTold`
(empty streams), `PanicCases`, `RepackStable` (an MTK header is lost), `OwnParts` (a part
whose decoder hides an error), and `TreesVisited`: a tree that does not
begin at a multiple of four is missed. An FDT_NOP in a structure ends its walk,
and parts of a value that are not UTF-8 are lost when it is rewritten.

## Proofs

All theorems hold for every value of the constants. The assumptions are those
the modules name: `U32 \in Nat \ {0}` and `EncodedLens \subseteq Nat`
(`BootPatch`), `InputsAssumption` (`BootParse`: any marks, any header over any
number of bytes, any footer), `FilesAssumption` (`RoundTrip`: the payload begins
behind its wrapper, a footer found lies in the file, size fields have their
width), `RowsAssumption` and `KernelFdtsAssumption` (rows and magics are such), `ScanAssumption` (wrappers have a length), that files and patterns of
`HexPatch` are sequences, that an image of `Workspace` is a sequence of parts with a
known file, a number above zero and a format, that names
normalise to names and are in some order (`Cpio`), that a tree's tokens begin at
natural numbers (`DtbPatch`), that a signature, AVB metadata and a
chunk are not empty and neither is a packed chunk (`BootSign`, `Lz4Blocks`).
The page size is any number: a reader's
image with page size 0 is covered by the panic, a writer's source has one that is
not 0.

* `BootBlocksProofs` begins with what all proofs about images rest on: division
  with remainder as far as it is needed, and what `Align` and `Padding` compute:
  the least multiple at or above a number, less than one page further. Then
  `ReaderTypes`, and the invariant `WalkInv` of the walk over
  the blocks, and from it all safety properties of the reader, for any
  image. `BlocksInOrder` is not inductive by itself: that the next block lies
  behind all others needs that `off` is behind every block read so far
  (`Behind`), and that no block at or behind `cur` has been read. That a panic of
  the tail slice is one of `PanicCases` needs that `off` exceeds the data by less than
  one page; that one of the search is needs that the magic at which it stops is
  plausible, and that there is no panic once the search is over.
* `BootParseProofs`: the same for the whole of `parse()`. `ParseInv` is the
  conjunction of `ScanInv`, `WalkInv` and `AvbInv`. `ScanInv` carries the wrappers
  along with the cursor (`StepsOver`): each one found lies in front of `curs`, and
  two of them together are not longer than what was stepped over, which is what a
  slice at `payloadOff` needs and `WrappersInFront` alone does not say before the
  scan has ended. `AvbInv` says where the vbmeta lies once it was found, which
  with `Behind` of the walk gives `AvbFound`. `ParseBlocks` is what
  `BootBlocksProofs` shows, behind any scan; `ParseScanPanics` is about steps.
* `BootPatchProofs`: `PatchInvariant` proves `PatchInv` for every well-parsed
  source and every request: types, that the source stays well-parsed, where the
  output is positioned at each point of `patch()` (`Position`: in the body the
  next block begins at `at[nxt]`, on a page of the payload, and everything of
  the block that is open has been written from there on), that the recorded
  entries are the source's (`EntriesKnown`), and `BlockChain`. `PatchTypes` and
  `PatchChain` follow. `BlockChain` alone says nothing of the block that is being
  written, which is what `CloseBlock` needs.
  What is in the output: `PatchSizesBacked` and the first part of `PatchTailKept` rest on `FillInv`: what has been written of the
  open block is in the output (`OpenFilled`), and as soon as any block has a byte
  so is the padding of the last one (`PaddingFilled`); hence each finished block
  is (`BlocksFilled`). The exception for images without any byte is needed because
  an empty block writes nothing and `patch()` seeks over the header's space.
  `SizesLast` says that no size is stored before all blocks are finished.
  The part about AVB metadata rests on `AvbInv`: up to the tail nothing lies
  behind the position (`NothingBehind`), so that metadata that fit make the footer
  the last thing in the output (`MetadataPlaced`).
  The vendor ramdisks: `PatchEntriesDisjoint` has an invariant of its own.
  `EntriesInv` says which entries are in place at each turn of the two loops,
  and that they are disjoint and end at or before the position. Where the
  whole ramdisk has a length of 32 bits nothing in it is cut by the casts of `PutEntry`. An entry whose
  index is asked for twice is moved behind all others by the second write
  (`PutBehind`), which leaves a hole but no overlap.
* `RoundTripProofs` is about reader and writer together, over every image and
  every request. `RoundInv` joins the invariants of both sides with what lies
  between them (`WrapperOut`: how far the header is from the start of the output;
  `Readable`: what is read is a file or an output). From the reader's half follows
  `RoundTripWellFormed`: what it hands out satisfies `WellParsed`, which the
  writer's theorems assume; so they hold in the composition without that
  assumption (`RoundTripChain`, `RoundTripSizes`, `RoundTripEntries`,
  `RoundTripTail`). `RoundTripReadBack` is the main result: a finished output is
  read without an error and each block found where it was put. Its invariant
  `BackInv` has two halves. While `patch()` writes, `HeaderInv` says what the header
  will claim: each size that was stored is the length of its block (`SizesSaid`),
  `recovery_dtbo_offset` is that of the block (`DtboSaid`), the first block begins
  behind the header (`FirstAt`). While the output is read, `InStep` says that the
  reader's offset is the writer's `at[cur]` and that every block read has the
  written extent. That a step of the reader keeps `InStep` takes `BlockChain` (the
  writer's next block is at the aligned end of this one), `BlocksFilled` (the bytes
  are there, so that no bound fails) and `SizesSaid`. A block without a byte is the
  case that needs care: writer and reader must both stay where they are.
  A panic needs its own argument: a kernel that the source's reader has searched
  (`Searched`) holds the same magics at the same places, so that the search stops
  where it did.
  `RoundTripStable` turns this round: the writer follows what was read first.
  `ChainInv` is the reader's counterpart of `BlockChain`: of two blocks with bytes
  and none with bytes between them, the later begins at the aligned end of the
  earlier. `Sourced` says that the source is what the reader has found, and `CopyInv`
  that a repack without replacements has put each block where it was, and is
  about to put the next block with bytes where that was. The two
  halves into which the reader splits a kernel have to add up again.
  `RoundTripMixture` and `RoundTripKeepsAvb` rest on `MixInv`: each size field is the
  source's or the length of the block that was written (`FieldsMixed`), what is read
  again has that header (`Reread`), and the reader of a finished output is never in
  front of the writer, also where the header could not say a size
  (`BehindWriter`), so that no block reaches into the footer. The proof of
  `AvbSurvives` showed that the reader does not see a vbmeta shorter than its magic
  (`parser.rs:612`): AVB metadata survive only if they are that long.
* `FilePatchProofs` is about the two commands that patch a file in place.
  The device trees: `DtbInv` has four parts. `ScanInv` says that of the trees that count
  those in front of `pos` have been entered or lie in one that was (`SeenUpTo`), and that a
  walk is inside a tree that `Accepts` took; `WalksTokens` and `TreesVisited` follow
  with it. A value that
  runs over other things may change them, so that what makes this inductive is said of
  what a walk relies on (`SameSoFar`): the headers up to the tree it is in, since a value lies
  behind its tree's header, and the tokens of that tree unless `over` has it. `Debris` adds
  trees only where bytes are shared.
  `DtbOnlyVerityLost` is about a step. `TokensKept`: a token apart from the value is the same in
  `Stored` and, by `SameElsewhere`, in whatever debris is left. `SoundApart`: the value of a
  sound tree is apart from all it has to be apart from. What is kept of a value, and its texts, are
  `FlattenSeq` of what its parts contribute; `Sums` says what the recursive function inside
  it is, part by part, and from that the texts of a concatenation are those of its
  halves (`TextsConcat`), `Kept` has the texts of the value and no verity part
  (`KeptFacts`), and neither the first comma nor the filling zeros cost a text
  (`RewrittenFacts`).
  `DtbAgainChangesNothing` relates two calls. A walk's way, the places it comes by,
  depends on the form of the file alone (`Onward`), and forms stay (`SameForm`) as long as `over` is
  empty, on which all of this is conditional (`UnlessOver`). `AgainInv` says of the
  first call that there is a set of places that has the place of the walk, is closed
  but for that place, and in which nothing is left to change but at that place
  (`Way`); that set grows by a place with each step (`WayGrows`). When a walk is over the set is
  closed (`NothingLeft`), the other walk leaves it so, and the second call stays
  inside it: it finds no verity part, so that `modified` stays false and no fstab is
  written again, and clears only bounds that are zero.
  Hex patching: `HexPatchedSoFar` holds for every file and every pair of
  patterns. The invariant is that of the loop, with the last match that reached a
  byte in the place of the overlay; its leaf is that a new match is the last one for
  every byte it reaches and changes nothing for the others. `HexImplementsReplace` is
  the refinement, the safety half of `KeepsPromise`. It adds `SearchInv`: what lies
  ahead of the search is as it was read (`LeftAhead`), and every occurrence behind it has
  been decided as `HexReplace` decides it, taken if it is the leftmost that no
  taken one overlaps (`Decided`). Which matches those are is said by `IsLeftmost`
  without recursion, as a set of offsets that contains just those occurrences that
  do not overlap an earlier member.
* `BootSignProofs`: `SignInv` joins three facts about the file. Of what `cmd_sign`
  writes, everything in front of its position is written, of one version
  (`WrittenUpTo`); from a vbmeta's cell to the end of that vbmeta, or of the file, it is as it was
  (`VbmetaLeft`); and so it is from a footer's cell on (`FooterLeft`); in both, but for edits. The
  last two hold because writing goes forward: what has lost a cell has lost the cells in front
  of it before, and an edit marks the cells it changes. `AvbSeenIsWhole` and `SignedFileIsClean` follow, for all lengths.
* `WorkspaceProofs`: `WorkspaceInv` says, while `cmd_unpack` is at work, that the files of the
  parts it is done with hold parts of this image (`UnpackedSoFar`), whole, unless `cut`, and packed
  as they were or not at all; and afterwards that every file of the image does, or
  is one of the user's (`Settled`). Two parts may share a file, so that the second overwrites
  what was said of the first by something of which the same can be said.
  The first attempt at `FormatKept` failed for an image that has a part numbered 0,
  the number that stands for the user's bytes: the assumption on `PartsOf` now
  excludes it.
* `FormatProofs` is about the two formats that are written and read as streams.
  Archives: `CpioInv` says how the records lie: each begins where the one before
  it ends, at a multiple of four, and only the last may be cut (`Chained`). The loader
  is in front of a record or cannot read another one (`InFrontOf`), and what it has
  loaded is gathered from the records behind it, the last of each name
  (`Gathers`). That its arithmetic leads to the next record is `EndFacts`: aligning the
  end of the name and of the data in the file gives the same as padding each of
  them in the record, since records begin at multiples of four.
  Behind a trailer the search for a magic finds the next record because there is none
  in between. `CpioLoadedIsArchive` is then that `Gathers` determines a map. For `CpioDumpLoadKeeps`
  the invariant says that the last record of a dumped name says what was dumped
  under it unless it is still to be written (`Says`), and that a complete
  archive has no record cut. `CpioRmClears` is about a step.
  Streams: `Lz4Inv` is `EncoderInv` and `ReaderInv`. `BlocksTile` is inductive once it is
  known that the chunker holds less than a chunk while it is open, and that the
  stream ends behind the last block (`BlocksInStream`). Both walks are always behind some
  of the blocks or, when there are no data, behind the trailer that says so
  (`OnBlocks`). That check and decoder agree is not in the two walks alone: the
  decoder starts when the check has stopped, so that `DecoderInv` can say that it is
  never in front of the place where the check stopped. A decoder that ends is
  therefore at that place, in front of a block that is not complete or at the
  end. `Lz4ImplementsStream` is the refinement, the
  safety half of `KeepsPromise`. The blocks in front of a place hold the first `Reach` bytes
  of the input, so that what the decoder puts together is a beginning of it
  (`DataFacts`), and what has arrived are the bytes up to the place of the cut
  (`ArrivedFacts`, `CutPlace`); `DecodesComplete` says that the decoder stops there.
  That `FlattenSeq` joins runs of numbers that follow each other (`FlattenRuns`) is an induction over data:
  the recursive function inside it is the one function that satisfies its
  equation, and a least number at which two of them differed cannot be.

Each step of a specification has a step in the proof; what `CloseBlock` and
`PutEntry` do is stated once as a lemma.

Only model-checked:

* Everything that rests on fairness: `ParseEnds`, `LoadEnds`, `CallEnds`, and the
  part of the two `KeepsPromise` that says that something is done at last.

## Not modelled

* The `os_version` override, the recomputed `id` and `header_size` fields that
  `patch()` stores: no other operation depends on their values.
* Partial effects inside one step of `BootPatch`: a write that fails leaves a
  prefix of its bytes, which the state after the step before does not tell from
  none.
* `ZImageInfo` (never set), the PXA layout (never selected), the amonet branch of
  the scan (it asks the same bytes for two magics), format detection by magic,
  the branch for a zImage (its format is never recognised), the flags for the markers behind
  the blocks (SEANDROID, LG_BUMP), which nothing reads.
* Compressed data that are damaged rather than cut, in detail: for `Workspace` a
  codec's error ends a dump like any other (`DumpFails`) or is swallowed (`cut`);
  `Lz4Blocks` decodes what its encoder wrote.
* Third-party codecs, digests, the ECDSA signature itself, memory mapping.
* Owner, group, device numbers and permission bits of archive entries.
* The commands that only print or copy.

## Plan

Done: the reader (`BootLayouts`, `BootBlocks`, `BootScan`, `BootParse`), the writer
(`BootPatch`), their composition (`RoundTrip`), the commands around them
(`Workspace`, `BootSign`), the formats (`Cpio`, `Lz4Blocks`), the two in-place
patchers (`DtbPatch`, `HexPatch`), the abstract specifications `Stream` and
`HexReplace`; proofs of all safety invariants and action properties that the runs check, and of
the implementation of `HexReplace` by `HexPatch` and of `Stream` by `Lz4Blocks`.

Left, in this order:

1. An archive as a map that `Cpio` implements by dump and load, and an image as a
   function from blocks to contents with read and replace that `RoundTrip`
   implements.
2. `id` and `header_size` in `BootPatch`, with the property that an `id` belongs to
   what was written.
