----------------------------- MODULE Lz4Blocks -----------------------------
(***************************************************************************)
(* The legacy LZ4 stream (compress.rs): Lz4BlockEncoder with its Chunker   *)
(* cuts what it is fed into chunks and writes each as a compressed block,  *)
(* Lz4BlockDecoder puts the blocks together again, and check_fmt_lg        *)
(* (parser.rs) walks them to tell the format from its LG variant, which    *)
(* ends with four bytes more.                                              *)
(*                                                                         *)
(* Data are known by where they come from in the input, and the stream by  *)
(* where its blocks begin.  The encoder is fed in pieces of any size, any  *)
(* write may fail, and a file may be cut before it is decoded.             *)
(***************************************************************************)
EXTENDS Integers, Sequences, SequencesExt

CONSTANTS
  ChunkSize,  \* LZ4_BLOCK_SIZE
  Pieces,     \* the lengths of the pieces the encoder is fed
  BlockLens,  \* the lengths a compressed chunk may have
  MaxTotal    \* bound: the bytes fed to an encoder

ASSUME ChunkAssumption == ChunkSize \in Nat \ {0}
ASSUME PiecesAssumption == Pieces \subseteq Nat
ASSUME BlockLensAssumption == BlockLens \subseteq Nat \ {0}
ASSUME MaxTotalAssumption == MaxTotal \in Nat

VARIABLES
  epc,      \* the encoder
  total,    \* the bytes it was fed
  buf,      \* of these, the bytes the chunker holds
  started,  \* has the magic been written?
  blocks,   \* the blocks of the stream
  slen,     \* the length of the stream
  flen,     \* the length of the file that is read
  trailer,  \* is the file of the LG variant?
  dpc,      \* the decoder
  doff,     \* its offset
  decoded,  \* the blocks it has decompressed
  cpc,      \* the check of the format
  coff      \* its offset

encoderVars == <<epc, total, buf, started, blocks, slen>>
fileVars == <<flen, trailer>>
decoderVars == <<dpc, doff, decoded>>
checkVars == <<cpc, coff>>
vars == <<encoderVars, fileVars, decoderVars, checkVars>>

Block == [at : Nat, from : Nat, len : Nat, packed : Nat]

Lz4TypeOK ==
  /\ epc \in {"open", "flushing", "closed", "failed"}
  /\ total \in 0 .. MaxTotal
  /\ buf \in 0 .. total
  /\ started \in BOOLEAN
  /\ blocks \in Seq(Block)
  /\ slen \in Nat /\ flen \in Nat
  /\ trailer \in BOOLEAN
  /\ dpc \in {"idle", "run", "done", "cut"}
  /\ doff \in Nat
  /\ decoded \in Seq(Block)
  /\ cpc \in {"idle", "run", "LZ4_LEGACY", "LZ4_LG"}
  /\ coff \in Nat

Init ==
  /\ epc = "open" /\ total = 0 /\ buf = 0 /\ started = FALSE
  /\ blocks = <<>> /\ slen = 0
  /\ flen = 0 /\ trailer = FALSE
  /\ dpc = "idle" /\ doff = 4 /\ decoded = <<>>
  /\ cpc = "idle" /\ coff = 4

-----------------------------------------------------------------------------
(* The encoder. *)

(* The magic goes out in front of everything else. *)
Began == IF started THEN slen ELSE slen + 4

(* write: the piece is added to the chunker's buffer. *)
Feed(n) ==
  /\ epc = "open" /\ total + n <= MaxTotal
  /\ started' = TRUE
  /\ slen' = Began
  /\ total' = total + n
  /\ buf' = buf + n
  /\ epc' = IF buf' >= ChunkSize THEN "flushing" ELSE "open"
  /\ UNCHANGED <<blocks, fileVars, decoderVars, checkVars>>

(* Mutant of Rest: what is left behind a chunk is thrown away. *)
RestDropped(n) == 0

(* Mutant of Rest: the two are the wrong way round. *)
RestSwapped(n) == n - buf

Rest(n) == buf - n

(* encode_block: n bytes of the buffer become the next block. *)
Emit(n, packed) ==
  /\ blocks' = Append(blocks, [at |-> slen, from |-> total - buf, len |-> n,
                               packed |-> packed])
  /\ slen' = slen + 4 + packed
  /\ buf' = Rest(n)

(* out_chunks: one turn of its loop. *)
FlushChunk ==
  /\ epc = "flushing"
  /\ \E p \in BlockLens : Emit(ChunkSize, p)
  /\ epc' = IF buf' >= ChunkSize THEN "flushing" ELSE "open"
  /\ UNCHANGED <<total, started, fileVars, decoderVars, checkVars>>

(* finish: final_chunk, which leaves out an empty chunk. *)
Finish ==
  /\ epc = "open"
  /\ \/ /\ buf = 0
        /\ slen' = Began
        /\ UNCHANGED <<blocks, buf>>
     \/ /\ buf > 0
        /\ \E p \in BlockLens : Emit(buf, p)
  /\ epc' = "closed"
  /\ UNCHANGED <<total, started, fileVars, decoderVars, checkVars>>

(* A write of the encoder fails.  The part of a block that it leaves in    *)
(* the stream is what OpenFile's cut leaves of the block.                  *)
EncodeFails ==
  /\ epc \in {"open", "flushing"}
  /\ started
  /\ epc' = "failed"
  /\ UNCHANGED <<total, buf, started, blocks, slen, fileVars, decoderVars,
                 checkVars>>

-----------------------------------------------------------------------------
(* The file.                                                               *)

(* What was written is read again, as it is or cut short behind its magic, *)
(* with the four bytes the LG variant adds or without them.                *)
OpenFile ==
  /\ epc \in {"closed", "failed"} /\ cpc = "idle"
  /\ trailer' \in IF epc = "closed" THEN BOOLEAN ELSE {FALSE}
  /\ flen' \in 4 .. slen + (IF trailer' THEN 4 ELSE 0)
  /\ cpc' = "run"
  /\ UNCHANGED <<encoderVars, decoderVars, coff>>

BlockAt(o) == {b \in Range(blocks) : b.at = o}

(* The size read at o: a block's, or the length of the data that the LG    *)
(* variant puts behind the last block.                                     *)
SizeAt(o) == IF o = slen THEN total
             ELSE (CHOOSE b \in BlockAt(o) : TRUE).packed

SizeInFile(o) == o + 4 <= flen

(* Mutant of Complete: the block's size is forgotten. *)
Begins(o) == o + 4 <= flen

Complete(o) == o + 4 + SizeAt(o) <= flen

(* Mutant of MoreToCheck: off by one, a size that ends the file is not     *)
(* looked at.                                                              *)
MoreBehind == coff + 4 < flen

MoreToCheck == SizeInFile(coff)

(* parse_lz4_legacy_blocks: is it blocks to the end of the file? *)
CheckTooShort ==
  /\ cpc = "run" /\ flen < 8
  /\ cpc' = "LZ4_LG" /\ dpc' = "run"
  /\ UNCHANGED <<encoderVars, fileVars, coff, doff, decoded>>

CheckBlock ==
  /\ cpc = "run" /\ flen >= 8
  /\ MoreToCheck /\ Complete(coff)
  /\ coff' = coff + 4 + SizeAt(coff)
  /\ UNCHANGED <<encoderVars, fileVars, cpc, decoderVars>>

CheckEnds ==
  /\ cpc = "run" /\ flen >= 8
  /\ \/ ~MoreToCheck /\ cpc' = "LZ4_LEGACY"
     \/ MoreToCheck /\ ~Complete(coff) /\ cpc' = "LZ4_LG"
  /\ dpc' = "run"
  /\ UNCHANGED <<encoderVars, fileVars, coff, doff, decoded>>

(* Lz4BlockDecoder::new.  It takes a file of either variant. *)
DecodeBlock ==
  /\ dpc = "run"
  /\ SizeInFile(doff) /\ Complete(doff)
  /\ doff' = doff + 4 + SizeAt(doff)
  /\ \E b \in BlockAt(doff) : decoded' = Append(decoded, b)
  /\ UNCHANGED <<encoderVars, fileVars, checkVars, dpc>>

(* A size of zero is passed over. *)
DecodeEmpty ==
  /\ dpc = "run"
  /\ SizeInFile(doff) /\ SizeAt(doff) = 0
  /\ doff' = doff + 4
  /\ UNCHANGED <<encoderVars, fileVars, checkVars, dpc, decoded>>

DecodeEnds ==
  /\ dpc = "run"
  /\ \/ ~SizeInFile(doff) /\ dpc' = "done"
     \/ SizeInFile(doff) /\ ~Complete(doff) /\ dpc' = "cut"
  /\ UNCHANGED <<encoderVars, fileVars, checkVars, doff, decoded>>

ReadStep ==
  \/ CheckTooShort \/ CheckBlock \/ CheckEnds
  \/ DecodeBlock \/ DecodeEmpty \/ DecodeEnds

Next ==
  \/ \E n \in Pieces : Feed(n)
  \/ FlushChunk \/ Finish \/ EncodeFails
  \/ OpenFile
  \/ ReadStep

(* The check and the decoder are loops over a slice in memory: nothing     *)
(* keeps them from their next step.                                        *)
Spec == Init /\ [][Next]_vars /\ WF_vars(ReadStep)

-----------------------------------------------------------------------------
(* Properties. *)

End(b) == b.at + 4 + b.packed

(* Whatever the pieces it was fed in, the encoder's blocks lie one behind  *)
(* the other behind the magic, and their chunks are the data in order, all *)
(* of them full but the last, up to what the chunker still holds.          *)
BlocksTile ==
  LET n == Len(blocks) IN
  /\ \A k \in 1 .. n :
       /\ blocks[k].at = IF k = 1 THEN 4 ELSE End(blocks[k - 1])
       /\ blocks[k].from = (k - 1) * ChunkSize
       /\ k < n \/ epc # "closed" => blocks[k].len = ChunkSize
  /\ total - buf = IF n = 0 THEN 0 ELSE blocks[n].from + blocks[n].len
  /\ epc = "closed" => buf = 0

(* The encoder and the decoder together are a Stream: whatever the pieces, *)
(* the cut and the format, the decoder returns the data of exactly those   *)
(* blocks that are complete in the file, in order, and for a file that is  *)
(* not cut everything the encoder was fed.  (It says nothing of the rest:  *)
(* to its caller a cut file reads like a shorter one.)  Arrived is what of *)
(* the input is in these blocks.                                           *)
Arrived == {j \in 1 .. total : \E b \in Range(blocks) :
              End(b) <= flen /\ b.from < j /\ j <= b.from + b.len}

DataOf(bs) == FlattenSeq([k \in 1 .. Len(bs) |->
                            [j \in 1 .. bs[k].len |-> bs[k].from + j]])

Promise == INSTANCE Stream WITH
  sent <- total,
  passed <- IF cpc = "idle" THEN "no"
            ELSE IF epc = "closed" /\ flen >= slen THEN "whole" ELSE "cut",
  arrived <- Cardinality(Arrived),
  read <- DataOf(decoded),
  over <- dpc \in {"done", "cut"}

KeepsPromise == Promise!Spec

(* What the check says of a file.  One that is not cut is told from its LG *)
(* variant by the walk over its blocks, except when there are no data: then*)
(* the plain file is taken for the variant and the variant for a plain     *)
(* file.  And the check and the decoder walk the same blocks: a file taken *)
(* for LZ4_LEGACY is decoded to its end, and one taken for the LG variant  *)
(* is not, unless it is too short to hold a block.                         *)
VariantTold ==
  /\ /\ epc = "closed" /\ cpc \in {"LZ4_LEGACY", "LZ4_LG"}
     /\ flen = slen + (IF trailer THEN 4 ELSE 0)
     => (cpc = "LZ4_LG" <=> (trailer <=> total > 0))
  /\ dpc \in {"done", "cut"} => (dpc = "cut" <=> cpc = "LZ4_LG" /\ flen >= 8)
=============================================================================
