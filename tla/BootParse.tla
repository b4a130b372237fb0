----------------------------- MODULE BootParse ------------------------------
(***************************************************************************)
(* BootImage::parse (parser.rs) as a whole: the scan for the header        *)
(* (BootScan), the header and the blocks behind it (BootBlocks), and at    *)
(* last the AVB footer in what is left behind the blocks.                  *)
(*                                                                         *)
(* The marks of the scan stand for stretches of bytes of any length, the   *)
(* reader's offsets are bytes of the payload; what joins the two is where  *)
(* the payload begins and which magic is there.                            *)
(***************************************************************************)
EXTENDS BootScan, BootBlocks

CONSTANT
  Inputs      \* what is parsed: marks, payload and the end of the payload

VARIABLES
  foot,   \* what the last bytes of the payload say, read as a footer
  apc,    \* where the search for AVB metadata is
  avb     \* avb_info: the extents of footer, vbmeta and tail, 0 for None

vars == <<scanVars, readerVars, foot, apc, avb>>

FooterSize == 64

(* The last 64 bytes: is a footer's magic there, which offset, length and  *)
(* original size would the fields say, and is a vbmeta at that offset?     *)
Footer == [magic : BOOLEAN, vbOff : Nat, vbMagic : BOOLEAN, vbSize : Nat,
           origSize : Nat]

ASSUME InputsAssumption ==
  Inputs \subseteq [marks : ScanFiles, image : Image, foot : Footer]

AvbParts == {"footer", "vbmeta", "tail"}

ParseTypeOK ==
  /\ ScanTypeOK /\ ReaderTypeOK
  /\ foot \in Footer
  /\ apc \in {"footer", "vbmeta", "tail", "done", "panic"}
  /\ avb \in [AvbParts -> Extent]

Init ==
  \E x \in Inputs :
    /\ ScanStart(x.marks) /\ ReaderStart(x.image)
    /\ foot = x.foot /\ apc = "footer"
    /\ avb = [p \in AvbParts |-> NoExtent]

-----------------------------------------------------------------------------
Scan == ScanNext /\ UNCHANGED <<readerVars, foot, apc, avb>>

(* The magic that BootHeader::parse sees where a mark is. *)
MagicOf(m) == CASE m = "VNDRBOOT"                 -> "VNDRBOOT"
                [] m \in BootMarks \ {"VNDRBOOT"} -> "ANDROID!"
                [] OTHER                          -> "other"

EnterPayload ==
  /\ SlicePayload
  /\ img' = IF SomePayload
            THEN [img EXCEPT !.magic = MagicOf(MarkAt(payloadOff))] ELSE img
  /\ UNCHANGED <<rpc, layout, page, off, cur, got, foot, apc, avb>>

Read ==
  /\ spc = "header" /\ ReaderNext
  /\ UNCHANGED <<scanVars, foot, apc, avb>>

(* Mutant of FooterFits: the footer may begin in front of the tail. *)
FooterInImage == img.len >= FooterSize

FooterFits == img.len - off >= FooterSize

(* A tail that is too short for a footer, or whose end is not one.         *)
FindFooter ==
  /\ rpc = "parsed" /\ apc = "footer"
  /\ IF FooterFits /\ foot.magic
     THEN apc' = "vbmeta" ELSE apc' = "done"
  /\ UNCHANGED <<scanVars, readerVars, foot, avb>>

(* The footer's offset is only compared with the end of the payload, and   *)
(* the vbmeta must be there; its length is not compared with anything.     *)
FindVbmeta ==
  /\ apc = "vbmeta"
  /\ \/ /\ foot.vbOff < img.len /\ foot.vbMagic
        /\ foot.vbOff + foot.vbSize <= img.len
        /\ avb' = [avb EXCEPT !["vbmeta"] = [off |-> foot.vbOff, len |-> foot.vbSize]]
        /\ apc' = "tail"
     \/ /\ foot.vbOff < img.len /\ foot.vbMagic
        /\ foot.vbOff + foot.vbSize > img.len
        /\ apc' = "panic"
        /\ UNCHANGED avb
     \/ /\ ~(foot.vbOff < img.len /\ foot.vbMagic)
        /\ apc' = "done"
        /\ UNCHANGED avb
  /\ UNCHANGED <<scanVars, readerVars, foot>>

AvbTail == IF foot.origSize > off THEN foot.origSize - off ELSE 0

(* The bytes between the blocks and the original size, if there are any.   *)
SliceAvbTail ==
  /\ apc = "tail"
  /\ \/ /\ foot.origSize > off /\ foot.origSize > img.len
        /\ apc' = "panic"
        /\ UNCHANGED avb
     \/ /\ ~(foot.origSize > off /\ foot.origSize > img.len)
        /\ apc' = "done"
        /\ avb' = [avb EXCEPT
                     !["footer"] = [off |-> img.len - FooterSize, len |-> FooterSize],
                     !["tail"] = [off |-> off, len |-> AvbTail]]
  /\ UNCHANGED <<scanVars, readerVars, foot>>

Next == Scan \/ EnterPayload \/ Read \/ FindFooter \/ FindVbmeta \/ SliceAvbTail

(* parse() is one call of one thread: nothing keeps it from its next step. *)
Spec == Init /\ [][Next]_vars /\ WF_vars(Next)

-----------------------------------------------------------------------------
(* Properties. *)

(* The wrapper that patch() writes in front of the header again, see       *)
(* WriteWrapper of BootPatch.                                              *)
Rewritten ==
  IF "DHTB" \in flags THEN WrapLen["DHTB"]
  ELSE IF "BLOB" \in flags THEN WrapLen["BLOB"]
  ELSE IF "nookhd" \in flags THEN WrapLen["nookhd"]
  ELSE IF "acclaim" \in flags THEN WrapLen["acclaim"]
  ELSE 0

(* Whatever wrappers were met, in whatever order and wherever, those that a*)
(* parsed image is flagged with lie in front of its payload one behind the *)
(* other: they were all stepped over as a whole, so that the bytes patch() *)
(* copies for one are bytes of the file, and the payload does not begin    *)
(* inside them.                                                            *)
WrappersInFront ==
  rpc = "parsed" =>
    /\ payloadOff >= Rewritten
    /\ \A m \in flags : \E p \in 0 .. (Len(data) - 1) :
         MarkAt(p) = m /\ p + WrapLen[m] <= payloadOff
    /\ \A m, o \in flags : m # o => WrapLen[m] + WrapLen[o] <= payloadOff

(* The footer is the footer of this payload: the image up to its original  *)
(* size, the vbmeta and the footer itself follow one another.              *)
Describes ==
  /\ foot.magic /\ foot.vbMagic
  /\ off <= foot.origSize /\ foot.origSize <= foot.vbOff
  /\ foot.vbOff + foot.vbSize <= img.len - FooterSize

(* AVB metadata that are handed out lie inside the payload, the footer     *)
(* behind all blocks.  A footer that describes the payload never makes the *)
(* parser panic and is always found, its tail, vbmeta and itself without   *)
(* overlap of each other or of a block (BootImage::parse behind the        *)
(* blocks, whose slices are not compared with the length of the payload).  *)
AvbFound ==
  /\ apc = "panic" => ~Describes
  /\ apc = "done" =>
       /\ \A p \in AvbParts : avb[p].off + avb[p].len <= img.len
       /\ avb["footer"].len > 0 =>
            \A b \in Blocks : got[b].len > 0 =>
              got[b].off + got[b].len <= avb["footer"].off
       /\ Describes =>
            /\ avb["footer"].len > 0 /\ avb["vbmeta"].len = foot.vbSize
            /\ avb["tail"].off + avb["tail"].len <= avb["vbmeta"].off
            /\ avb["vbmeta"].off + avb["vbmeta"].len <= avb["footer"].off

(* Every file is parsed, refused or makes the parser panic, however its    *)
(* wrappers, sizes and footer contradict each other.                       *)
ParseEnds ==
  <>(spc \in {"error", "panic"} \/ rpc \in {"error", "panic"}
     \/ apc \in {"done", "panic"})
=============================================================================
