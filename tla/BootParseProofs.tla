-------------------------- MODULE BootParseProofs ---------------------------
(***************************************************************************)
(* BootImage::parse for every file: the scan keeps its wrappers in front   *)
(* of the payload, the blocks behind it are those of BootBlocksProofs, and *)
(* the AVB metadata lie inside the payload.                                *)
(***************************************************************************)
EXTENDS BootParse, BootBlocksProofs

-----------------------------------------------------------------------------
(* The scan.                                                               *)

(* Up to limit the wrappers fs of the file d lie one behind the other.     *)
StepsOver(d, fs, limit) ==
  /\ \A m \in fs : \E p \in 0 .. (Len(d) - 1) : d[p + 1] = m /\ p + WrapLen[m] <= limit
  /\ \A m, o \in fs : m # o => WrapLen[m] + WrapLen[o] <= limit

(* The payload of a file in which no header was found: the whole file.     *)
NoHeader == payloadOff = 0 /\ (Len(data) > 0 => MarkAt(0) \notin BootMarks)

(* A header was found at curs, with or without a pre-header. *)
PlainHeader == payloadOff = curs /\ flags \cap Hooked = {}
HookHeader ==
  /\ Len(data) - curs >= HookRoom
  /\ \E m \in Hooked : flags \cap Hooked = {m} /\ payloadOff = curs + WrapLen[m]

ScanInv ==
  /\ ScanTypeOK
  /\ spc = "scan" =>
       /\ StepsOver(data, flags, curs) /\ flags \subseteq Wrapping
       /\ payloadOff = 0
       /\ curs > 0 /\ Len(data) > 0 => MarkAt(0) \notin BootMarks
  /\ spc \in {"slice", "header"} =>
       \/ NoHeader
       \/ /\ StepsOver(data, flags, payloadOff) /\ curs < Len(data)
          /\ PlainHeader \/ HookHeader

(* The values that the scan computes with. *)
LEMMA ScanValues ==
  ASSUME ScanTypeOK
  PROVE  /\ data \in Seq(Marks) /\ Len(data) \in Nat
         /\ \A p \in 0 .. (Len(data) - 1) : MarkAt(p) \in Marks
         /\ \A m \in Wrapping \cup Hooked : WrapLen[m] \in Nat \ {0}
<1>1. data \in Seq(Marks)
  BY ScanAssumption DEF ScanTypeOK
<1>2. Len(data) \in Nat /\ \A j \in 1 .. Len(data) : data[j] \in Marks
  BY <1>1
<1>3. ASSUME NEW p \in 0 .. (Len(data) - 1) PROVE MarkAt(p) \in Marks
  <2>1. p + 1 \in 1 .. Len(data)
    BY <1>2
  <2> QED
    BY <1>2, <2>1 DEF MarkAt
<1>4. \A m \in Wrapping \cup Hooked : WrapLen[m] \in Nat \ {0}
  BY ScanAssumption
<1> QED
  BY <1>1, <1>2, <1>3, <1>4

(* One wrapper more, found at position p and stepped over.                 *)
LEMMA OneMore ==
  ASSUME NEW d \in Seq(Marks), NEW fs \in SUBSET (Wrapping \cup Hooked),
         NEW p \in Nat, p < Len(d), StepsOver(d, fs, p),
         NEW m \in Wrapping \cup Hooked, d[p + 1] = m
  PROVE  StepsOver(d, fs \cup {m}, p + WrapLen[m])
<1> DEFINE limit == p + WrapLen[m]
<1>1. /\ \A o \in fs : WrapLen[o] \in Nat
      /\ WrapLen[m] \in Nat /\ limit \in Nat /\ limit >= p /\ Len(d) \in Nat
  BY ScanAssumption
<1>2. ASSUME NEW o \in fs
      PROVE  /\ \E q \in 0 .. (Len(d) - 1) : d[q + 1] = o /\ q + WrapLen[o] <= limit
             /\ WrapLen[o] <= p
  <2>1. PICK q \in 0 .. (Len(d) - 1) : d[q + 1] = o /\ q + WrapLen[o] <= p
    BY DEF StepsOver
  <2>2. q + WrapLen[o] <= limit /\ WrapLen[o] <= p
    BY <1>1, <2>1
  <2> QED
    BY <2>1, <2>2
<1>3. p \in 0 .. (Len(d) - 1) /\ p + WrapLen[m] <= limit
  BY <1>1
<1>4. \A o \in fs \cup {m} : \E q \in 0 .. (Len(d) - 1) :
        d[q + 1] = o /\ q + WrapLen[o] <= limit
  BY <1>2, <1>3
<1>5. ASSUME NEW o \in fs \cup {m}, NEW n \in fs \cup {m}, o # n
      PROVE  WrapLen[o] + WrapLen[n] <= limit
  <2>1. CASE o \in fs /\ n \in fs
    <3>1. WrapLen[o] + WrapLen[n] <= p
      BY <1>5, <2>1 DEF StepsOver
    <3>2. WrapLen[o] \in Nat /\ WrapLen[n] \in Nat
      BY <1>1, <2>1
    <3> HIDE DEF limit
    <3> QED
      BY <1>1, <3>1, <3>2
  <2>2. CASE o = m /\ n \in fs
    BY <1>1, <1>2, <2>2
  <2>3. CASE n = m /\ o \in fs
    BY <1>1, <1>2, <2>3
  <2> QED
    BY <1>5, <2>1, <2>2, <2>3
<1> QED
  BY <1>4, <1>5 DEF StepsOver

(* The wrappers stay where they are. *)
LEMMA StepsOverMore ==
  ASSUME NEW d \in Seq(Marks), NEW fs \in SUBSET (Wrapping \cup Hooked),
         NEW p \in Nat, NEW q \in Nat, p <= q, StepsOver(d, fs, p)
  PROVE  StepsOver(d, fs, q)
<1>1. \A o \in fs : WrapLen[o] \in Nat
  BY ScanAssumption
<1>2. ASSUME NEW o \in fs
      PROVE  \E r \in 0 .. (Len(d) - 1) : d[r + 1] = o /\ r + WrapLen[o] <= q
  <2>1. PICK r \in 0 .. (Len(d) - 1) : d[r + 1] = o /\ r + WrapLen[o] <= p
    BY DEF StepsOver
  <2>2. r + WrapLen[o] <= q
    BY <1>1, <2>1
  <2> QED
    BY <2>1, <2>2
<1>3. ASSUME NEW o \in fs, NEW n \in fs, o # n
      PROVE  WrapLen[o] + WrapLen[n] <= q
  <2>1. WrapLen[o] + WrapLen[n] <= p
    BY <1>3 DEF StepsOver
  <2> QED
    BY <1>1, <2>1
<1> QED
  BY <1>2, <1>3 DEF StepsOver

(* Each branch of the scan keeps ScanInv. *)
LEMMA ScanStep ==
  ASSUME ScanInv, ScanNext
  PROVE  ScanInv'
<1>t. /\ ScanTypeOK /\ spc = "scan" /\ StepsOver(data, flags, curs) /\ flags \subseteq Wrapping
      /\ payloadOff = 0 /\ curs \in Nat /\ Len(data) \in Nat
      /\ curs > 0 /\ Len(data) > 0 => MarkAt(0) \notin BootMarks
  BY ScanValues DEF ScanInv, ScanTypeOK, ScanNext, SkipWrapper, SkipByte, FindHeader,
                    FindNothing, Scanning
<1>d. data \in Seq(Marks) /\ flags \in SUBSET (Wrapping \cup Hooked)
  BY <1>t, ScanValues DEF ScanTypeOK
<1>1. CASE SkipWrapper
  <2> DEFINE m == MarkAt(curs)
  <2>1. m \in Wrapping /\ curs < Len(data)
    BY <1>1 DEF SkipWrapper, Scanning
  <2>2. /\ UNCHANGED <<data, spc, payloadOff>> /\ flags' = flags \cup {m}
        /\ curs' = curs + WrapLen[m]
    BY <1>1 DEF SkipWrapper, PastMark
  <2>3. WrapLen[m] \in Nat \ {0}
    BY <1>t, <2>1, ScanValues
  <2>4. m \in Wrapping \cup Hooked
    BY <2>1
  <2> HIDE DEF m
  <2>5. StepsOver(data, flags \cup {m}, curs + WrapLen[m])
    BY <1>t, <1>d, <2>1, <2>4, OneMore DEF m, MarkAt
  <2>6. StepsOver(data', flags', curs')
    BY <2>2, <2>5
  <2>7. curs = 0 => MarkAt(0) \notin BootMarks
    BY <2>1 DEF m, BootMarks, Wrapping, Hooked
  <2>8. Len(data') > 0 => MarkAt(0)' \notin BootMarks
    BY <1>t, <2>2, <2>7 DEF MarkAt
  <2>9. ScanTypeOK'
    BY <1>t, <2>1, <2>2, <2>3 DEF ScanTypeOK
  <2> QED
    BY <1>t, <2>1, <2>2, <2>6, <2>8, <2>9 DEF ScanInv
<1>2. CASE SkipByte
  <2>1. /\ UNCHANGED <<data, spc, payloadOff, flags>> /\ curs' = curs + 1
        /\ MarkAt(curs) = "other"
    BY <1>2 DEF SkipByte
  <2>2. curs + 1 \in Nat /\ curs <= curs + 1
    BY <1>t
  <2>3. StepsOver(data, flags, curs + 1)
    BY <1>t, <1>d, <2>2, StepsOverMore
  <2>4. StepsOver(data', flags', curs')
    BY <2>1, <2>3
  <2>5. curs = 0 => MarkAt(0) \notin BootMarks
    BY <2>1 DEF BootMarks, Hooked
  <2>6. Len(data') > 0 => MarkAt(0)' \notin BootMarks
    BY <1>t, <2>1, <2>5 DEF MarkAt
  <2>7. ScanTypeOK'
    BY <1>t, <2>1, <2>2 DEF ScanTypeOK
  <2> QED
    BY <1>t, <2>1, <2>4, <2>6, <2>7 DEF ScanInv
<1>3. CASE FindHeader
  <2> DEFINE m == MarkAt(curs)
  <2>1. /\ m \in BootMarks /\ curs < Len(data)
        /\ UNCHANGED <<data, curs>> /\ spc' = "slice"
    BY <1>3 DEF FindHeader, Scanning
  <2>2. flags \cap Hooked = {}
    BY <1>t DEF Wrapping, Hooked
  <2>3. CASE HookIn(curs)
    <3>1. /\ m \in Hooked /\ Len(data) - curs >= HookRoom
          /\ flags' = flags \cup {m} /\ payloadOff' = curs + WrapLen[m]
      BY <1>3, <2>3 DEF FindHeader, HookIn, PastMark
    <3>2. WrapLen[m] \in Nat \ {0} /\ m \in Wrapping \cup Hooked
      BY <1>t, <3>1, ScanValues
    <3> HIDE DEF m
    <3>3. StepsOver(data, flags \cup {m}, curs + WrapLen[m])
      BY <1>t, <1>d, <2>1, <3>2, OneMore DEF m, MarkAt
    <3>4. StepsOver(data', flags', payloadOff')
      BY <2>1, <3>1, <3>3
    <3>5. HookHeader'
      BY <2>1, <2>2, <3>1 DEF HookHeader
    <3>6. ScanTypeOK'
      BY <1>t, <2>1, <3>1, <3>2 DEF ScanTypeOK
    <3> QED
      BY <2>1, <3>4, <3>5, <3>6 DEF ScanInv
  <2>4. CASE ~HookIn(curs)
    <3>1. flags' = flags /\ payloadOff' = curs
      BY <1>3, <2>4 DEF FindHeader
    <3>2. StepsOver(data', flags', payloadOff')
      BY <1>t, <2>1, <3>1
    <3>3. PlainHeader'
      BY <2>1, <2>2, <3>1 DEF PlainHeader
    <3>4. ScanTypeOK'
      BY <1>t, <2>1, <3>1 DEF ScanTypeOK
    <3> QED
      BY <2>1, <3>2, <3>3, <3>4 DEF ScanInv
  <2> QED
    BY <2>3, <2>4
<1>4. CASE FindNothing
  <2>1. UNCHANGED <<data, curs, flags, payloadOff>> /\ spc' = "slice" /\ curs >= Len(data)
    BY <1>4 DEF FindNothing
  <2>2. NoHeader'
    BY <1>t, <2>1 DEF NoHeader, MarkAt
  <2>3. ScanTypeOK'
    BY <1>t, <2>1 DEF ScanTypeOK
  <2> QED
    BY <2>1, <2>2, <2>3 DEF ScanInv
<1> QED
  BY <1>1, <1>2, <1>3, <1>4 DEF ScanNext

(* So does the slice of the payload. *)
LEMMA SliceStep ==
  ASSUME ScanInv, SlicePayload
  PROVE  ScanInv'
<1>1. spc = "slice" /\ UNCHANGED <<data, curs, flags, payloadOff>>
  BY DEF SlicePayload
<1>2. spc' \in {"header", "error", "panic"} /\ (spc' = "header" => payloadOff < Len(data))
  BY DEF SlicePayload, SomePayload
<1>3. ScanTypeOK'
  BY <1>1, <1>2 DEF ScanInv, ScanTypeOK
<1>4. spc' = "header" =>
        \/ NoHeader'
        \/ /\ StepsOver(data', flags', payloadOff') /\ curs' < Len(data')
           /\ PlainHeader' \/ HookHeader'
  BY <1>1 DEF ScanInv, NoHeader, PlainHeader, HookHeader, MarkAt
<1> QED
  BY <1>2, <1>3, <1>4 DEF ScanInv

-----------------------------------------------------------------------------
(* The whole of parse().                                                   *)

Found == FooterFits /\ foot.magic

VbmetaFound ==
  /\ foot.vbOff < img.len /\ foot.vbMagic /\ foot.vbOff + foot.vbSize <= img.len
  /\ avb["vbmeta"] = [off |-> foot.vbOff, len |-> foot.vbSize]

AvbInv ==
  /\ foot \in Footer /\ avb \in [AvbParts -> Extent]
  /\ apc \in {"footer", "vbmeta", "tail", "done", "panic"}
  /\ apc # "footer" => rpc = "parsed"
  /\ apc \in {"vbmeta", "tail"} => Found
  /\ apc \in {"footer", "vbmeta"} => avb = [p \in AvbParts |-> NoExtent]
  /\ apc = "tail" => VbmetaFound
  /\ AvbFound

ParseInv ==
  /\ ScanInv /\ WalkInv /\ AvbInv
  /\ spc # "header" => ReaderStart(img)
  /\ spc = "header" => img.magic = MagicOf(MarkAt(payloadOff))
  /\ rpc \notin {"header", "error"} => img.magic # "other"

(* What the search for AVB metadata computes with are numbers. *)
LEMMA FooterValues ==
  ASSUME ParseInv
  PROVE  /\ foot.vbOff \in Nat /\ foot.vbSize \in Nat /\ foot.origSize \in Nat
         /\ foot.magic \in BOOLEAN /\ foot.vbMagic \in BOOLEAN
         /\ img.len \in Nat /\ off \in Nat
         /\ \A b \in Blocks : got[b].off \in Nat /\ got[b].len \in Nat
  BY ReaderValues DEF ParseInv, AvbInv, Footer, WalkInv

(* Nothing is read yet of any of the inputs. *)
LEMMA ParseInit == Init => ParseInv
<1> SUFFICES ASSUME Init PROVE ParseInv
  OBVIOUS
<1>1. PICK x \in Inputs :
        /\ ScanStart(x.marks) /\ ReaderStart(x.image)
        /\ foot = x.foot /\ apc = "footer"
        /\ avb = [p \in AvbParts |-> NoExtent]
  BY DEF Init
<1>2. x.marks \in ScanFiles /\ x.image \in Image /\ x.foot \in Footer
  BY InputsAssumption
<1>3. ScanTypeOK
  BY <1>1, <1>2 DEF ScanStart, ScanTypeOK
<1>4. ScanInv
  BY <1>1, <1>3 DEF ScanStart, ScanInv, StepsOver
<1>5. WalkInv /\ ReaderStart(img)
  BY <1>1, <1>2, WalkInit DEF ReaderInit, ReaderStart
<1>6. avb \in [AvbParts -> Extent]
  BY <1>1 DEF NoExtent, Extent
<1>7. AvbInv
  BY <1>1, <1>2, <1>6 DEF AvbInv, AvbFound
<1> QED
  BY <1>1, <1>4, <1>5, <1>7 DEF ParseInv, ScanStart, ReaderStart

(* The reader never reads anew what it has read. *)
LEMMA ReaderKeeps ==
  ASSUME ReaderNext
  PROVE  /\ img' = img /\ rpc # "parsed"
         /\ rpc' \notin {"header", "error"} /\ rpc = "header" => img.magic # "other"
         /\ rpc \in {"header", "error"} => rpc = "header"
  BY DEF ReaderNext, ParseHeader, SkipBlock, TakeBlock, BlockOutOfBounds,
         ParseRamdisk, SplitKernel, SliceTail

(* Before the blocks are read there is nothing to say of metadata. *)
LEMMA AvbNotBegun ==
  ASSUME AvbInv, apc = "footer", UNCHANGED <<foot, apc, avb>>
  PROVE  AvbInv'
  BY DEF AvbInv, AvbFound

(* A step of the scan leaves reader and metadata alone. *)
LEMMA ScanPart ==
  ASSUME ParseInv, Scan
  PROVE  ParseInv'
<1>1. ScanNext /\ UNCHANGED <<readerVars, foot, apc, avb>>
  BY DEF Scan
<1>2. ScanInv'
  BY <1>1, ScanStep DEF ParseInv
<1>3. WalkInv'
  BY <1>1, WalkStep DEF ParseInv
<1>4. spc = "scan" /\ spc' \in {"scan", "slice"}
  BY <1>1 DEF ScanNext, SkipWrapper, SkipByte, FindHeader, FindNothing, Scanning
<1>5. ReaderStart(img) /\ rpc = "header" /\ ReaderStart(img)' /\ rpc' = "header"
  BY <1>1, <1>4 DEF ParseInv, ReaderStart, readerVars
<1>6. AvbInv'
  BY <1>1, <1>5, AvbNotBegun DEF ParseInv, AvbInv
<1> QED
  BY <1>2, <1>3, <1>4, <1>5, <1>6 DEF ParseInv

(* The reader starts at a magic of its own, or at none. *)
LEMMA EnterPart ==
  ASSUME ParseInv, EnterPayload
  PROVE  ParseInv'
<1>1. /\ SlicePayload /\ UNCHANGED <<rpc, layout, page, off, cur, got, foot, apc, avb>>
      /\ img' = IF SomePayload
                THEN [img EXCEPT !.magic = MagicOf(MarkAt(payloadOff))] ELSE img
  BY DEF EnterPayload
<1>2. ScanInv' /\ UNCHANGED <<data, payloadOff>>
  BY <1>1, SliceStep DEF ParseInv, SlicePayload
<1>3. spc = "slice" /\ (spc' = "header" => SomePayload)
  BY <1>1 DEF SlicePayload, SomePayload
<1>4. ReaderStart(img) /\ img \in Image
  BY <1>3 DEF ParseInv, WalkInv, ReaderTypeOK
<1>5. MagicOf(MarkAt(payloadOff)) \in {"ANDROID!", "VNDRBOOT", "other"}
  BY DEF MagicOf
<1>6. img' \in Image
  BY <1>1, <1>4, <1>5 DEF Image
<1>7. ReaderStart(img)'
  BY <1>1, <1>4 DEF ReaderStart
<1>8. WalkInv'
  <2>1. ReaderInit'
    BY <1>6, <1>7 DEF ReaderInit, ReaderStart
  <2> QED
    BY <2>1, WalkInit, PTL
<1>9. AvbInv'
  BY <1>1, <1>4, AvbNotBegun DEF ParseInv, AvbInv, ReaderStart
<1>10. spc' = "header" => img'.magic = MagicOf(MarkAt(payloadOff))'
  <2>1. img \in [magic : {"ANDROID!", "VNDRBOOT", "other"}, version : Nat,
                 pageField : Nat, size : [Blocks -> Nat],
                 entrySize : Nat, table : Seq(TableEntry), len : Nat,
                 mtkKernel : BOOLEAN, mtkRamdisk : BOOLEAN, fdts : Fdts]
    BY <1>4 DEF Image
  <2>2. spc' = "header" => img'.magic = MagicOf(MarkAt(payloadOff))
    BY <1>1, <1>3, <2>1
  <2> QED
    BY <1>2, <2>2 DEF MarkAt, MagicOf
<1> QED
  BY <1>2, <1>7, <1>8, <1>9, <1>10 DEF ParseInv, ReaderStart

(* A step of the reader keeps what is known of it behind the scan. *)
LEMMA ReadPart ==
  ASSUME ParseInv, Read
  PROVE  ParseInv'
<1>1. spc = "header" /\ ReaderNext /\ UNCHANGED <<scanVars, foot, apc, avb>>
  BY DEF Read
<1>2. WalkInv'
  BY <1>1, WalkStep DEF ParseInv
<1>3. img' = img /\ rpc # "parsed"
      /\ (rpc' \notin {"header", "error"} => img'.magic # "other")
  BY <1>1, ReaderKeeps DEF ParseInv
<1>4. apc = "footer"
  BY <1>3 DEF ParseInv, AvbInv
<1>5. AvbInv'
  BY <1>1, <1>4, AvbNotBegun DEF ParseInv
<1>6. UNCHANGED <<data, spc, curs, flags, payloadOff>>
  BY <1>1 DEF scanVars
<1>7. ScanInv'
  BY <1>6 DEF ParseInv, ScanInv, ScanTypeOK, NoHeader, PlainHeader, HookHeader, MarkAt
<1> QED
  BY <1>1, <1>2, <1>3, <1>5, <1>6, <1>7 DEF ParseInv, MarkAt

(* The search for AVB metadata, once the blocks are read. *)
LEMMA AvbPart ==
  ASSUME ParseInv, FindFooter \/ FindVbmeta \/ SliceAvbTail
  PROVE  ParseInv'
<1>1. UNCHANGED <<scanVars, readerVars, foot>> /\ rpc = "parsed"
  BY DEF FindFooter, FindVbmeta, SliceAvbTail, ParseInv, AvbInv
<1>2. UNCHANGED <<data, spc, curs, flags, payloadOff>> /\ UNCHANGED <<img, rpc, layout, page, off, cur, got>>
  BY <1>1 DEF scanVars, readerVars
<1>3. ScanInv'
  BY <1>2 DEF ParseInv, ScanInv, ScanTypeOK, NoHeader, PlainHeader, HookHeader, MarkAt
<1>4. WalkInv'
  BY <1>1, WalkStep DEF ParseInv
<1>5. /\ \A b \in Blocks : got[b].len > 0 => got[b].off + got[b].len <= off
      /\ off <= img.len
  BY <1>1 DEF ParseInv, WalkInv, Behind
<1>6. NoExtent \in Extent /\ NoExtent.off = 0 /\ NoExtent.len = 0
  BY DEF NoExtent, Extent
<1>7. Describes' = Describes /\ (Found' <=> Found)
  BY <1>1, <1>2 DEF Describes, Found, FooterFits
<1>8. AvbInv'
  <2>1. CASE FindFooter
    <3>1. avb' = avb /\ avb = [p \in AvbParts |-> NoExtent] /\ apc = "footer"
          /\ apc' = IF Found THEN "vbmeta" ELSE "done"
      BY <2>1 DEF FindFooter, ParseInv, AvbInv, Found
    <3>2. Describes => Found
      BY FooterValues DEF Describes, Found, FooterFits, FooterSize
    <3>3. avb["footer"].len = 0
      BY <3>1, <1>6 DEF AvbParts
    <3>4. \A p \in AvbParts : avb[p].off + avb[p].len = 0
      BY <3>1, <1>6
    <3>5. AvbFound'
      BY <1>1, <1>2, <1>7, <3>1, <3>2, <3>3, <3>4, FooterValues DEF AvbFound
    <3> QED
      BY <1>1, <1>2, <1>7, <3>1, <3>5 DEF ParseInv, AvbInv
  <2>2. CASE FindVbmeta
    <3>1. avb = [p \in AvbParts |-> NoExtent] /\ apc = "vbmeta" /\ Found
      BY <2>2 DEF FindVbmeta, ParseInv, AvbInv
    <3>2. CASE foot.vbOff < img.len /\ foot.vbMagic /\ foot.vbOff + foot.vbSize <= img.len
      <4>1. apc' = "tail"
            /\ avb' = [avb EXCEPT !["vbmeta"] = [off |-> foot.vbOff, len |-> foot.vbSize]]
        BY <2>2, <3>2, FooterValues DEF FindVbmeta
      <4>2. [off |-> foot.vbOff, len |-> foot.vbSize] \in Extent
        BY FooterValues DEF Extent
      <4>3. avb' \in [AvbParts -> Extent]
            /\ avb'["vbmeta"] = [off |-> foot.vbOff, len |-> foot.vbSize]
        BY <4>1, <4>2 DEF ParseInv, AvbInv, AvbParts
      <4>4. VbmetaFound'
        BY <1>1, <1>2, <3>2, <4>3 DEF VbmetaFound
      <4>5. AvbFound'
        BY <4>1 DEF AvbFound
      <4> QED
        BY <1>1, <1>2, <1>7, <3>1, <4>1, <4>3, <4>4, <4>5 DEF ParseInv, AvbInv
    <3>3. CASE ~(foot.vbOff < img.len /\ foot.vbMagic /\ foot.vbOff + foot.vbSize <= img.len)
      <4>1. apc' \in {"done", "panic"} /\ avb' = avb
        BY <2>2, <3>3, FooterValues DEF FindVbmeta
      <4>2. ~Describes
        <5> SUFFICES ASSUME Describes PROVE FALSE
          OBVIOUS
        <5>1. foot.vbMagic /\ foot.vbOff + foot.vbSize <= img.len - 64
          BY DEF Describes, FooterSize
        <5> QED
          BY <3>3, <5>1, FooterValues
      <4>3. avb["footer"].len = 0 /\ \A p \in AvbParts : avb[p].off + avb[p].len = 0
        BY <3>1, <1>6 DEF AvbParts
      <4>4. AvbFound'
        BY <1>1, <1>2, <1>7, <4>1, <4>2, <4>3, FooterValues DEF AvbFound
      <4> QED
        BY <1>1, <1>2, <4>1, <4>4 DEF ParseInv, AvbInv
    <3> QED
      BY <3>2, <3>3
  <2>3. CASE SliceAvbTail
    <3>1. apc = "tail" /\ Found /\ VbmetaFound /\ avb \in [AvbParts -> Extent]
      BY <2>3 DEF SliceAvbTail, ParseInv, AvbInv
    <3>2. CASE foot.origSize > off /\ foot.origSize > img.len
      <4>1. apc' = "panic" /\ avb' = avb
        BY <2>3, <3>2 DEF SliceAvbTail
      <4>2. ~Describes
        BY <3>2, FooterValues DEF Describes, FooterSize
      <4>3. AvbFound'
        BY <1>7, <4>1, <4>2 DEF AvbFound
      <4> QED
        BY <1>1, <1>2, <4>1, <4>3 DEF ParseInv, AvbInv
    <3>3. CASE ~(foot.origSize > off /\ foot.origSize > img.len)
      <4> DEFINE F == [off |-> img.len - FooterSize, len |-> FooterSize]
                 T == [off |-> off, len |-> AvbTail]
      <4>1. apc' = "done" /\ avb' = [avb EXCEPT !["footer"] = F, !["tail"] = T]
        BY <2>3, <3>3 DEF SliceAvbTail
      <4>2. img.len - FooterSize \in Nat /\ FooterSize = 64 /\ img.len - FooterSize >= off
        BY <3>1, FooterValues DEF Found, FooterFits, FooterSize
      <4>3. AvbTail \in Nat /\ off + AvbTail <= img.len
            /\ (foot.origSize >= off => off + AvbTail = foot.origSize)
        BY <1>5, <3>3, FooterValues DEF AvbTail
      <4>4. F \in Extent /\ T \in Extent
        BY <4>2, <4>3, FooterValues DEF Extent
      <4>5. /\ avb' \in [AvbParts -> Extent]
            /\ avb'["footer"] = F /\ avb'["tail"] = T /\ avb'["vbmeta"] = avb["vbmeta"]
        BY <3>1, <4>1, <4>4 DEF AvbParts
      <4>6. \A p \in AvbParts : avb'[p].off + avb'[p].len <= img.len
        <5>1. F.off + F.len <= img.len /\ T.off + T.len <= img.len
          BY <4>2, <4>3, FooterValues
        <5>2. avb["vbmeta"].off + avb["vbmeta"].len <= img.len
          BY <3>1, FooterValues DEF VbmetaFound
        <5> QED
          BY <4>5, <5>1, <5>2 DEF AvbParts
      <4>7. \A b \in Blocks : got[b].len > 0 =>
              got[b].off + got[b].len <= avb'["footer"].off
        <5> SUFFICES ASSUME NEW b \in Blocks, got[b].len > 0
                     PROVE  got[b].off + got[b].len <= img.len - FooterSize
          BY <4>5
        <5> QED
          BY <1>5, <4>2, FooterValues
      <4>8. Describes =>
              /\ avb'["footer"].len > 0 /\ avb'["vbmeta"].len = foot.vbSize
              /\ avb'["tail"].off + avb'["tail"].len <= avb'["vbmeta"].off
              /\ avb'["vbmeta"].off + avb'["vbmeta"].len <= avb'["footer"].off
        BY <3>1, <4>2, <4>3, <4>5, FooterValues DEF VbmetaFound, Describes
      <4>9. AvbFound'
        <5>1. apc' = "done" /\ img' = img /\ got' = got /\ foot' = foot
          BY <1>1, <1>2, <4>1
        <5>2. Describes' => Describes
          BY <1>7
        <5>3. avb'["footer"].len > 0 =>
                \A b \in Blocks : got'[b].len > 0 =>
                  got'[b].off + got'[b].len <= avb'["footer"].off
          BY <4>7, <5>1
        <5>4. \A p \in AvbParts : avb'[p].off + avb'[p].len <= img'.len
          BY <4>6, <5>1
        <5> QED
          BY <4>8, <5>1, <5>2, <5>3, <5>4 DEF AvbFound
      <4>10. apc' = "done" /\ avb' \in [AvbParts -> Extent]
        BY <4>1, <4>5
      <4> QED
        BY <1>1, <1>2, <4>9, <4>10 DEF ParseInv, AvbInv
    <3> QED
      BY <3>2, <3>3
  <2> QED
    BY <2>1, <2>2, <2>3
<1> QED
  BY <1>1, <1>2, <1>3, <1>4, <1>8 DEF ParseInv, MarkAt, ReaderStart

(* Nothing changes. *)
LEMMA ParseStutter ==
  ASSUME ParseInv, UNCHANGED vars
  PROVE  ParseInv'
<1>1. /\ UNCHANGED <<data, spc, curs, flags, payloadOff>>
      /\ UNCHANGED <<img, rpc, layout, page, off, cur, got>>
      /\ UNCHANGED readerVars /\ UNCHANGED <<foot, apc, avb>>
  BY DEF vars, scanVars, readerVars
<1>2. ScanInv'
  BY <1>1 DEF ParseInv, ScanInv, ScanTypeOK, NoHeader, PlainHeader, HookHeader, MarkAt
<1>3. WalkInv'
  BY <1>1, WalkStep DEF ParseInv
<1>4. AvbInv'
  BY <1>1 DEF ParseInv, AvbInv, Found, FooterFits, VbmetaFound, AvbFound, Describes
<1> QED
  BY <1>1, <1>2, <1>3, <1>4 DEF ParseInv, MarkAt, ReaderStart

(* parse() keeps ParseInv, of every file. *)
THEOREM ParseInvariant == Spec => []ParseInv
<1>1. ParseInv /\ [Next]_vars => ParseInv'
  BY ScanPart, EnterPart, ReadPart, AvbPart, ParseStutter DEF Next
<1> QED
  BY <1>1, ParseInit, PTL DEF Spec

-----------------------------------------------------------------------------
(* The properties of the run BootParse. *)

(* The types of all of parse()'s variables. *)
THEOREM ParseTypes == Spec => []ParseTypeOK
<1>1. ParseInv => ParseTypeOK
  BY DEF ParseInv, ScanInv, WalkInv, AvbInv, ParseTypeOK
<1> QED
  BY <1>1, ParseInvariant, PTL

(* What is proved of the reader holds behind every scan: blocks in order,  *)
(* vendor ramdisks inside the ramdisk, and three reasons to panic.         *)
THEOREM ParseBlocks ==
  Spec => [](BlocksInOrder /\ EntriesInsideRamdisk /\ PanicCases)
<1>1. ParseInv => BlocksInOrder /\ EntriesInsideRamdisk /\ PanicCases
  BY WalkImplies DEF ParseInv
<1> QED
  BY <1>1, ParseInvariant, PTL

(* However wrappers follow, repeat and contain each other, those a parsed  *)
(* image is flagged with lie in front of its payload.                      *)
THEOREM ParseWrappers == Spec => []WrappersInFront
<1>1. ParseInv => WrappersInFront
  <2> SUFFICES ASSUME ParseInv, rpc = "parsed"
               PROVE  /\ payloadOff >= Rewritten
                      /\ \A m \in flags : \E p \in 0 .. (Len(data) - 1) :
                           MarkAt(p) = m /\ p + WrapLen[m] <= payloadOff
                      /\ \A m, o \in flags : m # o => WrapLen[m] + WrapLen[o] <= payloadOff
    BY DEF WrappersInFront
  <2>1. spc = "header" /\ img.magic # "other" /\ img.magic = MagicOf(MarkAt(payloadOff))
    BY DEF ParseInv, ReaderStart
  <2>2. MarkAt(payloadOff) \in BootMarks
    BY <2>1 DEF MagicOf, BootMarks
  <2>3. payloadOff < Len(data) /\ payloadOff \in Nat /\ ScanTypeOK /\ Len(data) \in Nat
    BY <2>1, ScanValues DEF ParseInv, ScanInv, ScanTypeOK
  <2>4. ~NoHeader
    BY <2>2, <2>3 DEF NoHeader
  <2>5. StepsOver(data, flags, payloadOff)
    BY <2>1, <2>4 DEF ParseInv, ScanInv
  <2>6. \A m \in flags : WrapLen[m] \in Nat
    BY <2>3, ScanValues DEF ScanTypeOK
  <2>7. \A m \in flags : WrapLen[m] <= payloadOff
    <3> SUFFICES ASSUME NEW m \in flags PROVE WrapLen[m] <= payloadOff
      OBVIOUS
    <3>1. PICK p \in 0 .. (Len(data) - 1) : p + WrapLen[m] <= payloadOff
      BY <2>5 DEF StepsOver
    <3> QED
      BY <2>3, <2>6, <3>1
  <2>8. payloadOff >= Rewritten
    BY <2>3, <2>6, <2>7 DEF Rewritten
  <2> QED
    BY <2>5, <2>8 DEF StepsOver, MarkAt
<1> QED
  BY <1>1, ParseInvariant, PTL

(* AVB metadata that are handed out lie inside the payload, and those of a *)
(* footer that describes it are always found.                              *)
THEOREM ParseFindsAvb == Spec => []AvbFound
<1>1. ParseInv => AvbFound
  BY DEF ParseInv, AvbInv
<1> QED
  BY <1>1, ParseInvariant, PTL

(* The scan panics only where a pre-header is cut off by the end of the    *)
(* file.                                                                   *)
THEOREM ParseScanPanics == Spec => ScanPanics
<1>1. ParseInv /\ [Next]_vars =>
        [spc = "slice" /\ spc' = "panic" =>
           /\ flags \cap Hooked # {}
           /\ Len(data) - curs >= HookRoom
           /\ \A m \in flags \cap Hooked : Len(data) - curs < WrapLen[m]]_scanVars
  <2> SUFFICES ASSUME ParseInv, [Next]_vars, spc = "slice", spc' = "panic"
               PROVE  /\ flags \cap Hooked # {}
                      /\ Len(data) - curs >= HookRoom
                      /\ \A m \in flags \cap Hooked : Len(data) - curs < WrapLen[m]
    OBVIOUS
  <2>1. SlicePayload
    BY DEF Next, Scan, EnterPayload, Read, FindFooter, FindVbmeta, SliceAvbTail, vars,
           scanVars, ScanNext, SkipWrapper, SkipByte, FindHeader, FindNothing, Scanning
  <2>2. payloadOff > Len(data)
    BY <2>1 DEF SlicePayload, SomePayload
  <2>3. ScanTypeOK /\ Len(data) \in Nat /\ curs \in Nat /\ payloadOff \in Nat
    BY ScanValues DEF ParseInv, ScanInv, ScanTypeOK
  <2>4. curs < Len(data) /\ HookHeader
    BY <2>2, <2>3 DEF ParseInv, ScanInv, NoHeader, PlainHeader
  <2>5. PICK m \in Hooked : flags \cap Hooked = {m} /\ payloadOff = curs + WrapLen[m]
    BY <2>4 DEF HookHeader
  <2>6. WrapLen[m] \in Nat
    BY <2>3, ScanValues
  <2> QED
    BY <2>2, <2>3, <2>4, <2>5, <2>6 DEF HookHeader
<1> QED
  BY <1>1, ParseInvariant, PTL DEF Spec, ScanPanics
=============================================================================
