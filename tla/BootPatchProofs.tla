-------------------------- MODULE BootPatchProofs ---------------------------
(***************************************************************************)
(* What patch() keeps for every source the reader can return and every     *)
(* request: types, the chain of pages, what is in the output, and where    *)
(* the ramdisks of a vendor image go.  The facts about aligning and about  *)
(* the layouts are those of BootBlocksProofs.                              *)
(***************************************************************************)
EXTENDS BootPatch, BootBlocksProofs

-----------------------------------------------------------------------------
(* The inductive invariant. *)

InBody == pc \in {"body", "replaced", "kept", "table"}
BehindBody == pc \in {"sizes", "dtboOffset", "seal", "done"}

(* Where patch() is tells what it is doing: the position is behind the     *)
(* start of the block at hand, which is on a page.                         *)
Position ==
  /\ InBody => /\ at[nxt] >= headerOff
               /\ (at[nxt] - headerOff) % src.page = 0
               /\ pos >= at[nxt]
  /\ pc = "body" => pos = at[nxt]
  /\ pc \in {"replaced", "kept"} => nxt = Ramdisk /\ src.vendor
  /\ pc = "table" => nxt = VendorTable /\ src.vendor
  /\ pc \in {"wrapper", "header"} => nxt = 1
  /\ BehindBody => nxt = 10

(* The new entries are as many as those of the source. *)
EntriesKnown ==
  src.vendor /\ (nxt > Ramdisk \/ pc \in {"replaced", "kept"}) =>
    Len(ents) = Len(src.entries)

PatchInv ==
  /\ PatchTypeOK
  /\ pc # "idle" => WellParsed(src)
  /\ Position
  /\ EntriesKnown
  /\ BlockChain

-----------------------------------------------------------------------------
(* Lemmas about the helpers. *)

(* The ranges of the parts of a source and of a request. *)
LEMMA SourceValues ==
  ASSUME PatchTypeOK
  PROVE  /\ src.layout \in Layouts /\ src.page \in Nat \ {0}
         /\ src.fileLen \in Nat /\ src.payloadOff \in Nat
         /\ src.wrapper \in Wrappers
         /\ src.size \in [Blocks -> 0 .. (U32 - 1)]
         /\ src.body \in [Blocks -> Nat] /\ src.kdtb \in Nat
         /\ src.entries \in Seq(Replacement)
         /\ src.avb.len \in Nat /\ src.avb.has \in BOOLEAN
         /\ src.vendor \in BOOLEAN
         /\ req.replace \in [Blocks -> Replacement \cup {NONE}]
         /\ req.kdtb \in Replacement \cup {NONE}
         /\ req.vendor \in Seq([idx : Nat, data : Replacement])
<1>1. src \in ParsedImage /\ req \in Request
  BY DEF PatchTypeOK
<1>2. src.avb \in [has : BOOLEAN, len : Nat]
  BY <1>1 DEF ParsedImage
<1> QED
  BY <1>1, <1>2 DEF ParsedImage, Request

(* write_block_optional writes a number of bytes. *)
LEMMA WrittenNat ==
  ASSUME NEW repl \in Replacement \cup {NONE}, NEW orig \in Nat, NEW packed
  PROVE  Written(repl, orig, packed) \subseteq Nat
<1>1. CASE repl = NONE
  BY <1>1 DEF Written
<1>2. CASE repl # NONE
  <2>1. repl.len \in Nat
    BY <1>2 DEF Replacement
  <2> QED
    BY <1>2, <2>1, EncodedAssumption DEF Written
<1> QED
  BY <1>1, <1>2

(* The output only grows. *)
LEMMA ExtendedFacts ==
  ASSUME PatchTypeOK, NEW p \in Nat, NEW e \in Nat
  PROVE  /\ Extended(p, e) \in Nat
         /\ Extended(p, e) >= flen
         /\ p < e => Extended(p, e) >= e
         /\ Extended(p, e) = flen \/ Extended(p, e) = e
<1>1. flen \in Nat
  BY DEF PatchTypeOK
<1> QED
  BY <1>1 DEF Extended

(* Ending a block leaves the position on the page on which its length says *)
(* the next one begins.                                                    *)
LEMMA CloseBlockFacts ==
  ASSUME PatchInv, InBody, nxt \in Blocks, NEW end \in Nat, end >= pos,
         CloseBlock(nxt, end)
  PROVE  /\ nxt' = nxt + 1 /\ nxt' \in 1 .. 10
         /\ len' \in [Blocks -> Nat] /\ at' \in [1 .. 10 -> Nat]
         /\ pos' \in Nat /\ flen' \in Nat
         /\ pos' = at'[nxt'] /\ pos' >= end
         /\ flen' = Extended(pos, pos')
         /\ len'[nxt] = end - at[nxt]
         /\ \A b \in Blocks : b # nxt => len'[b] = len[b]
         /\ \A b \in 1 .. 10 : b # nxt + 1 => at'[b] = at[b]
         /\ at'[nxt'] = at[nxt] + Align(len'[nxt], src.page)
         /\ at'[nxt'] >= headerOff
         /\ (at'[nxt'] - headerOff) % src.page = 0
<1> DEFINE stop == end + PagePadding(end)
           v == at[nxt] - headerOff
           n == end - at[nxt]
<1>1. src.page \in Nat \ {0}
  BY SourceValues DEF PatchInv
<1>2. /\ at \in [1 .. 10 -> Nat] /\ len \in [Blocks -> Nat] /\ headerOff \in Nat
      /\ pos \in Nat /\ flen \in Nat /\ nxt \in 1 .. 9
  BY DEF PatchInv, PatchTypeOK, Blocks
<1>3. v \in Nat /\ n \in Nat /\ v % src.page = 0 /\ end - headerOff = v + n
  BY <1>2 DEF PatchInv, Position
<1>4. Align(v + n, src.page) = v + Align(n, src.page)
  <2>1. v \in Nat /\ n \in Nat /\ v % src.page = 0
    BY <1>3
  <2> HIDE DEF v, n
  <2>2. \A x \in Nat : x % src.page = 0 =>
          \A y \in Nat : Align(x + y, src.page) = x + Align(y, src.page)
    BY <1>1, AlignShift, ZenonT(40)
  <2>3. \A y \in Nat : Align(v + y, src.page) = v + Align(y, src.page)
    BY <2>1, <2>2, Zenon
  <2> QED
    BY <2>1, <2>3, Zenon
<1>5. /\ Align(v + n, src.page) \in Nat /\ Align(n, src.page) \in Nat
      /\ v + n <= Align(v + n, src.page)
      /\ Align(v + n, src.page) % src.page = 0
  <2>1. v + n \in Nat
    BY <1>3
  <2> HIDE DEF v, n
  <2> QED
    BY <1>1, <1>3, <2>1, AlignFacts
<1>6. stop = end + (Align(v + n, src.page) - (v + n))
  BY <1>3 DEF PagePadding, Padding
<1>7. stop \in Nat /\ stop >= end /\ stop - headerOff = Align(v + n, src.page)
  <2> HIDE DEF stop
  <2> QED
    BY <1>2, <1>3, <1>5, <1>6
<1>8. /\ len' = [len EXCEPT ![nxt] = end - at[nxt]]
      /\ at' = [at EXCEPT ![nxt + 1] = stop]
      /\ pos' = stop /\ flen' = Extended(pos, stop) /\ nxt' = nxt + 1
  BY DEF CloseBlock
<1>9. len' \in [Blocks -> Nat] /\ at' \in [1 .. 10 -> Nat]
      /\ len'[nxt] = n /\ at'[nxt'] = stop
  <2> HIDE DEF stop
  <2> QED
    BY <1>2, <1>3, <1>7, <1>8 DEF Blocks
<1>10. \A b \in Blocks : b # nxt => len'[b] = len[b]
  BY <1>2, <1>8
<1>11. \A b \in 1 .. 10 : b # nxt + 1 => at'[b] = at[b]
  BY <1>2, <1>8
<1>12. flen' \in Nat
  <2> HIDE DEF stop
  <2> QED
    BY <1>2, <1>7, <1>8, ExtendedFacts DEF PatchInv
<1>13. stop = at[nxt] + Align(n, src.page)
  <2>1. at[nxt] \in Nat
    BY <1>2
  <2> HIDE DEF stop
  <2> QED
    BY <2>1, <1>2, <1>3, <1>4, <1>5, <1>7
<1> HIDE DEF stop, n, v
<1> QED
  BY <1>1, <1>2, <1>5, <1>7, <1>8, <1>9, <1>10, <1>11, <1>12, <1>13
     DEF n

-----------------------------------------------------------------------------
(* Every step keeps PatchInv. *)

(* The chain grows by the block that is closed. *)
LEMMA ChainGrows ==
  ASSUME PatchInv, InBody, nxt \in Blocks, NEW end \in Nat, end >= pos,
         CloseBlock(nxt, end), UNCHANGED <<src, headerOff>>
  PROVE  BlockChain'
<1> USE CloseBlockFacts
<1>1. SUFFICES ASSUME NEW b \in Blocks, b < nxt'
               PROVE  /\ at'[b] >= headerOff
                      /\ (at'[b] - headerOff) % src.page = 0
                      /\ at'[b + 1] = at'[b] + Align(len'[b], src.page)
  BY DEF BlockChain, Finished
<1>2. b \in 1 .. 10 /\ b # nxt + 1 /\ nxt \in 1 .. 9 /\ nxt' = nxt + 1
  BY <1>1 DEF Blocks
<1>3. at'[b] = at[b]
  BY <1>2
<1>4. CASE b = nxt
  <2>1. at[nxt] >= headerOff /\ (at[nxt] - headerOff) % src.page = 0
    BY DEF PatchInv, Position
  <2>2. at'[nxt'] = at[nxt] + Align(len'[nxt], src.page)
    OBVIOUS
  <2> QED
    BY <1>2, <1>3, <1>4, <2>1, <2>2
<1>5. CASE b # nxt
  <2>1. b + 1 \in 1 .. 10 /\ b + 1 # nxt + 1 /\ b < nxt
    BY <1>1, <1>2, <1>5
  <2>2. at'[b + 1] = at[b + 1] /\ len'[b] = len[b]
    BY <1>2, <1>5, <2>1
  <2>3. b \in Finished
    BY <2>1 DEF Finished
  <2> QED
    BY <1>3, <2>2, <2>3 DEF PatchInv, BlockChain
<1> QED
  BY <1>4, <1>5

(* A step that closes block nxt and changes nothing else but klen and      *)
(* tableSz.                                                                *)
LEMMA CloseStep ==
  ASSUME PatchInv, InBody, nxt \in Blocks, NEW end \in Nat, end >= pos,
         CloseBlock(nxt, end), pc' = "body",
         src.vendor /\ nxt = Ramdisk => pc = "kept",
         klen' \in Nat, tableSz' \in 0 .. (U32 - 1),
         UNCHANGED <<src, req, i, prefix, headerOff, ents, headerVars,
                     tailVars>>
  PROVE  PatchInv'
<1>1. /\ nxt' = nxt + 1 /\ nxt' \in 1 .. 10
      /\ len' \in [Blocks -> Nat] /\ at' \in [1 .. 10 -> Nat]
      /\ pos' \in Nat /\ flen' \in Nat
      /\ pos' = at'[nxt'] /\ at'[nxt'] >= headerOff
      /\ (at'[nxt'] - headerOff) % src.page = 0
  BY CloseBlockFacts
<1>2. PatchTypeOK'
  BY <1>1 DEF PatchInv, PatchTypeOK, PatchSteps, headerVars, tailVars
<1>3. BlockChain'
  BY ChainGrows
<1>4. Position'
  BY <1>1 DEF Position, InBody, BehindBody
<1>5. EntriesKnown'
  BY <1>1 DEF PatchInv, EntriesKnown, Blocks, Ramdisk, InBody, Position
<1>6. pc # "idle" /\ pc' # "idle"
  BY DEF InBody
<1> QED
  BY <1>2, <1>3, <1>4, <1>5, <1>6 DEF PatchInv, WellParsed

(* A step of the body that closes no block: it moves on and writes within  *)
(* the block at hand.                                                      *)
LEMMA WithinStep ==
  ASSUME PatchInv, InBody, pc' \in {"replaced", "kept", "table", "panic"},
         pos' \in Nat, pos' >= pos, flen' \in Nat, i' \in Nat \ {0},
         ents' \in Seq([off : Nat, len : Nat, packed : BOOLEAN]),
         src.vendor => Len(ents') = Len(src.entries),
         pc' \in {"replaced", "kept"} => nxt = Ramdisk /\ src.vendor,
         pc' = "table" => nxt = VendorTable /\ src.vendor,
         UNCHANGED <<src, req, nxt, prefix, headerOff, at, len, klen, tableSz,
                     headerVars, tailVars>>
  PROVE  PatchInv'
<1>1. PatchTypeOK'
  BY DEF PatchInv, PatchTypeOK, PatchSteps, PatchOutcomes, headerVars, tailVars
<1>2. BlockChain'
  BY DEF PatchInv, BlockChain, Finished
<1>3. Position'
  <2>1. at[nxt] \in Nat /\ pos \in Nat
    BY DEF PatchInv, PatchTypeOK
  <2> QED
    BY <2>1 DEF PatchInv, Position, InBody, BehindBody
<1>4. EntriesKnown'
  BY DEF EntriesKnown
<1>5. pc # "idle"
  BY DEF InBody
<1> QED
  BY <1>1, <1>2, <1>3, <1>4, <1>5 DEF PatchInv, WellParsed

(* A step outside the body that leaves the blocks alone. *)
LEMMA OutsideStep ==
  ASSUME PatchInv, pc # "idle", PatchTypeOK', ~InBody', pc' # "idle",
         pc' \in {"wrapper", "header"} => nxt = 1,
         BehindBody' => nxt = 10,
         headerOff' = headerOff \/ nxt = 1,
         UNCHANGED <<src, nxt, at, len, ents>>
  PROVE  PatchInv'
<1>1. BlockChain'
  <2>1. CASE nxt = 1
    BY <2>1 DEF BlockChain, Finished, Blocks
  <2>2. CASE nxt # 1
    BY <2>2 DEF PatchInv, BlockChain, Finished
  <2> QED
    BY <2>1, <2>2
<1>2. Position'
  BY DEF Position, InBody, BehindBody
<1>3. EntriesKnown'
  BY DEF PatchInv, EntriesKnown, InBody
<1> QED
  BY <1>1, <1>2, <1>3 DEF PatchInv, WellParsed

(* WriteHeader enters the body on the first page behind the header. *)
LEMMA WriteHeaderStep ==
  ASSUME PatchInv, WriteHeader
  PROVE  PatchInv'
<1>1. /\ src.page \in Nat \ {0} /\ src.layout \in Layouts /\ nxt = 1
      /\ headerOff \in Nat /\ pos \in Nat /\ at \in [1 .. 10 -> Nat]
      /\ TotalSize[src.layout] \in Nat
  BY SourceValues, LayoutFacts DEF PatchInv, PatchTypeOK, WriteHeader, Position
<1>2. flen' \in Nat
  <2>1. headerOff + TotalSize[src.layout] \in Nat
    BY <1>1
  <2> QED
    BY <1>1, <2>1, ExtendedFacts DEF WriteHeader, PatchInv
<1>3. CASE pc' = "failed"
  <2>1. PatchTypeOK'
    BY <1>2, <1>3
    DEF WriteHeader, PatchInv, PatchTypeOK, headerVars, tailVars, PatchSteps,
        PatchOutcomes
  <2> QED
    BY <1>1, <1>3, <2>1, OutsideStep
    DEF WriteHeader, InBody, BehindBody
<1>4. CASE pc' = "body"
  <2> DEFINE h == HdrSpace(src.layout, src.page)
  <2>1. h \in Nat /\ h % src.page = 0
    BY <1>1, HdrSpaceFacts
  <2>2. /\ pos' = headerOff + h /\ at' = [at EXCEPT ![1] = pos']
        /\ UNCHANGED <<src, req, nxt, i, prefix, headerOff, len, klen, ents,
                       tableSz, headerVars, tailVars>>
    BY <1>4 DEF WriteHeader
  <2>3. pos' \in Nat /\ pos' - headerOff = h /\ pos' >= headerOff
    <3> HIDE DEF h
    <3> QED BY <1>1, <2>1, <2>2
  <2>4. at' \in [1 .. 10 -> Nat] /\ at'[1] = pos'
    BY <1>1, <2>2, <2>3
  <2>5. PatchTypeOK'
    BY <1>2, <1>4, <2>2, <2>3, <2>4
    DEF PatchInv, PatchTypeOK, headerVars, tailVars, PatchSteps
  <2>6. Position'
    BY <1>1, <1>4, <2>1, <2>2, <2>3, <2>4 DEF Position, InBody, BehindBody
  <2>7. EntriesKnown' /\ BlockChain'
    BY <1>1, <1>4, <2>2 DEF EntriesKnown, BlockChain, Finished, Blocks, Ramdisk
  <2>8. WellParsed(src)
    BY DEF PatchInv, WriteHeader
  <2> HIDE DEF h
  <2> QED
    BY <2>2, <2>5, <2>6, <2>7, <2>8 DEF PatchInv, WellParsed
<1> QED
  BY <1>3, <1>4 DEF WriteHeader

(* What is written of a block is a number of bytes. *)
LEMMA WrittenBlock ==
  ASSUME PatchTypeOK, NEW b \in Blocks, NEW packed,
         NEW n \in Written(req.replace[b], src.body[b], packed)
  PROVE  n \in Nat
<1>1. req.replace[b] \in Replacement \cup {NONE} /\ src.body[b] \in Nat
  BY SourceValues
<1> QED
  BY <1>1, WrittenNat

(* A remainder fits below the modulus. *)
LEMMA RemainderFits ==
  ASSUME NEW n \in Nat, NEW a \in Nat \ {0}
  PROVE  n % a \in 0 .. (a - 1)
  BY DivFacts, SMT

(* What the steps that close a block have in common. *)
LEMMA ClosingShape ==
  ASSUME PatchInv,
         WriteKernel \/ WriteRamdisk \/ CloseRamdisk \/ WriteBlock
         \/ WriteSignature \/ NoTable \/ CloseTable
  PROVE  /\ InBody /\ nxt \in Blocks /\ pc' = "body"
         /\ src.vendor /\ nxt = Ramdisk => pc = "kept"
         /\ klen' \in Nat /\ tableSz' \in 0 .. (U32 - 1)
         /\ UNCHANGED <<src, req, i, prefix, headerOff, ents, headerVars, tailVars>>
         /\ \E end \in Nat : end >= pos /\ CloseBlock(nxt, end)
<1> USE DEF InBody
<1>0. /\ pos \in Nat /\ klen \in Nat /\ tableSz \in 0 .. (U32 - 1)
      /\ PatchTypeOK /\ src.kdtb \in Nat
  BY SourceValues DEF PatchInv, PatchTypeOK
<1>b. Kernel \in Blocks /\ Ramdisk \in Blocks /\ Signature \in Blocks
      /\ VendorTable \in Blocks /\ Kernel # Ramdisk /\ Signature # Ramdisk
      /\ VendorTable # Ramdisk
  BY DEF Blocks, Kernel, Ramdisk, Signature, VendorTable
<1>1. CASE WriteKernel
  <2>1. PICK k \in Written(req.replace[Kernel], src.body[Kernel],
                           src.kernelPacked) :
          LET d == IF req.kdtb = NONE THEN src.kdtb ELSE req.kdtb.len
          IN klen' = k /\ CloseBlock(Kernel, pos + k + d)
    BY <1>1 DEF WriteKernel
  <2> DEFINE d == IF req.kdtb = NONE THEN src.kdtb ELSE req.kdtb.len
  <2>2. k \in Nat
    BY <1>0, <1>b, WrittenBlock
  <2>3. d \in Nat
    <3>1. req.kdtb \in Replacement \cup {NONE}
      BY <1>0, SourceValues
    <3> QED
      BY <1>0, <3>1 DEF Replacement
  <2>4. pos + k + d \in Nat /\ pos + k + d >= pos
    <3> HIDE DEF d
    <3> QED BY <1>0, <2>2, <2>3
  <2>5. nxt = Kernel /\ CloseBlock(nxt, pos + k + d) /\ klen' \in Nat
    BY <1>1, <2>1, <2>2 DEF WriteKernel
  <2> HIDE DEF d
  <2> QED
    BY <1>0, <1>b, <1>1, <2>4, <2>5 DEF WriteKernel
<1>2. CASE WriteRamdisk
  <2>1. PICK n \in Written(req.replace[Ramdisk], src.body[Ramdisk],
                           src.ramdiskPacked) : CloseBlock(Ramdisk, pos + n)
    BY <1>2 DEF WriteRamdisk
  <2>2. n \in Nat
    BY <1>0, <1>b, WrittenBlock
  <2>3. pos + n \in Nat /\ pos + n >= pos
    BY <1>0, <2>2
  <2> QED
    BY <1>0, <1>b, <1>2, <2>1, <2>3 DEF WriteRamdisk
<1>3. CASE CloseRamdisk
  <2>1. nxt = Ramdisk
    BY <1>3 DEF CloseRamdisk, PatchInv, Position
  <2> QED
    BY <1>0, <1>b, <1>3, <2>1 DEF CloseRamdisk
<1>4. CASE WriteBlock
  <2>1. nxt \in Blocks /\ nxt # Ramdisk
    BY <1>4 DEF WriteBlock, Blocks, Second, Extra, RecoveryDtbo, Dtb,
                Bootconfig, Ramdisk
  <2>2. PICK n \in Written(req.replace[nxt], src.body[nxt], FALSE) :
          CloseBlock(nxt, pos + n)
    BY <1>4 DEF WriteBlock
  <2>3. n \in Nat
    BY <1>0, <2>1, WrittenBlock
  <2>4. pos + n \in Nat /\ pos + n >= pos
    BY <1>0, <2>3
  <2> QED
    BY <1>0, <1>4, <2>1, <2>2, <2>4 DEF WriteBlock
<1>5. CASE WriteSignature
  <2>1. src.body[Signature] \in Nat
    BY <1>0, <1>b, SourceValues
  <2>2. pos + src.body[Signature] \in Nat /\ pos + src.body[Signature] >= pos
    BY <1>0, <2>1
  <2> QED
    BY <1>0, <1>b, <1>5, <2>2 DEF WriteSignature
<1>6. CASE NoTable
  BY <1>0, <1>b, <1>6 DEF NoTable
<1>7. CASE CloseTable
  <2>1. nxt = VendorTable /\ src.vendor
    BY <1>7 DEF CloseTable, PatchInv, Position
  <2>2. tableSz' \in 0 .. (U32 - 1)
    <3>1. Len(ents) * TableEntrySize \in Nat
      BY DEF PatchInv, PatchTypeOK, TableEntrySize
    <3> QED
      BY <1>7, <3>1, U32Assumption, RemainderFits DEF CloseTable
  <2> QED
    BY <1>0, <1>b, <1>7, <2>1, <2>2 DEF CloseTable
<1> QED
  BY <1>1, <1>2, <1>3, <1>4, <1>5, <1>6, <1>7

(* The steps that close a block keep PatchInv. *)
LEMMA ClosingSteps ==
  ASSUME PatchInv,
         WriteKernel \/ WriteRamdisk \/ CloseRamdisk \/ WriteBlock
         \/ WriteSignature \/ NoTable \/ CloseTable
  PROVE  PatchInv'
<1>1. PICK end \in Nat : end >= pos /\ CloseBlock(nxt, end)
  BY ClosingShape
<1> QED
  BY <1>1, ClosingShape, CloseStep

(* Every element of a sequence is one of its kind. *)
LEMMA ElementType ==
  ASSUME NEW S, NEW s \in Seq(S), NEW k \in DOMAIN s
  PROVE  s[k] \in S
  OBVIOUS

(* An entry is recorded as a record of numbers, and entries keep their     *)
(* number.                                                                 *)
LEMMA PutEntryFacts ==
  ASSUME PatchTypeOK, NEW k \in DOMAIN ents, NEW n \in Nat, PutEntry(k, n),
         pos >= at[Ramdisk]
  PROVE  /\ ents' \in Seq([off : Nat, len : Nat, packed : BOOLEAN])
         /\ Len(ents') = Len(ents)
         /\ ents'[k].off = (pos - at[Ramdisk]) % U32 /\ ents'[k].len = n % U32
         /\ \A m \in DOMAIN ents : m # k => ents'[m] = ents[m]
         /\ pos' = pos + n /\ pos' \in Nat /\ pos' >= pos
         /\ flen' = Extended(pos, pos + n) /\ flen' \in Nat
<1> DEFINE E == [off : Nat, len : Nat, packed : BOOLEAN]
<1>1. /\ ents \in Seq(E) /\ pos \in Nat /\ at[Ramdisk] \in Nat
  BY DEF PatchTypeOK, Ramdisk
<1>2. /\ EntryOffset(n) \in Nat /\ EntryOffset(n) = (pos - at[Ramdisk]) % U32
      /\ n % U32 \in Nat
  <2>1. pos - at[Ramdisk] \in Nat
    BY <1>1
  <2> QED
    BY <2>1, DivFacts, U32Assumption DEF EntryOffset
<1>3. ents[k] \in E
  <2> HIDE DEF E
  <2> QED BY <1>1, ElementType
<1>4. [ents[k] EXCEPT !.off = EntryOffset(n), !.len = n % U32] \in E
  BY <1>2, <1>3
<1>5. ents' = [ents EXCEPT ![k] = [ents[k] EXCEPT !.off = EntryOffset(n), !.len = n % U32]]
  BY DEF PutEntry
<1>6. ents' \in Seq(E) /\ Len(ents') = Len(ents)
  <2> HIDE DEF E
  <2> QED BY <1>1, <1>4, <1>5
<1>7. ents'[k] = [ents[k] EXCEPT !.off = EntryOffset(n), !.len = n % U32]
  <2> HIDE DEF E
  <2> QED BY <1>1, <1>5
<1>8. \A m \in DOMAIN ents : m # k => ents'[m] = ents[m]
  <2> HIDE DEF E
  <2> QED BY <1>1, <1>5
<1>9. pos' = pos + n /\ flen' = Extended(pos, pos + n)
  BY DEF PutEntry
<1>10. ents'[k].off = (pos - at[Ramdisk]) % U32 /\ ents'[k].len = n % U32
  BY <1>2, <1>3, <1>7
<1>11. pos' \in Nat /\ pos' >= pos /\ flen' \in Nat
  BY <1>1, <1>9, ExtendedFacts
<1> HIDE DEF E
<1> QED
  BY <1>6, <1>8, <1>9, <1>10, <1>11 DEF E

(* A vendor ramdisk that is kept or replaced has a length. *)
LEMMA EntryLens ==
  ASSUME PatchTypeOK
  PROVE  /\ \A k \in DOMAIN src.entries :
              src.entries[k].len \in Nat /\ src.entries[k].packed \in BOOLEAN
         /\ \A j \in DOMAIN req.vendor :
              /\ req.vendor[j].idx \in Nat
              /\ \A packed : Written(req.vendor[j].data, 0, packed) \subseteq Nat
<1>1. ASSUME NEW k \in DOMAIN src.entries
      PROVE  src.entries[k].len \in Nat /\ src.entries[k].packed \in BOOLEAN
  <2>1. src.entries[k] \in Replacement
    BY <1>1, SourceValues, ElementType
  <2> QED
    BY <2>1 DEF Replacement
<1>2. ASSUME NEW j \in DOMAIN req.vendor
      PROVE  /\ req.vendor[j].idx \in Nat
             /\ \A packed : Written(req.vendor[j].data, 0, packed) \subseteq Nat
  <2>1. req.vendor[j] \in [idx : Nat, data : Replacement]
    <3> DEFINE R == [idx : Nat, data : Replacement]
    <3>1. req.vendor \in Seq(R)
      BY SourceValues
    <3> HIDE DEF R
    <3>2. req.vendor[j] \in R
      BY <1>2, <3>1, ElementType
    <3> QED
      BY <3>2 DEF R
  <2> QED
    BY <2>1, WrittenNat
<1> QED
  BY <1>1, <1>2

(* The steps within a block keep PatchInv. *)
LEMMA WithinSteps ==
  ASSUME PatchInv,
         StartEntries \/ WriteReplacedEntry \/ ReplacedDone \/ WriteKeptEntry
         \/ StartTable \/ WriteTableEntry
  PROVE  PatchInv'
<1> USE DEF InBody
<1>a. /\ pos \in Nat /\ flen \in Nat /\ i \in Nat \ {0} /\ PatchTypeOK
      /\ ents \in Seq([off : Nat, len : Nat, packed : BOOLEAN])
      /\ src.entries \in Seq(Replacement)
  BY SourceValues DEF PatchInv, PatchTypeOK
<1>b. /\ pc \in {"replaced", "kept"} => pos >= at[Ramdisk]
      /\ pc \in {"replaced", "kept"} =>
           nxt = Ramdisk /\ src.vendor /\ Len(ents) = Len(src.entries)
      /\ pc = "table" =>
           nxt = VendorTable /\ src.vendor /\ Len(ents) = Len(src.entries)
  BY DEF PatchInv, Position, EntriesKnown, Ramdisk, VendorTable
<1>1. CASE StartEntries
  <2>1. ents' \in Seq([off : Nat, len : Nat, packed : BOOLEAN])
        /\ Len(ents') = Len(src.entries)
    <3> DEFINE E == [off : Nat, len : Nat, packed : BOOLEAN]
               F(k) == [off |-> 0, len |-> src.entries[k].len,
                        packed |-> src.entries[k].packed]
    <3>1. \A k \in DOMAIN src.entries : F(k) \in E
      BY <1>a, EntryLens
    <3>2. ents' = [k \in DOMAIN src.entries |-> F(k)]
      BY <1>1 DEF StartEntries
    <3> HIDE DEF E, F
    <3>3. DOMAIN src.entries = 1 .. Len(src.entries)
          /\ Len(src.entries) \in Nat
      BY <1>a
    <3>4. ents' \in [1 .. Len(src.entries) -> E]
      BY <3>1, <3>2, <3>3
    <3>5. ents' \in Seq(E) /\ Len(ents') = Len(src.entries)
      BY <3>3, <3>4
    <3> QED
      BY <3>5 DEF E
  <2> QED
    BY <1>a, <1>b, <1>1, <2>1, WithinStep DEF StartEntries
<1>2. CASE WriteReplacedEntry
  <2> DEFINE r == req.vendor[i]
  <2>1. i \in DOMAIN req.vendor
    <3> DEFINE R == [idx : Nat, data : Replacement]
    <3>1. req.vendor \in Seq(R)
      BY <1>a, SourceValues
    <3> HIDE DEF R
    <3>2. i \in Nat \ {0} /\ i <= Len(req.vendor)
      BY <1>a, <1>2 DEF WriteReplacedEntry
    <3> QED
      BY <3>1, <3>2
  <2>2. CASE r.idx \in DOMAIN ents
    <3>1. PICK n \in Written(r.data, 0, ents[r.idx].packed) : PutEntry(r.idx, n)
      BY <1>2, <2>2 DEF WriteReplacedEntry
    <3>2. n \in Nat
      BY <1>a, <1>b, <2>1, EntryLens
    <3>3. /\ ents' \in Seq([off : Nat, len : Nat, packed : BOOLEAN])
          /\ Len(ents') = Len(ents)
          /\ pos' \in Nat /\ pos' >= pos /\ flen' \in Nat
      <4> HIDE DEF r
      <4> QED
        BY <1>a, <1>b, <1>2, <2>2, <3>1, <3>2, PutEntryFacts DEF WriteReplacedEntry
    <3>4. /\ InBody /\ pc = "replaced" /\ pc' = pc /\ i' \in Nat \ {0}
          /\ UNCHANGED <<src, req, nxt, prefix, headerOff, at, len, klen, tableSz,
                         headerVars, tailVars>>
      BY <1>a, <1>2 DEF WriteReplacedEntry
    <3>5. nxt = Ramdisk /\ src.vendor /\ Len(ents') = Len(src.entries)
      BY <1>b, <3>3, <3>4
    <3> QED
      BY <3>3, <3>4, <3>5, WithinStep
  <2>3. CASE r.idx \notin DOMAIN ents
    BY <1>a, <1>b, <1>2, <2>3, WithinStep DEF WriteReplacedEntry
  <2> QED
    BY <2>2, <2>3
<1>3. CASE ReplacedDone
  BY <1>a, <1>b, <1>3, WithinStep DEF ReplacedDone, bodyVars
<1>4. CASE WriteKeptEntry
  <2>1. i \in DOMAIN ents /\ i \in DOMAIN src.entries
    BY <1>a, <1>b, <1>4 DEF WriteKeptEntry
  <2>2. CASE IsReplaced(i)
    BY <1>a, <1>b, <1>4, <2>2, WithinStep DEF WriteKeptEntry
  <2>3. CASE ~IsReplaced(i)
    <3>1. PutEntry(i, src.entries[i].len) /\ src.entries[i].len \in Nat
      BY <1>a, <1>b, <1>4, <2>1, <2>3, EntryLens DEF WriteKeptEntry
    <3>2. /\ ents' \in Seq([off : Nat, len : Nat, packed : BOOLEAN])
          /\ Len(ents') = Len(ents)
          /\ pos' \in Nat /\ pos' >= pos /\ flen' \in Nat
      BY <1>a, <1>b, <1>4, <2>1, <3>1, PutEntryFacts DEF WriteKeptEntry
    <3> QED
      BY <1>a, <1>b, <1>4, <3>2, WithinStep DEF WriteKeptEntry
  <2> QED
    BY <2>2, <2>3
<1>5. CASE StartTable
  <2>1. Len(ents) = Len(src.entries)
    BY <1>5 DEF StartTable, PatchInv, EntriesKnown, VendorTable, Ramdisk
  <2> QED
    BY <1>a, <1>b, <1>5, <2>1, WithinStep DEF StartTable, bodyVars
<1>6. CASE WriteTableEntry
  <2>1. i \in DOMAIN src.entries
    BY <1>a, <1>b, <1>6 DEF WriteTableEntry
  <2>2. src.entries[i].len \in Nat
    BY <1>a, <1>b, <2>1, EntryLens
  <2>3. pos' \in Nat /\ pos' >= pos /\ i' \in Nat \ {0}
        /\ pc' \in {"table", "panic"}
    <3>1. \/ pos' = pos + src.entries[i].len /\ i' = i + 1 /\ pc' = pc
          \/ pc' = "panic" /\ pos' = pos /\ i' = i
      BY <1>6 DEF WriteTableEntry
    <3>2. pc = "table"
      BY <1>6 DEF WriteTableEntry
    <3>3. pos \in Nat /\ i \in Nat \ {0}
      BY <1>a
    <3> QED
      BY <2>2, <3>1, <3>2, <3>3
  <2>4. flen' \in Nat
    <3>1. flen' = flen \/ flen' = Extended(pos, pos')
      BY <1>6 DEF WriteTableEntry
    <3> QED
      BY <1>a, <2>3, <3>1, ExtendedFacts
  <2> QED
    BY <1>a, <1>b, <1>6, <2>3, <2>4, WithinStep DEF WriteTableEntry, bodyVars
<1> QED
  BY <1>1, <1>2, <1>3, <1>4, <1>5, <1>6

(* What patch() writes in front of the header is as long as the wrapper. *)
LEMMA WrapperLens ==
  \A w \in Wrappers : WrapperLen[w] \in Nat
  BY DEF WrapperLen, Wrappers

(* The wrapper is written at the start of the output. *)
LEMMA WrapperStep ==
  ASSUME PatchInv, WriteWrapper
  PROVE  PatchInv' /\ prefix'.len \in Nat
<1> DEFINE n == WrapperLen[src.wrapper]
           from == IF src.wrapper \in {"nookhd", "acclaim"}
                   THEN src.payloadOff ELSE 0
<1>1. n \in Nat
  <2>1. src.wrapper \in Wrappers
    BY SourceValues DEF PatchInv
  <2> QED
    BY <2>1, WrapperLens
<1>2. from \in Nat
  BY SourceValues DEF PatchInv
<1>3. prefix \in [from : Nat, len : Nat] /\ headerOff \in Nat /\ pos \in Nat
      /\ flen \in Nat
  BY DEF PatchInv, PatchTypeOK
<1>4. \/ /\ prefix' = [from |-> from, len |-> n] /\ headerOff' = n
         /\ pos' = n /\ flen' = Extended(0, n) /\ pc' = "header"
      \/ /\ pc' = "panic" /\ UNCHANGED <<prefix, headerOff, pos, flen>>
  BY DEF WriteWrapper
<1>5. /\ prefix' \in [from : Nat, len : Nat] /\ headerOff' \in Nat
      /\ pos' \in Nat /\ flen' \in Nat /\ pc' \in {"header", "panic"}
  <2>1. Extended(0, n) \in Nat
    <3> HIDE DEF n
    <3> QED BY <1>1, ExtendedFacts DEF PatchInv
  <2> HIDE DEF n, from
  <2> QED
    BY <1>1, <1>2, <1>3, <1>4, <2>1
<1>6. pc = "wrapper" /\ nxt = 1
      /\ UNCHANGED <<src, req, nxt, i, bodyVars, headerVars, tailVars>>
  BY DEF WriteWrapper, PatchInv, Position
<1>7. PatchTypeOK'
  BY <1>5, <1>6
  DEF PatchInv, PatchTypeOK, PatchSteps, PatchOutcomes, bodyVars, headerVars,
      tailVars
<1> QED
  BY <1>5, <1>6, <1>7, OutsideStep DEF InBody, BehindBody, bodyVars

(* The AVB metadata or the zero fill follow the payload. *)
LEMMA TailStep ==
  ASSUME PatchInv, WriteTail
  PROVE  PatchInv'
<1>1. /\ src.fileLen \in Nat /\ src.avb.len \in Nat /\ pos \in Nat
      /\ headerOff \in Nat /\ pos >= headerOff /\ flen \in Nat
      /\ src.avb.has => src.fileLen >= FooterSize
  <2>1. pos \in Nat /\ headerOff \in Nat /\ flen \in Nat /\ PatchTypeOK
    BY DEF PatchInv, PatchTypeOK
  <2>2. src.fileLen \in Nat /\ src.avb.len \in Nat
    BY <2>1, SourceValues
  <2>3. src.avb.has => src.fileLen >= FooterSize
    BY DEF PatchInv, WriteTail, WellParsed
  <2>4. pos = at[nxt] /\ at[nxt] >= headerOff
    BY DEF PatchInv, WriteTail, Position, InBody
  <2> QED
    BY <2>1, <2>2, <2>3, <2>4
<1>2. Align(pos, 4096) \in Nat
  BY <1>1, AlignFacts
<1>3. pos' \in Nat /\ flen' \in Nat
      /\ vbmeta' \in [at : Nat, len : Nat]
      /\ footer' \in [at : Nat, vbmetaOff : Nat, origSize : Nat]
  <2>1. CASE src.avb.has
    <3> DEFINE v == Align(pos, 4096)
               e == v + src.avb.len
               f == FooterStart
    <3>1. v \in Nat /\ e \in Nat /\ f \in Nat /\ f + FooterSize \in Nat
      BY <1>1, <1>2, <2>1 DEF FooterStart, FooterSize
    <3>2. Extended(pos, e) \in Nat
      <4>1. \A x \in Nat : Extended(pos, x) \in Nat
        BY <1>1, ExtendedFacts DEF PatchInv
      <4> HIDE DEF e
      <4> QED
        BY <3>1, <4>1
    <3>3. /\ vbmeta' = [at |-> v, len |-> src.avb.len]
          /\ footer' = [at |-> f, vbmetaOff |-> v, origSize |-> pos - headerOff]
          /\ pos' = f + FooterSize
          /\ flen' = IF Extended(pos, e) < pos' THEN pos' ELSE Extended(pos, e)
      BY <2>1 DEF WriteTail
    <3> HIDE DEF v, e, f
    <3> QED
      BY <1>1, <3>1, <3>2, <3>3
  <2>2. CASE ~src.avb.has
    <3>1. pos' = FillEnd /\ flen' = Extended(pos, pos') /\ UNCHANGED <<vbmeta, footer>>
      BY <2>2 DEF WriteTail
    <3>2. pos' \in Nat
      BY <1>1, <3>1 DEF FillEnd
    <3> QED
      BY <1>1, <3>1, <3>2, ExtendedFacts DEF PatchInv, PatchTypeOK
  <2> QED
    BY <2>1, <2>2
<1>4. pc = "body" /\ nxt = 10 /\ pc' = "sizes" /\ i' = 1
      /\ UNCHANGED <<src, req, nxt, prefix, headerOff, bodyVars, headerVars,
                     wrapSize>>
  BY DEF WriteTail
<1>5. PatchTypeOK'
  <2>1. PatchTypeOK
    BY DEF PatchInv
  <2>2. i' \in Nat \ {0} /\ pc' \in PatchSteps
    BY <1>4 DEF PatchSteps
  <2> QED
    BY <1>3, <1>4, <2>1, <2>2 DEF PatchTypeOK, bodyVars, headerVars
<1> QED
  BY <1>4, <1>5, OutsideStep DEF InBody, BehindBody, bodyVars

(* A size field holds 32 bits. *)
LEMMA StoredSizeFits ==
  ASSUME PatchTypeOK, NEW b \in Blocks
  PROVE  StoredSize(b) \in 0 .. (U32 - 1)
<1>1. len[b] \in Nat /\ tableSz \in 0 .. (U32 - 1)
  BY DEF PatchTypeOK
<1> QED
  BY <1>1, U32Assumption, RemainderFits DEF StoredSize

(* Going back to the header, and ending the patch, touches no block. *)
LEMMA HeaderSteps ==
  ASSUME PatchInv,
         StoreSize \/ StoreDtboOffset \/ SizesDone \/ SealWrapper \/ WriteFails
  PROVE  PatchInv'
<1>a. PatchTypeOK /\ Position
  BY DEF PatchInv
<1>1. CASE StoreSize
  <2>1. i \in Blocks /\ pc = "sizes" /\ nxt = 10
    BY <1>1, <1>a DEF StoreSize, Position, BehindBody
  <2>2. StoredSize(i) \in 0 .. (U32 - 1)
    BY <1>a, <2>1, StoredSizeFits
  <2>3. hdr \in [Blocks -> 0 .. (U32 - 1)] /\ magic \in BOOLEAN
    BY <1>a DEF PatchTypeOK
  <2>4. hdr' = hdr \/ hdr' = [hdr EXCEPT ![i] = StoredSize(i)]
    BY <1>1 DEF StoreSize
  <2>5. hdr' \in [Blocks -> 0 .. (U32 - 1)]
    BY <2>2, <2>3, <2>4
  <2>6. magic' \in BOOLEAN
    BY <1>1 DEF StoreSize
  <2>7. i' \in Nat \ {0} /\ pc' \in {"sizes", "dtboOffset"}
    BY <1>1, <2>1 DEF StoreSize, Blocks
  <2>8. UNCHANGED <<src, req, nxt, pos, flen, prefix, headerOff, bodyVars,
                    dtboOff, tailVars>>
    BY <1>1 DEF StoreSize
  <2>9. PatchTypeOK'
    BY <1>a, <2>5, <2>6, <2>7, <2>8
    DEF PatchTypeOK, PatchSteps, bodyVars, tailVars
  <2> QED
    BY <2>1, <2>7, <2>8, <2>9, OutsideStep DEF InBody, BehindBody, bodyVars
<1>2. CASE StoreDtboOffset
  <2>1. nxt = 10 /\ pc = "dtboOffset"
    BY <1>2, <1>a DEF StoreDtboOffset, Position, BehindBody
  <2>2. DtboOffset \in Nat
    <3>1. RecoveryDtbo \in Finished /\ at \in [1 .. 10 -> Nat] /\ headerOff \in Nat
      BY <1>a, <2>1 DEF Finished, Blocks, RecoveryDtbo, PatchTypeOK
    <3>2. at[RecoveryDtbo] >= headerOff
      BY <3>1 DEF PatchInv, BlockChain
    <3> QED
      BY <3>1, <3>2 DEF DtboOffset, RecoveryDtbo
  <2>3. /\ dtboOff' = DtboOffset /\ i' = i + 1 /\ pc' = "sizes"
        /\ UNCHANGED <<src, req, nxt, pos, flen, prefix, headerOff, bodyVars,
                       hdr, magic, tailVars>>
    BY <1>2 DEF StoreDtboOffset
  <2>4. dtboOff' \in Nat /\ i' \in Nat \ {0} /\ pc' \in PatchSteps
    <3>1. i \in Nat \ {0}
      BY <1>a DEF PatchTypeOK
    <3> QED
      BY <2>2, <2>3, <3>1 DEF PatchSteps
  <2>5. PatchTypeOK'
    BY <1>a, <2>3, <2>4 DEF PatchTypeOK, bodyVars, tailVars
  <2> QED
    BY <2>1, <2>3, <2>5, OutsideStep DEF InBody, BehindBody, bodyVars
<1>3. CASE SizesDone
  <2>1. PatchTypeOK'
    BY <1>3, <1>a DEF SizesDone, PatchTypeOK, PatchSteps, bodyVars, headerVars, tailVars
  <2> QED
    BY <1>3, <1>a, <2>1, OutsideStep
    DEF SizesDone, Position, InBody, BehindBody, bodyVars
<1>4. CASE SealWrapper
  <2>1. nxt = 10 /\ pc = "seal"
    BY <1>4, <1>a DEF SealWrapper, Position, BehindBody
  <2>2. at[10] \in Nat /\ headerOff \in Nat /\ U32 \in Nat \ {0}
    BY <1>a, U32Assumption DEF PatchTypeOK
  <2>3. \A x \in Int : x % U32 \in Nat
    BY <2>2
  <2>4. wrapSize' \in {0, (at[10] - headerOff + 20) % U32, (at[10] - headerOff) % U32}
    BY <1>4 DEF SealWrapper
  <2>5. wrapSize' \in Nat
    BY <2>2, <2>3, <2>4
  <2>6. /\ pc' = "done"
        /\ UNCHANGED <<src, req, nxt, i, pos, flen, prefix, headerOff, bodyVars,
                       headerVars, vbmeta, footer>>
    BY <1>4 DEF SealWrapper
  <2>7. PatchTypeOK'
    BY <1>a, <2>5, <2>6
    DEF PatchTypeOK, PatchSteps, PatchOutcomes, bodyVars, headerVars
  <2> QED
    BY <2>1, <2>6, <2>7, OutsideStep DEF InBody, BehindBody, bodyVars
<1>5. CASE WriteFails
  <2>1. PatchTypeOK'
    BY <1>5, <1>a
    DEF WriteFails, PatchTypeOK, PatchSteps, PatchOutcomes, bodyVars, headerVars,
        tailVars
  <2> QED
    BY <1>5, <1>a, <2>1, OutsideStep
    DEF WriteFails, InBody, BehindBody, bodyVars
<1> QED
  BY <1>1, <1>2, <1>3, <1>4, <1>5

-----------------------------------------------------------------------------
(* The theorems. *)

(* patch() is entered in front of the first byte of its output. *)
LEMMA PatchEntered ==
  PatchInit => PatchInv
<1> SUFFICES ASSUME NEW s \in ParsedImage, NEW r \in Request,
                    WellParsed(s), PatchStart(s, r)
             PROVE  PatchInv
  BY DEF PatchInit
<1>1. s.size \in [Blocks -> 0 .. (U32 - 1)] /\ 0 \in 0 .. (U32 - 1)
  BY U32Assumption DEF ParsedImage
<1>2. PatchTypeOK
  BY <1>1 DEF PatchStart, NothingWritten, PatchTypeOK, PatchSteps
<1>3. Position /\ EntriesKnown /\ BlockChain
  BY DEF PatchStart, NothingWritten, Position, InBody, BehindBody, EntriesKnown, BlockChain,
         Finished, Blocks, Ramdisk
<1> QED
  BY <1>2, <1>3 DEF PatchInv, PatchStart

(* Every step of the writer keeps its invariant. *)
LEMMA PatchStep ==
  ASSUME PatchInv, [PatchNext]_patchVars
  PROVE  PatchInv'
<1>1. CASE WriteWrapper
  BY <1>1, WrapperStep
<1>2. CASE WriteHeader
  BY <1>2, WriteHeaderStep
<1>3. CASE \/ WriteKernel \/ WriteRamdisk \/ CloseRamdisk \/ WriteBlock
           \/ WriteSignature \/ NoTable \/ CloseTable
  BY <1>3, ClosingSteps
<1>4. CASE \/ StartEntries \/ WriteReplacedEntry \/ ReplacedDone
           \/ WriteKeptEntry \/ StartTable \/ WriteTableEntry
  BY <1>4, WithinSteps
<1>5. CASE WriteTail
  BY <1>5, TailStep
<1>6. CASE \/ StoreSize \/ StoreDtboOffset \/ SizesDone \/ SealWrapper
           \/ WriteFails
  BY <1>6, HeaderSteps
<1>7. CASE UNCHANGED patchVars
  <2> USE <1>7 DEF patchVars, PatchInv
  <2>1. PatchTypeOK'
    BY DEF PatchTypeOK
  <2>2. (pc # "idle" => WellParsed(src))'
    BY DEF WellParsed
  <2>3. Position' /\ EntriesKnown'
    BY DEF Position, InBody, BehindBody, EntriesKnown
  <2>4. BlockChain'
    BY DEF BlockChain, Finished
  <2> QED
    BY <2>1, <2>2, <2>3, <2>4
<1> QED
  BY <1>1, <1>2, <1>3, <1>4, <1>5, <1>6, <1>7 DEF PatchNext

(* The invariant holds in every state of the writer. *)
THEOREM PatchInvariant == PatchSpec => []PatchInv
<1> QED
  BY PatchEntered, PatchStep, PTL DEF PatchSpec

(* Every variable of patch() keeps its type: positions never fall below    *)
(* zero, no entry is recorded at an index without one, and every size      *)
(* stored in the header fits the 32 bits of its field.                     *)
THEOREM PatchTypes == PatchSpec => []PatchTypeOK
<1>1. PatchInv => PatchTypeOK
  BY DEF PatchInv
<1> QED
  BY <1>1, PatchInvariant, PTL

(* The blocks of the output begin where the reader looks for them, for     *)
(* every page size, wrapper, source and request.                           *)
THEOREM PatchChain == PatchSpec => []BlockChain
<1>1. PatchInv => BlockChain
  BY DEF PatchInv
<1> QED
  BY <1>1, PatchInvariant, PTL

-----------------------------------------------------------------------------
(***************************************************************************)
(* What patch() has in its output at each point: the bytes of every block  *)
(* that is finished, the sizes the header may claim, and the length of     *)
(* what it ends with.                                                      *)
(***************************************************************************)

(* The inductive invariant. *)

SomeBlock == \E b \in Finished : len[b] > 0

(* What has been written of the block at hand is in the output. *)
OpenFilled == InBody /\ pos > at[nxt] => flen >= pos

(* As soon as there is a byte of a block, the padding of the last one is   *)
(* in the output as well, although empty blocks write nothing.             *)
PaddingFilled == SomeBlock => flen >= at[nxt]

BlocksFilled == \A b \in Finished : len[b] > 0 => at[b] + len[b] <= flen

(* The header keeps the sizes of the source until all blocks are finished. *)
SizesLast ==
  \A b \in Blocks \ {VendorTable} :
    hdr[b] # src.size[b] => nxt = 10 /\ hdr[b] = len[b] % U32

OldLength == BehindBody /\ SomeBlock => flen >= src.fileLen

FillInv ==
  /\ OpenFilled
  /\ PaddingFilled
  /\ BlocksFilled
  /\ SizesLast
  /\ OldLength

-----------------------------------------------------------------------------
(* Lemmas. *)

(* The values that the steps compute with are numbers. *)
LEMMA FillValues ==
  ASSUME PatchInv
  PROVE  /\ pos \in Nat /\ flen \in Nat /\ nxt \in 1 .. 10
         /\ at \in [1 .. 10 -> Nat] /\ len \in [Blocks -> Nat]
         /\ src.fileLen \in Nat
  BY SourceValues DEF PatchInv, PatchTypeOK

(* A step that finishes no block keeps FillInv if the output does not get  *)
(* shorter and what it moves over is written.                              *)
LEMMA NoBlockFinished ==
  ASSUME PatchInv, FillInv, flen' \in Nat, flen' >= flen,
         InBody' /\ pos' > at'[nxt] => flen' >= pos',
         at' = at \/ nxt = 1,
         BehindBody' => BehindBody \/ (SomeBlock => flen' >= src.fileLen),
         UNCHANGED <<src, nxt, len, hdr>>
  PROVE  FillInv'
<1>1. Finished' = Finished /\ (nxt = 1 => Finished = {})
  BY DEF Finished, Blocks
<1>2. SomeBlock' = SomeBlock
  BY <1>1 DEF SomeBlock
<1>3. flen \in Nat /\ at \in [1 .. 10 -> Nat] /\ len \in [Blocks -> Nat]
      /\ nxt \in 1 .. 10 /\ src.fileLen \in Nat
  BY FillValues
<1>4. OpenFilled'
  BY DEF OpenFilled
<1>5. PaddingFilled'
  <2>1. at' = at \/ ~SomeBlock
    BY <1>1 DEF SomeBlock
  <2> QED
    BY <1>2, <1>3, <2>1 DEF FillInv, PaddingFilled
<1>6. BlocksFilled'
  <2> SUFFICES ASSUME NEW b \in Finished, len[b] > 0
               PROVE  at'[b] + len[b] <= flen'
    BY <1>1 DEF BlocksFilled
  <2>1. at' = at /\ b \in 1 .. 9 /\ at[b] \in Nat /\ len[b] \in Nat
    BY <1>1, <1>3 DEF Finished, Blocks
  <2>2. at[b] + len[b] <= flen
    BY DEF FillInv, BlocksFilled
  <2> QED
    BY <1>3, <2>1, <2>2
<1>7. SizesLast'
  BY DEF FillInv, SizesLast
<1>8. OldLength'
  BY <1>2, <1>3 DEF FillInv, OldLength
<1> QED
  BY <1>4, <1>5, <1>6, <1>7, <1>8 DEF FillInv

(* Finishing a block keeps FillInv. *)
LEMMA BlockFinished ==
  ASSUME PatchInv, FillInv, InBody, nxt \in Blocks, pc' = "body",
         NEW end \in Nat, end >= pos, CloseBlock(nxt, end),
         UNCHANGED <<src, hdr>>
  PROVE  FillInv'
<1>1. /\ nxt' = nxt + 1 /\ nxt \in 1 .. 9
      /\ pos' \in Nat /\ flen' \in Nat /\ pos' = at'[nxt'] /\ pos' >= end
      /\ flen' = Extended(pos, pos') /\ len'[nxt] = end - at[nxt]
      /\ \A b \in Blocks : b # nxt => len'[b] = len[b]
      /\ \A b \in 1 .. 10 : b # nxt + 1 => at'[b] = at[b]
  BY CloseBlockFacts DEF Blocks
<1>2. /\ pos \in Nat /\ flen \in Nat /\ at \in [1 .. 10 -> Nat]
      /\ len \in [Blocks -> Nat]
  BY FillValues
<1>3. flen' >= flen /\ (pos < pos' => flen' >= pos')
  BY <1>1, <1>2, ExtendedFacts DEF PatchInv
<1>4. at[nxt] \in Nat /\ pos >= at[nxt]
  BY <1>1, <1>2 DEF PatchInv, Position
<1>5. pos > at[nxt] => flen >= pos
  BY DEF FillInv, OpenFilled
(* Whatever was written of the block before it is closed or is written now *)
(* is in the output.                                                       *)
<1>6. len'[nxt] > 0 => flen' >= pos'
  BY <1>1, <1>2, <1>3, <1>4, <1>5
<1>7. Finished' = Finished \cup {nxt} /\ nxt \notin Finished
  BY <1>1 DEF Finished, Blocks
<1>8. OpenFilled'
  BY <1>1 DEF OpenFilled
<1>9. PaddingFilled'
  <2> SUFFICES ASSUME NEW b \in Finished', len'[b] > 0
               PROVE  flen' >= pos'
    BY <1>1 DEF PaddingFilled, SomeBlock
  <2>1. CASE b = nxt
    BY <1>6, <2>1
  <2>2. CASE b # nxt
    <3>1. b \in Finished /\ len[b] > 0
      BY <1>1, <1>7, <2>2 DEF Finished
    <3>2. flen >= at[nxt]
      BY <3>1 DEF FillInv, PaddingFilled, SomeBlock
    <3> QED
      BY <1>1, <1>2, <1>3, <1>4, <1>5, <3>2
  <2> QED
    BY <2>1, <2>2
<1>10. BlocksFilled'
  <2> SUFFICES ASSUME NEW b \in Finished', len'[b] > 0
               PROVE  at'[b] + len'[b] <= flen'
    BY DEF BlocksFilled
  <2>1. CASE b = nxt
    <3>1. at'[nxt] = at[nxt]
      BY <1>1
    <3> QED
      BY <1>1, <1>2, <1>4, <1>6, <2>1, <3>1
  <2>2. CASE b # nxt
    <3>1. b \in Finished /\ b \in Blocks /\ b < nxt /\ len'[b] = len[b]
      BY <1>1, <1>7, <2>2 DEF Finished
    <3>2. b \in 1 .. 10 /\ at'[b] = at[b]
      BY <1>1, <3>1 DEF Blocks
    <3>3. at[b] + len[b] <= flen
      BY <3>1 DEF FillInv, BlocksFilled
    <3> QED
      BY <1>1, <1>2, <1>3, <3>1, <3>2, <3>3
  <2> QED
    BY <2>1, <2>2
<1>11. SizesLast'
  BY <1>1 DEF FillInv, SizesLast
<1>12. OldLength'
  BY DEF OldLength, BehindBody
<1> QED
  BY <1>8, <1>9, <1>10, <1>11, <1>12 DEF FillInv

(* What is written between two blocks extends the output if need be. *)
LEMMA WithinExtends ==
  ASSUME PatchInv,
         StartEntries \/ WriteReplacedEntry \/ ReplacedDone \/ WriteKeptEntry
         \/ StartTable \/ WriteTableEntry
  PROVE  /\ InBody /\ pc' # "body" /\ ~BehindBody'
         /\ flen' = Extended(pos, pos') /\ pos' >= pos
         /\ UNCHANGED <<src, nxt, at, len, hdr>>
<1>1. /\ pos' \in Nat /\ pos \in Nat /\ flen \in Nat /\ i \in Nat \ {0}
      /\ PatchTypeOK
  BY WithinSteps DEF PatchInv, PatchTypeOK
<1>2. pos = pos' => Extended(pos, pos') = flen
  BY <1>1 DEF Extended
<1>a. pc \in {"kept", "table"} => Len(ents) = Len(src.entries)
  BY DEF PatchInv, Position, EntriesKnown, Ramdisk, VendorTable
<1>b. src.entries \in Seq(Replacement) /\ req.vendor \in Seq([idx : Nat, data : Replacement])
  BY <1>1, SourceValues
<1>c. ents \in Seq([off : Nat, len : Nat, packed : BOOLEAN])
  BY <1>1 DEF PatchTypeOK
<1>d. (pc \in {"kept", "table"} /\ i <= Len(ents)) => src.entries[i].len \in Nat
  <2> SUFFICES ASSUME pc \in {"kept", "table"}, i <= Len(ents)
               PROVE  src.entries[i].len \in Nat
    OBVIOUS
  <2>1. i \in DOMAIN src.entries
    BY <1>1, <1>a, <1>b, <1>c
  <2> QED
    BY <1>1, <2>1, EntryLens
<1> USE DEF InBody, BehindBody, headerVars
<1>3. CASE StartEntries
  BY <1>1, <1>2, <1>3 DEF StartEntries
<1>4. CASE WriteReplacedEntry
  <2> DEFINE r == req.vendor[i]
  <2>1. CASE r.idx \in DOMAIN ents
    <3>1. PICK n \in Written(r.data, 0, ents[r.idx].packed) : PutEntry(r.idx, n)
      BY <1>4, <2>1 DEF WriteReplacedEntry
    <3>2. i \in DOMAIN req.vendor
      BY <1>1, <1>4, <1>b DEF WriteReplacedEntry
    <3>3. n \in Nat
      BY <1>1, <2>1, <3>2, EntryLens
    <3>4. pos' = pos + n /\ flen' = Extended(pos, pos')
      BY <3>1 DEF PutEntry
    <3> HIDE DEF r
    <3> QED
      BY <1>1, <1>4, <3>3, <3>4 DEF WriteReplacedEntry
  <2>2. CASE r.idx \notin DOMAIN ents
    BY <1>1, <1>2, <1>4, <2>2 DEF WriteReplacedEntry
  <2> QED
    BY <2>1, <2>2
<1>5. CASE ReplacedDone
  BY <1>1, <1>2, <1>5 DEF ReplacedDone, bodyVars
<1>6. CASE WriteKeptEntry
  BY <1>1, <1>2, <1>6, <1>d DEF WriteKeptEntry, PutEntry
<1>7. CASE StartTable
  BY <1>1, <1>2, <1>7 DEF StartTable, bodyVars
<1>8. CASE WriteTableEntry
  <2>1. /\ pc = "table" /\ pc' \in {"table", "panic"} /\ i <= Len(ents)
        /\ UNCHANGED <<src, nxt, at, len, hdr>>
    BY <1>8 DEF WriteTableEntry, bodyVars
  <2>2. \/ pos' = pos + src.entries[i].len /\ flen' = Extended(pos, pos')
        \/ pos' = pos /\ flen' = flen
    BY <1>8 DEF WriteTableEntry
  <2>3. pos' >= pos /\ flen' = Extended(pos, pos')
    BY <1>1, <1>2, <1>d, <2>1, <2>2
  <2> QED
    BY <2>1, <2>3
<1> QED
  BY <1>3, <1>4, <1>5, <1>6, <1>7, <1>8

(* Writing the wrapper and the header. *)
LEMMA FrontFills ==
  ASSUME PatchInv, FillInv, WriteWrapper \/ WriteHeader
  PROVE  FillInv'
<1>1. /\ pos' \in Nat /\ flen' \in Nat /\ headerOff \in Nat /\ pos \in Nat
      /\ flen \in Nat /\ at' \in [1 .. 10 -> Nat] /\ PatchTypeOK /\ Position'
  BY WrapperStep, WriteHeaderStep DEF PatchInv, PatchTypeOK
<1>2. nxt = 1 /\ nxt' = 1 /\ UNCHANGED <<src, len, hdr>> /\ ~BehindBody'
  BY DEF WriteWrapper, WriteHeader, PatchInv, Position, BehindBody, bodyVars,
         headerVars
<1>3. InBody' => pos' = at'[1]
  <2>1. CASE WriteWrapper
    BY <2>1 DEF WriteWrapper, InBody
  <2>2. CASE WriteHeader
    <3>1. at \in [1 .. 10 -> Nat]
      BY DEF PatchInv, PatchTypeOK
    <3>2. pc' = "failed" \/ at' = [at EXCEPT ![1] = pos']
      BY <2>2 DEF WriteHeader
    <3> QED
      BY <3>1, <3>2 DEF InBody
  <2> QED
    BY <2>1, <2>2
<1>4. flen' >= flen
  <2>1. CASE WriteWrapper
    <3>1. WrapperLen[src.wrapper] \in Nat
      BY <1>1, SourceValues, WrapperLens
    <3>2. Extended(0, WrapperLen[src.wrapper]) >= flen
      BY <1>1, <3>1, ExtendedFacts
    <3> QED
      BY <1>1, <2>1, <3>2 DEF WriteWrapper
  <2>2. CASE WriteHeader
    <3>1. headerOff + TotalSize[src.layout] \in Nat
      <4>1. TotalSize[src.layout] \in Nat
        BY <1>1, SourceValues, LayoutFacts
      <4> QED
        BY <1>1, <4>1
    <3> QED
      BY <1>1, <2>2, <3>1, ExtendedFacts DEF WriteHeader
  <2> QED
    BY <2>1, <2>2
<1> QED
  BY <1>1, <1>2, <1>3, <1>4, NoBlockFinished

(* vbmeta is put on the next boundary of 4096. *)
LEMMA MetadataAligned ==
  ASSUME NEW v \in Nat
  PROVE  Align(v, 4096) \in Nat /\ v <= Align(v, 4096)
  BY AlignFacts

(* The metadata or the zeros behind the payload, up to the old length. *)
LEMMA TailFills ==
  ASSUME PatchInv, FillInv, WriteTail
  PROVE  FillInv'
<1>1. /\ pos \in Nat /\ flen \in Nat /\ src.fileLen \in Nat /\ src.avb.len \in Nat
      /\ pos' \in Nat /\ flen' \in Nat /\ PatchTypeOK
      /\ src.avb.has => src.fileLen >= FooterSize
  <2>1. /\ pos \in Nat /\ flen \in Nat /\ PatchTypeOK
        /\ pos' \in Nat /\ flen' \in Nat
    BY TailStep DEF PatchInv, PatchTypeOK
  <2>2. src.fileLen \in Nat /\ src.avb.len \in Nat
    BY <2>1, SourceValues
  <2>3. src.avb.has => src.fileLen >= FooterSize
    BY DEF PatchInv, WriteTail, WellParsed
  <2> QED
    BY <2>1, <2>2, <2>3
<1>2. nxt = 10 /\ pos = at[nxt] /\ (SomeBlock => flen >= pos)
  BY DEF WriteTail, PatchInv, Position, FillInv, PaddingFilled
<1>3. flen' >= flen /\ (SomeBlock => flen' >= src.fileLen)
  <2>1. CASE src.avb.has
    <3> DEFINE e == Align(pos, 4096) + src.avb.len
    <3>1. e \in Nat
      BY <1>1, MetadataAligned
    <3>2. Extended(pos, e) \in Nat /\ Extended(pos, e) >= flen
      <4> HIDE DEF e
      <4> QED BY <1>1, <3>1, ExtendedFacts
    <3>3. /\ pos' = src.fileLen - FooterSize + FooterSize
          /\ flen' = IF Extended(pos, e) < pos' THEN pos' ELSE Extended(pos, e)
      BY <2>1 DEF WriteTail, FooterStart
    <3> HIDE DEF e
    <3> QED
      BY <1>1, <2>1, <3>1, <3>2, <3>3 DEF FooterSize
  <2>2. CASE ~src.avb.has
    <3>1. pos' = FillEnd /\ flen' = Extended(pos, pos')
      BY <2>2 DEF WriteTail
    <3> QED
      BY <1>1, <1>2, <3>1 DEF FillEnd, Extended, WriteTail, PatchInv, Position
  <2> QED
    BY <2>1, <2>2
<1>4. ~InBody' /\ UNCHANGED <<src, nxt, at, len, hdr>>
  BY DEF WriteTail, InBody, bodyVars, headerVars
<1> QED
  BY <1>1, <1>3, <1>4, NoBlockFinished

(* Going back to the header stores sizes of finished blocks only. *)
LEMMA HeaderFills ==
  ASSUME PatchInv, FillInv,
         StoreSize \/ StoreDtboOffset \/ SizesDone \/ SealWrapper \/ WriteFails
  PROVE  FillInv'
<1>1. flen \in Nat /\ flen' = flen /\ UNCHANGED <<src, nxt, at, len>> /\ ~InBody'
  BY FillValues
  DEF StoreSize, StoreDtboOffset, SizesDone, SealWrapper, WriteFails, InBody,
      bodyVars
<1>2. CASE StoreSize
  <2>1. nxt = 10 /\ i \in Blocks /\ BehindBody
    BY <1>2 DEF StoreSize, PatchInv, Position, BehindBody
  <2>2. hdr \in [Blocks -> 0 .. (U32 - 1)]
    BY DEF PatchInv, PatchTypeOK
  <2>3. hdr' = hdr \/ hdr' = [hdr EXCEPT ![i] = StoredSize(i)]
    BY <1>2 DEF StoreSize
  <2>4. SizesLast'
    <3> SUFFICES ASSUME NEW b \in Blocks \ {VendorTable}, hdr'[b] # src.size[b]
                 PROVE  hdr'[b] = len[b] % U32
      BY <1>1, <2>1 DEF SizesLast
    <3>1. hdr'[b] = hdr[b] \/ hdr'[b] = StoredSize(b)
      BY <2>1, <2>2, <2>3
    <3> QED
      BY <3>1 DEF StoredSize, FillInv, SizesLast
  <2>5. Finished' = Finished
    BY <1>1 DEF Finished
  <2>6. OpenFilled' /\ PaddingFilled' /\ BlocksFilled' /\ OldLength'
    BY <1>1, <2>1, <2>5
    DEF FillInv, OpenFilled, PaddingFilled, BlocksFilled, OldLength, SomeBlock
  <2> QED
    BY <2>4, <2>6 DEF FillInv
<1>3. CASE StoreDtboOffset \/ SizesDone \/ SealWrapper \/ WriteFails
  <2>1. hdr' = hdr /\ (BehindBody' => BehindBody)
    BY <1>3 DEF StoreDtboOffset, SizesDone, SealWrapper, WriteFails, BehindBody,
                headerVars
  <2>2. flen' >= flen
    BY <1>1
  <2> QED
    BY <1>1, <2>1, <2>2, NoBlockFinished
<1> QED
  BY <1>2, <1>3

-----------------------------------------------------------------------------
(* The theorems. *)

(* Nothing is written when patch() begins. *)
LEMMA FillEntered ==
  PatchInit => FillInv
<1> SUFFICES ASSUME NEW s \in ParsedImage, NEW r \in Request, PatchStart(s, r)
             PROVE  FillInv
  BY DEF PatchInit
<1>1. Finished = {}
  BY DEF PatchStart, NothingWritten, Finished, Blocks
<1> QED
  BY <1>1 DEF PatchStart, NothingWritten, FillInv, OpenFilled, PaddingFilled, BlocksFilled,
              SizesLast, OldLength, SomeBlock, InBody, BehindBody

(* Every step of the writer keeps what is known of the output's end. *)
LEMMA FillStep ==
  ASSUME PatchInv, FillInv, [PatchNext]_patchVars
  PROVE  FillInv'
<1>1. CASE WriteWrapper \/ WriteHeader
  BY <1>1, FrontFills
<1>2. CASE \/ WriteKernel \/ WriteRamdisk \/ CloseRamdisk \/ WriteBlock
           \/ WriteSignature \/ NoTable \/ CloseTable
  <2>1. PICK end \in Nat : end >= pos /\ CloseBlock(nxt, end)
    BY <1>2, ClosingShape
  <2>2. InBody /\ nxt \in Blocks /\ pc' = "body" /\ UNCHANGED <<src, hdr>>
    BY <1>2, ClosingShape DEF headerVars
  <2> QED
    BY <2>1, <2>2, BlockFinished
<1>3. CASE \/ StartEntries \/ WriteReplacedEntry \/ ReplacedDone
           \/ WriteKeptEntry \/ StartTable \/ WriteTableEntry
  <2>1. /\ InBody /\ ~BehindBody' /\ flen' = Extended(pos, pos') /\ pos' >= pos
        /\ UNCHANGED <<src, nxt, at, len, hdr>>
    BY <1>3, WithinExtends
  <2>2. pos \in Nat /\ flen \in Nat /\ pos' \in Nat /\ at[nxt] \in Nat
    BY <1>3, FillValues, WithinSteps DEF PatchInv, PatchTypeOK
  <2>3. flen' \in Nat /\ flen' >= flen
    BY <2>1, <2>2, ExtendedFacts DEF PatchInv
  <2>4. pos' > at[nxt] => flen' >= pos'
    BY <2>1, <2>2 DEF Extended, FillInv, OpenFilled
  <2> QED
    BY <2>1, <2>3, <2>4, NoBlockFinished
<1>4. CASE WriteTail
  BY <1>4, TailFills
<1>5. CASE \/ StoreSize \/ StoreDtboOffset \/ SizesDone \/ SealWrapper
           \/ WriteFails
  BY <1>5, HeaderFills
<1>6. CASE UNCHANGED patchVars
  BY <1>6 DEF patchVars, FillInv, OpenFilled, PaddingFilled, BlocksFilled,
              SizesLast, OldLength, SomeBlock, Finished, InBody, BehindBody
<1> QED
  BY <1>1, <1>2, <1>3, <1>4, <1>5, <1>6 DEF PatchNext

(* The output is filled as far as patch() has come, in every state. *)
THEOREM PatchFilled == PatchSpec => []FillInv
<1> QED
  BY FillEntered, FillStep, PatchEntered, PatchStep, PatchInvariant, PTL
  DEF PatchSpec

(* What is stored is the size of a block that is in the output. *)
LEMMA SizesBacked ==
  ASSUME PatchInv, FillInv
  PROVE  NewSizesBacked
<1> SUFFICES ASSUME NEW b \in Blocks \ {VendorTable}, hdr[b] # src.size[b]
             PROVE  /\ hdr[b] = len[b] % U32
                    /\ len[b] > 0 => at[b] + len[b] <= flen
  BY DEF NewSizesBacked
<1>1. nxt = 10 /\ hdr[b] = len[b] % U32
  BY DEF FillInv, SizesLast
<1>2. b \in Finished
  BY <1>1 DEF Finished, Blocks
<1> QED
  BY <1>1, <1>2 DEF FillInv, BlocksFilled

(* However patch() ends, and wherever it stops, a size that it has stored  *)
(* is the size of bytes that are in the output.                            *)
THEOREM PatchSizesBacked == PatchSpec => []NewSizesBacked
<1>1. PatchInv /\ FillInv => NewSizesBacked
  BY SizesBacked
<1> QED
  BY <1>1, PatchInvariant, PatchFilled, PTL

(* All that is behind the last block is there when patch() is done. *)
LEMMA FilledToTheEnd ==
  ASSUME PatchInv, FillInv
  PROVE  NeverShorter
<1> SUFFICES ASSUME pc = "done", \E b \in Blocks : len[b] > 0
             PROVE  flen >= src.fileLen /\ flen >= at[10]
  BY DEF NeverShorter
<1>1. BehindBody /\ nxt = 10
  BY DEF BehindBody, PatchInv, Position
<1>2. SomeBlock
  BY <1>1 DEF SomeBlock, Finished, Blocks
<1> QED
  BY <1>1, <1>2 DEF FillInv, PaddingFilled, OldLength

(* A finished image is as long as its source and holds the padding of its  *)
(* last block, unless it has no block.                                     *)
THEOREM PatchNeverShorter == PatchSpec => []NeverShorter
<1>1. PatchInv /\ FillInv => NeverShorter
  BY FilledToTheEnd
<1> QED
  BY <1>1, PatchInvariant, PatchFilled, PTL

-----------------------------------------------------------------------------
(* The AVB metadata behind the payload. *)

Fits == Align(at[10], 4096) + src.avb.len + FooterSize <= src.fileLen

(* Up to the tail nothing lies behind the position, so that the footer can *)
(* be the last thing in the output.                                        *)
NothingBehind ==
  /\ pc = "wrapper" => pos = 0 /\ flen = 0
  /\ pc = "header" => pos = headerOff /\ flen <= pos
  /\ InBody => flen <= pos

MetadataPlaced ==
  BehindBody /\ src.avb.has =>
    /\ vbmeta = [at |-> Align(at[10], 4096), len |-> src.avb.len]
    /\ footer.at = FooterStart /\ footer.vbmetaOff = vbmeta.at
    /\ Fits => flen = src.fileLen

AvbInv == NothingBehind /\ MetadataPlaced

(* No metadata are placed when patch() begins. *)
LEMMA AvbEntered ==
  PatchInit => AvbInv
<1> SUFFICES ASSUME NEW s \in ParsedImage, NEW r \in Request, PatchStart(s, r)
             PROVE  AvbInv
  BY DEF PatchInit
<1> QED
  BY DEF PatchStart, NothingWritten, AvbInv, NothingBehind, MetadataPlaced, InBody, BehindBody

(* Every step of the writer keeps what is known of the metadata. *)
LEMMA AvbStep ==
  ASSUME PatchInv, AvbInv, [PatchNext]_patchVars
  PROVE  AvbInv'
<1> USE DEF AvbInv
<1>a. /\ pos \in Nat /\ flen \in Nat /\ headerOff \in Nat /\ PatchTypeOK
      /\ pos' \in Nat /\ flen' \in Nat /\ headerOff' \in Nat
  BY PatchStep DEF PatchInv, PatchTypeOK
<1>1. CASE WriteWrapper
  <2>1. WrapperLen[src.wrapper] \in Nat
    BY <1>a, SourceValues, WrapperLens
  <2>2. flen = 0 /\ pc' \in {"header", "panic"}
    BY <1>1 DEF WriteWrapper, NothingBehind
  <2>3. pc' = "header" => /\ pos' = WrapperLen[src.wrapper] /\ headerOff' = pos'
                          /\ flen' = Extended(0, pos')
    BY <1>1 DEF WriteWrapper
  <2> QED
    BY <1>a, <2>1, <2>2, <2>3
    DEF Extended, NothingBehind, MetadataPlaced, InBody, BehindBody
<1>2. CASE WriteHeader
  <2>1. /\ TotalSize[src.layout] \in Nat
        /\ HdrSpace(src.layout, src.page) \in Nat
        /\ TotalSize[src.layout] <= HdrSpace(src.layout, src.page)
    BY <1>a, SourceValues, LayoutFacts, HdrSpaceFacts
  <2>2. /\ pos = headerOff /\ flen <= pos /\ pc' \in {"failed", "body"}
        /\ flen' = Extended(pos, headerOff + TotalSize[src.layout])
        /\ pc' = "body" => pos' = headerOff + HdrSpace(src.layout, src.page)
    BY <1>2 DEF WriteHeader, NothingBehind
  <2>3. flen' <= headerOff + HdrSpace(src.layout, src.page)
    BY <1>a, <2>1, <2>2 DEF Extended
  <2> QED
    BY <2>2, <2>3 DEF NothingBehind, MetadataPlaced, InBody, BehindBody
<1>3. CASE \/ WriteKernel \/ WriteRamdisk \/ CloseRamdisk \/ WriteBlock
           \/ WriteSignature \/ NoTable \/ CloseTable
  <2>1. PICK end \in Nat : end >= pos /\ CloseBlock(nxt, end)
    BY <1>3, ClosingShape
  <2>2. InBody /\ nxt \in Blocks /\ pc' = "body"
    BY <1>3, ClosingShape
  <2>3. flen' = Extended(pos, pos') /\ pos' >= pos
    BY <1>a, <2>1, <2>2, CloseBlockFacts
  <2>4. flen' <= pos'
    BY <1>a, <2>2, <2>3 DEF Extended, NothingBehind
  <2> QED
    BY <2>2, <2>4 DEF NothingBehind, MetadataPlaced, BehindBody
<1>4. CASE \/ StartEntries \/ WriteReplacedEntry \/ ReplacedDone
           \/ WriteKeptEntry \/ StartTable \/ WriteTableEntry
  <2>1. InBody /\ ~BehindBody' /\ flen' = Extended(pos, pos') /\ pos' >= pos
    BY <1>4, WithinExtends
  <2>2. flen' <= pos'
    BY <1>a, <2>1 DEF Extended, NothingBehind
  <2>3. pc' \notin {"wrapper", "header"}
    BY <1>4 DEF StartEntries, WriteReplacedEntry, ReplacedDone, WriteKeptEntry,
                StartTable, WriteTableEntry
  <2>4. NothingBehind'
    BY <2>2, <2>3 DEF NothingBehind
  <2>5. MetadataPlaced'
    BY <2>1 DEF MetadataPlaced
  <2> QED
    BY <2>4, <2>5
<1>5. CASE WriteTail
  <2>1. /\ pc' = "sizes" /\ flen <= pos /\ at[10] = pos
        /\ UNCHANGED <<src, at>>
    BY <1>5 DEF WriteTail, NothingBehind, InBody, PatchInv, Position, bodyVars
  <2>2. MetadataPlaced'
    <3> SUFFICES ASSUME src.avb.has
                 PROVE  /\ vbmeta' = [at |-> Align(pos, 4096), len |-> src.avb.len]
                        /\ footer'.at = FooterStart
                        /\ footer'.vbmetaOff = vbmeta'.at
                        /\ Fits => flen' = src.fileLen
      BY <2>1 DEF MetadataPlaced, Fits, FooterStart
    <3> DEFINE v == Align(pos, 4096)
               e == v + src.avb.len
    <3>1. /\ v \in Nat /\ v >= pos /\ src.avb.len \in Nat /\ src.fileLen \in Nat
      <4>1. src.avb.len \in Nat /\ src.fileLen \in Nat
        BY <1>a, SourceValues
      <4>2. v \in Nat /\ v >= pos
        BY <1>a, MetadataAligned
      <4> QED
        BY <4>1, <4>2
    <3>2. /\ vbmeta' = [at |-> v, len |-> src.avb.len]
          /\ footer' = [at |-> FooterStart, vbmetaOff |-> v,
                        origSize |-> pos - headerOff]
          /\ pos' = FooterStart + FooterSize
          /\ flen' = IF Extended(pos, e) < pos' THEN pos' ELSE Extended(pos, e)
      BY <1>5 DEF WriteTail
    <3>3. Fits <=> v + src.avb.len + FooterSize <= src.fileLen
      BY <2>1 DEF Fits
    <3> HIDE DEF v
    <3>4. Fits => flen' = src.fileLen
      BY <1>a, <2>1, <3>1, <3>2, <3>3 DEF Extended, FooterStart, FooterSize
    <3> QED
      BY <3>2, <3>4 DEF v
  <2> QED
    BY <2>1, <2>2 DEF NothingBehind, InBody
<1>6. CASE \/ StoreSize \/ StoreDtboOffset \/ SizesDone \/ SealWrapper
           \/ WriteFails
  <2>1. UNCHANGED <<src, at, flen, vbmeta, footer>>
    BY <1>6
    DEF StoreSize, StoreDtboOffset, SizesDone, SealWrapper, WriteFails, bodyVars,
        tailVars
  <2>2. /\ pc' \notin {"body", "replaced", "kept", "table", "wrapper", "header"}
        /\ BehindBody' => BehindBody
    <3>1. CASE StoreSize \/ StoreDtboOffset
      BY <3>1 DEF StoreSize, StoreDtboOffset, BehindBody
    <3>2. CASE SizesDone \/ SealWrapper \/ WriteFails
      BY <3>2 DEF SizesDone, SealWrapper, WriteFails, BehindBody
    <3> QED
      BY <1>6, <3>1, <3>2
  <2> QED
    BY <2>1, <2>2 DEF InBody, NothingBehind, MetadataPlaced, Fits, FooterStart
<1>7. CASE UNCHANGED patchVars
  BY <1>7 DEF patchVars, NothingBehind, MetadataPlaced, Fits, FooterStart, InBody,
              BehindBody
<1> QED
  BY <1>1, <1>2, <1>3, <1>4, <1>5, <1>6, <1>7 DEF PatchNext

(* Metadata that fit are where they are sought. *)
LEMMA MetadataInPlace ==
  ASSUME PatchInv, AvbInv
  PROVE  AvbIntact
<1> SUFFICES ASSUME pc = "done", src.avb.has, Fits
             PROVE  /\ vbmeta.at >= at[10]
                    /\ vbmeta.at + vbmeta.len <= footer.at
                    /\ footer.vbmetaOff = vbmeta.at
                    /\ footer.at + FooterSize = flen
                    /\ flen = src.fileLen
  BY DEF AvbIntact, Fits
<1>1. /\ vbmeta = [at |-> Align(at[10], 4096), len |-> src.avb.len]
      /\ footer.at = FooterStart /\ footer.vbmetaOff = vbmeta.at
      /\ flen = src.fileLen
  BY DEF AvbInv, MetadataPlaced, BehindBody
<1>2. at[10] \in Nat
  BY DEF PatchInv, PatchTypeOK
<1>3. src.fileLen \in Nat /\ src.avb.len \in Nat
  BY SourceValues DEF PatchInv
<1>4. Align(at[10], 4096) \in Nat /\ at[10] <= Align(at[10], 4096)
  BY <1>2, MetadataAligned
<1> QED
  BY <1>1, <1>2, <1>3, <1>4 DEF Fits, FooterStart, FooterSize

(* AVB metadata that fit into the old length lie between the payload and   *)
(* the footer, and the footer at the very end, for every payload.          *)
THEOREM PatchAvbIntact == PatchSpec => []AvbIntact
<1>1. PatchInv /\ AvbInv => AvbIntact
  BY MetadataInPlace
<1> QED
  BY <1>1, AvbEntered, AvbStep, PatchInvariant, PTL DEF PatchSpec

(* The end of the output is as the reader and avbtool expect it, for every *)
(* source and request.                                                     *)
THEOREM PatchTailKept == PatchSpec => []TailKept
<1>1. NeverShorter /\ AvbIntact => TailKept
  BY DEF TailKept
<1> QED
  BY <1>1, PatchNeverShorter, PatchAvbIntact, PTL

-----------------------------------------------------------------------------
(***************************************************************************)
(* Where patch() puts the vendor ramdisks: the two loops over new_entries  *)
(* lay out every ramdisk once, one behind the other, for every number of   *)
(* them and every list of replacements, repeated and unknown indices       *)
(* included.                                                               *)
(***************************************************************************)

(* The inductive invariant. *)

(* The entries P of es end at or before end and do not overlap, unless end *)
(* is further than a cast can say.                                         *)
LaidOut(es, P, end) ==
  end < U32 =>
    /\ \A k \in P : es[k].off + es[k].len <= end
    /\ \A k, m \in P : k # m =>
         \/ es[k].off + es[k].len <= es[m].off
         \/ es[m].off + es[m].len <= es[k].off

(* The entries that the first loop has placed when its counter is n, and   *)
(* those that are in place when the counter of the second one is n.        *)
PlacedByIndex(n) ==
  {k \in DOMAIN ents : \E j \in DOMAIN req.vendor : j < n /\ req.vendor[j].idx = k}
PlacedBefore(n) == {k \in DOMAIN ents : k < n \/ IsReplaced(k)}

(* The entries of a loop end where the output is; the others still carry   *)
(* what StartEntries gave them, which says nothing.                        *)
EntriesInv ==
  /\ pc = "replaced" => LaidOut(ents, PlacedByIndex(i), pos - at[Ramdisk])
  /\ pc = "kept" => LaidOut(ents, PlacedBefore(i), pos - at[Ramdisk])
  /\ nxt > Ramdisk /\ src.vendor => LaidOut(ents, DOMAIN ents, len[Ramdisk])

-----------------------------------------------------------------------------
(* Lemmas. *)

(* What is known in both loops. *)
LEMMA LoopFacts ==
  ASSUME PatchInv, pc \in {"replaced", "kept"}
  PROVE  /\ pos \in Nat /\ at[Ramdisk] \in Nat /\ pos >= at[Ramdisk]
         /\ i \in Nat \ {0} /\ PatchTypeOK
         /\ nxt = Ramdisk /\ src.vendor
         /\ DOMAIN ents = DOMAIN src.entries
         /\ DOMAIN ents = 1 .. Len(ents) /\ Len(ents) \in Nat
         /\ DOMAIN req.vendor = 1 .. Len(req.vendor) /\ Len(req.vendor) \in Nat
<1>1. /\ PatchTypeOK /\ pos \in Nat /\ i \in Nat \ {0} /\ at[Ramdisk] \in Nat
      /\ ents \in Seq([off : Nat, len : Nat, packed : BOOLEAN])
  <2>1. /\ PatchTypeOK /\ pos \in Nat /\ i \in Nat \ {0}
        /\ at \in [1 .. 10 -> Nat]
    BY DEF PatchInv, PatchTypeOK
  <2>2. ents \in Seq([off : Nat, len : Nat, packed : BOOLEAN])
    BY <2>1 DEF PatchTypeOK
  <2> QED
    BY <2>1, <2>2 DEF Ramdisk
<1>2. nxt = Ramdisk /\ src.vendor /\ pos >= at[Ramdisk]
      /\ Len(ents) = Len(src.entries)
  BY DEF PatchInv, Position, InBody, EntriesKnown
<1>3. /\ src.entries \in Seq(Replacement)
      /\ req.vendor \in Seq([idx : Nat, data : Replacement])
  BY <1>1, SourceValues
<1> QED
  BY <1>1, <1>2, <1>3

(* A number that 32 bits can say is not changed by a cast. *)
LEMMA SmallMod ==
  ASSUME NEW n \in Nat, n < U32
  PROVE  n % U32 = n
<1>1. n \div U32 = 0
  BY U32Assumption, DivUnique, SMT
<1> QED
  BY <1>1, U32Assumption, DivFacts, SMT

(* An entry that is put behind the others overlaps none of them, and it    *)
(* does not matter whether it had been placed before.                      *)
LEMMA PutBehind ==
  ASSUME PatchInv, pc \in {"replaced", "kept"},
         NEW P \in SUBSET (DOMAIN ents), LaidOut(ents, P, pos - at[Ramdisk]),
         NEW k \in DOMAIN ents, NEW n \in Nat, PutEntry(k, n)
  PROVE  /\ LaidOut(ents', P \cup {k}, pos' - at[Ramdisk])
         /\ DOMAIN ents' = DOMAIN ents
<1> DEFINE top == pos - at[Ramdisk]
<1>1. pos \in Nat /\ at[Ramdisk] \in Nat /\ pos >= at[Ramdisk] /\ PatchTypeOK
  BY LoopFacts
<1>2. /\ ents' \in Seq([off : Nat, len : Nat, packed : BOOLEAN])
      /\ Len(ents') = Len(ents)
      /\ ents'[k].off = top % U32 /\ ents'[k].len = n % U32
      /\ \A m \in DOMAIN ents : m # k => ents'[m] = ents[m]
      /\ pos' = pos + n
  BY <1>1, PutEntryFacts
<1>3. DOMAIN ents' = DOMAIN ents
  <2>1. ents \in Seq([off : Nat, len : Nat, packed : BOOLEAN])
    BY <1>1 DEF PatchTypeOK
  <2> QED
    BY <1>2, <2>1
<1>4. ASSUME NEW m \in DOMAIN ents
      PROVE  ents[m].off \in Nat /\ ents[m].len \in Nat
  <2> DEFINE E == [off : Nat, len : Nat, packed : BOOLEAN]
  <2>1. ents \in Seq(E)
    BY <1>1 DEF PatchTypeOK
  <2> HIDE DEF E
  <2>2. ents[m] \in E
    BY <1>4, <2>1, ElementType
  <2> QED
    BY <2>2 DEF E
<1>5. pos' - at[Ramdisk] = top + n /\ top \in Nat
  <2>1. pos' = pos + n
    BY <1>2
  <2> QED
    BY <1>1, <2>1
(* Where nothing is cut, a cast changes nothing. *)
<1>a. SUFFICES ASSUME top + n < U32
               PROVE  LaidOut(ents', P \cup {k}, pos' - at[Ramdisk])
  BY <1>3, <1>5, U32Assumption DEF LaidOut
<1>b. top < U32 /\ ents'[k].off = top /\ ents'[k].len = n
  <2> HIDE DEF top
  <2>1. top < U32 /\ n < U32
    BY <1>5, <1>a, U32Assumption
  <2> QED
    BY <1>2, <1>5, <2>1, SmallMod, U32Assumption
<1>6. ASSUME NEW m \in P, m # k
      PROVE  /\ ents'[m] = ents[m]
             /\ ents'[m].off \in Nat /\ ents'[m].len \in Nat
             /\ ents'[m].off + ents'[m].len <= top
  <2>1. m \in DOMAIN ents /\ ents'[m] = ents[m]
    BY <1>2, <1>6
  <2>2. ents[m].off + ents[m].len <= top
    BY <1>b DEF LaidOut
  <2> QED
    BY <1>4, <2>1, <2>2
<1>c. \A l, m \in P : l # m =>
        \/ ents[l].off + ents[l].len <= ents[m].off
        \/ ents[m].off + ents[m].len <= ents[l].off
  BY <1>b DEF LaidOut
<1> HIDE DEF top
<1>7. ASSUME NEW m \in P \cup {k}
      PROVE  ents'[m].off + ents'[m].len <= top + n
  <2>1. CASE m = k
    BY <1>b, <1>5, <2>1
  <2>2. CASE m # k
    BY <1>5, <1>6, <2>2
  <2> QED
    BY <2>1, <2>2
<1>8. ASSUME NEW l \in P \cup {k}, NEW m \in P \cup {k}, l # m
      PROVE  \/ ents'[l].off + ents'[l].len <= ents'[m].off
             \/ ents'[m].off + ents'[m].len <= ents'[l].off
  <2>1. CASE l = k
    <3>1. m \in P /\ m # k
      BY <1>8, <2>1
    <3> QED
      BY <1>b, <1>6, <2>1, <3>1
  <2>2. CASE m = k
    <3>1. l \in P /\ l # k
      BY <1>8, <2>2
    <3> QED
      BY <1>b, <1>6, <2>2, <3>1
  <2>3. CASE l # k /\ m # k
    <3>1. ents'[l] = ents[l] /\ ents'[m] = ents[m] /\ l \in P /\ m \in P
      BY <1>6, <2>3
    <3> QED
      BY <1>c, <1>8, <3>1
  <2> QED
    BY <2>1, <2>2, <2>3
<1> QED
  BY <1>3, <1>5, <1>7, <1>8 DEF LaidOut

-----------------------------------------------------------------------------
(* The steps of the two loops. *)

(* The entries are prepared: none is placed. *)
LEMMA EntriesStarted ==
  ASSUME PatchInv, StartEntries
  PROVE  EntriesInv'
<1>1. pc' = "replaced" /\ i' = 1 /\ nxt' = Ramdisk /\ UNCHANGED req
  BY DEF StartEntries
<1>2. req.vendor \in Seq([idx : Nat, data : Replacement])
  BY SourceValues DEF PatchInv
<1>3. \A j \in DOMAIN req.vendor : ~(j < 1)
  BY <1>2
<1>4. PlacedByIndex(i)' = {}
  BY <1>1, <1>3 DEF PlacedByIndex
<1> QED
  BY <1>1, <1>4 DEF EntriesInv, LaidOut, Ramdisk

(* A replacement is written behind what is there, or skipped. *)
LEMMA ReplacementPlaced ==
  ASSUME PatchInv, EntriesInv, WriteReplacedEntry
  PROVE  EntriesInv'
<1> DEFINE x == req.vendor[i].idx
<1>1. /\ pc = "replaced" /\ pc' = pc /\ i' = i + 1 /\ i <= Len(req.vendor)
      /\ nxt' = nxt /\ UNCHANGED <<src, req, at>>
  BY DEF WriteReplacedEntry
<1>2. /\ i \in DOMAIN req.vendor /\ i \in Nat /\ nxt = Ramdisk /\ PatchTypeOK
      /\ DOMAIN req.vendor = 1 .. Len(req.vendor)
  BY <1>1, LoopFacts
<1>3. \A j \in DOMAIN req.vendor : j < i + 1 <=> j < i \/ j = i
  BY <1>2
<1>4. LaidOut(ents, PlacedByIndex(i), pos - at[Ramdisk])
  BY <1>1 DEF EntriesInv
<1>5. CASE x \in DOMAIN ents
  <2>1. PICK n \in Written(req.vendor[i].data, 0, ents[x].packed) : PutEntry(x, n)
    BY <1>5 DEF WriteReplacedEntry
  <2>2. n \in Nat
    BY <1>2, EntryLens
  <2>3. /\ LaidOut(ents', PlacedByIndex(i) \cup {x}, pos' - at[Ramdisk])
        /\ DOMAIN ents' = DOMAIN ents
    <3>1. PlacedByIndex(i) \in SUBSET (DOMAIN ents)
      BY DEF PlacedByIndex
    <3> HIDE DEF x
    <3> QED
      BY <1>1, <1>4, <1>5, <2>1, <2>2, <3>1, PutBehind
  <2>4. PlacedByIndex(i)' = PlacedByIndex(i) \cup {x}
    BY <1>1, <1>2, <1>3, <1>5, <2>3 DEF PlacedByIndex
  <2>5. LaidOut(ents', PlacedByIndex(i)', pos' - at[Ramdisk])
    BY <2>3, <2>4, Zenon
  <2> QED
    BY <1>1, <1>2, <2>5 DEF EntriesInv, Ramdisk
<1>6. CASE x \notin DOMAIN ents
  <2>1. UNCHANGED <<ents, pos>>
    BY <1>6 DEF WriteReplacedEntry, PutEntry
  <2>2. PlacedByIndex(i)' = PlacedByIndex(i)
    BY <1>1, <1>2, <1>3, <1>6, <2>1 DEF PlacedByIndex
  <2> QED
    BY <1>1, <1>2, <1>4, <2>1, <2>2 DEF EntriesInv, Ramdisk
<1> QED
  BY <1>5, <1>6

(* Behind the first loop every entry with a replacement is in place. *)
LEMMA ReplacementsPlaced ==
  ASSUME PatchInv, EntriesInv, ReplacedDone
  PROVE  EntriesInv'
<1>1. /\ pc = "replaced" /\ i > Len(req.vendor) /\ i' = 1 /\ pc' = "kept"
      /\ UNCHANGED <<req, nxt, pos, at, len, ents>>
  BY DEF ReplacedDone, bodyVars
<1>2. /\ DOMAIN req.vendor = 1 .. Len(req.vendor) /\ Len(req.vendor) \in Nat
      /\ DOMAIN ents = 1 .. Len(ents) /\ i \in Nat /\ nxt = Ramdisk
  BY <1>1, LoopFacts
<1>3. \A j \in DOMAIN req.vendor : j < i
  BY <1>1, <1>2
<1>4. \A k \in DOMAIN ents : ~(k < 1)
  BY <1>2
<1>5. PlacedBefore(i)' = PlacedByIndex(i)
  BY <1>1, <1>3, <1>4 DEF PlacedBefore, PlacedByIndex, IsReplaced
<1> QED
  BY <1>1, <1>2, <1>5 DEF EntriesInv, Ramdisk

(* The second loop writes the other entries. *)
LEMMA KeptPlaced ==
  ASSUME PatchInv, EntriesInv, WriteKeptEntry
  PROVE  EntriesInv'
<1>1. /\ pc = "kept" /\ pc' = pc /\ i' = i + 1 /\ i <= Len(ents) /\ nxt' = nxt
      /\ UNCHANGED <<src, req, at>>
  BY DEF WriteKeptEntry
<1>2. /\ i \in DOMAIN ents /\ i \in DOMAIN src.entries /\ i \in Nat
      /\ nxt = Ramdisk /\ PatchTypeOK /\ DOMAIN ents = 1 .. Len(ents)
  BY <1>1, LoopFacts
<1>3. \A k \in DOMAIN ents : k < i + 1 <=> k < i \/ k = i
  BY <1>2
<1>4. LaidOut(ents, PlacedBefore(i), pos - at[Ramdisk])
  BY <1>1 DEF EntriesInv
<1>5. CASE IsReplaced(i)
  <2>1. UNCHANGED <<ents, pos>>
    BY <1>5 DEF WriteKeptEntry
  <2>2. PlacedBefore(i)' = PlacedBefore(i)
    BY <1>1, <1>2, <1>3, <1>5, <2>1 DEF PlacedBefore, IsReplaced
  <2> QED
    BY <1>1, <1>2, <1>4, <2>1, <2>2 DEF EntriesInv, Ramdisk
<1>6. CASE ~IsReplaced(i)
  <2>1. PutEntry(i, src.entries[i].len)
    BY <1>6 DEF WriteKeptEntry
  <2>2. src.entries[i].len \in Nat
    BY <1>2, EntryLens
  <2>3. /\ LaidOut(ents', PlacedBefore(i) \cup {i}, pos' - at[Ramdisk])
        /\ DOMAIN ents' = DOMAIN ents
    <3>1. PlacedBefore(i) \in SUBSET (DOMAIN ents)
      BY DEF PlacedBefore
    <3> QED
      BY <1>1, <1>2, <1>4, <2>1, <2>2, <3>1, PutBehind
  <2>4. PlacedBefore(i)' = PlacedBefore(i) \cup {i}
    BY <1>1, <1>2, <1>3, <2>3 DEF PlacedBefore, IsReplaced
  <2>5. LaidOut(ents', PlacedBefore(i)', pos' - at[Ramdisk])
    BY <2>3, <2>4, Zenon
  <2> QED
    BY <1>1, <1>2, <2>5 DEF EntriesInv, Ramdisk
<1> QED
  BY <1>5, <1>6

(* The ramdisk ends where its last entry does. *)
LEMMA RamdiskPlaced ==
  ASSUME PatchInv, EntriesInv, CloseRamdisk
  PROVE  EntriesInv'
<1>1. /\ pc = "kept" /\ i > Len(ents) /\ pc' = "body" /\ UNCHANGED <<src, ents>>
      /\ len' = [len EXCEPT ![Ramdisk] = pos - at[Ramdisk]]
  BY DEF CloseRamdisk, CloseBlock
<1>2. DOMAIN ents = 1 .. Len(ents) /\ Len(ents) \in Nat /\ i \in Nat
  BY <1>1, LoopFacts
<1>3. \A k \in DOMAIN ents : k < i
  BY <1>1, <1>2
<1>4. PlacedBefore(i) = DOMAIN ents
  BY <1>3 DEF PlacedBefore
<1>5. len'[Ramdisk] = pos - at[Ramdisk]
  BY <1>1 DEF PatchInv, PatchTypeOK, Ramdisk, Blocks
<1> QED
  BY <1>1, <1>4, <1>5 DEF EntriesInv

-----------------------------------------------------------------------------
(* The theorem. *)

(* The table and the ramdisk are empty when patch() begins. *)
LEMMA EntriesEntered ==
  PatchInit => EntriesInv
<1> SUFFICES ASSUME NEW s \in ParsedImage, NEW r \in Request, PatchStart(s, r)
             PROVE  EntriesInv
  BY DEF PatchInit
<1> QED
  BY DEF PatchStart, NothingWritten, EntriesInv, Ramdisk

(* Every step of the writer keeps the entries inside the new ramdisk. *)
LEMMA EntriesStep ==
  ASSUME PatchInv, EntriesInv, [PatchNext]_patchVars
  PROVE  EntriesInv'
<1>1. CASE StartEntries \/ WriteReplacedEntry \/ ReplacedDone \/ WriteKeptEntry
           \/ CloseRamdisk
  BY <1>1, EntriesStarted, ReplacementPlaced, ReplacementsPlaced, KeptPlaced,
     RamdiskPlaced
(* The other blocks leave the ramdisk and its entries alone. *)
<1>2. CASE WriteKernel \/ WriteRamdisk \/ WriteBlock \/ WriteSignature \/ NoTable
           \/ CloseTable
  <2>1. PICK end \in Nat : CloseBlock(nxt, end)
    BY <1>2, ClosingShape
  <2>2. pc' = "body" /\ UNCHANGED <<src, ents>>
    BY <1>2
    DEF WriteKernel, WriteRamdisk, WriteBlock, WriteSignature, NoTable, CloseTable
  <2>3. nxt \in 1 .. 10 /\ len \in [Blocks -> Nat]
    BY DEF PatchInv, PatchTypeOK
  <2>4. nxt' = nxt + 1 /\ len' = [len EXCEPT ![nxt] = end - at[nxt]]
    BY <2>1 DEF CloseBlock
  <2>5. nxt' > Ramdisk /\ src.vendor => nxt > Ramdisk
    <3>1. nxt = Ramdisk => ~src.vendor
      BY <1>2
      DEF WriteKernel, WriteRamdisk, WriteBlock, WriteSignature, NoTable,
          CloseTable, PatchInv, Position, Kernel, Ramdisk, Second, Extra,
          RecoveryDtbo, Dtb, Signature, VendorTable, Bootconfig
    <3> QED
      BY <2>3, <2>4, <3>1 DEF Ramdisk
  <2>6. nxt > Ramdisk => len'[Ramdisk] = len[Ramdisk]
    BY <2>3, <2>4 DEF Ramdisk, Blocks
  <2> QED
    BY <2>2, <2>5, <2>6 DEF EntriesInv
<1>3. CASE WriteWrapper \/ WriteHeader
  BY <1>3 DEF WriteWrapper, WriteHeader, EntriesInv, PatchInv, Position, Ramdisk
<1>4. CASE StartTable \/ WriteTableEntry \/ WriteTail
  BY <1>4 DEF StartTable, WriteTableEntry, WriteTail, EntriesInv, bodyVars
<1>5. CASE \/ StoreSize \/ StoreDtboOffset \/ SizesDone \/ SealWrapper
           \/ WriteFails
  <2>1. UNCHANGED <<src, nxt, at, len, ents>>
    BY <1>5
    DEF StoreSize, StoreDtboOffset, SizesDone, SealWrapper, WriteFails, bodyVars
  <2>2. pc' \notin {"replaced", "kept"}
    <3>1. CASE StoreSize \/ StoreDtboOffset
      BY <3>1 DEF StoreSize, StoreDtboOffset
    <3>2. CASE SizesDone \/ SealWrapper \/ WriteFails
      BY <3>2 DEF SizesDone, SealWrapper, WriteFails
    <3> QED
      BY <1>5, <3>1, <3>2
  <2> QED
    BY <2>1, <2>2 DEF EntriesInv
<1>6. CASE UNCHANGED patchVars
  BY <1>6 DEF patchVars, EntriesInv, PlacedByIndex, PlacedBefore, IsReplaced
<1> QED
  BY <1>1, <1>2, <1>3, <1>4, <1>5, <1>6 DEF PatchNext

(* Entries one behind the other share no byte. *)
LEMMA EntriesApart ==
  ASSUME PatchInv, EntriesInv
  PROVE  EntriesDisjoint
  BY DEF PatchInv, Position, BehindBody, EntriesInv, EntriesDisjoint, LaidOut,
         Ramdisk

(* However many vendor ramdisks an image has and whatever is asked for, in *)
(* whatever order and however often, the recorded extents are disjoint     *)
(* parts of the new ramdisk, unless it is longer than 32 bits can say.     *)
THEOREM PatchEntriesDisjoint == PatchSpec => []EntriesDisjoint
<1>1. PatchInv /\ EntriesInv => EntriesDisjoint
  BY EntriesApart
<1> QED
  BY <1>1, EntriesEntered, EntriesStep, PatchInvariant, PTL DEF PatchSpec

=============================================================================
