---------------------------- MODULE MCRoundTrip ----------------------------
(***************************************************************************)
(* TLC instances of RoundTrip: complete images of every layout with sizes  *)
(* around a page, with and without a kernel_dtb, an MTK header, a wrapper  *)
(* and an AVB footer.  U32 is 65536 here.                                  *)
(***************************************************************************)
EXTENDS RoundTrip

MCEncodedLens == {3, 9000}

Raw(n) == [len |-> n, packed |-> FALSE]
Packed(n) == [len |-> n, packed |-> TRUE]

(* A device tree of 100 bytes. *)
Tree(d) == [at |-> d, total |-> 100, struct |-> 56, begin |-> TRUE]

(* An image of the given version with k bytes of kernel, r of ramdisk and  *)
(* x of each further block of its layout, and a device tree in the kernel. *)
BootImage(v, p, k, r, x, n, mtk, d) ==
  [magic |-> "ANDROID!", version |-> v, pageField |-> p,
   size |-> [b \in Blocks |->
               IF ~HasSize(LayoutOf("ANDROID!", v), b) THEN 0
               ELSE CASE b = Kernel -> k [] b = Ramdisk -> r [] OTHER -> x],
   entrySize |-> 0, table |-> <<>>, len |-> n,
   mtkKernel |-> mtk, mtkRamdisk |-> mtk,
   fdts |-> IF d = 0 \/ k = 0 THEN <<>> ELSE <<Tree(d)>>]

(* What BootImage::parse finds around the blocks of an image with g more   *)
(* bytes than a wrapper in front.                                          *)
Around(w, g, packed, avb) ==
  [wrapper |-> w, payloadOff |-> WrapperLen[w] + g, kernelPacked |-> TRUE,
   ramdiskPacked |-> packed, avb |-> avb]

NoAvb == [has |-> FALSE, len |-> 0]
Avb == [has |-> TRUE, len |-> 100]
CutAvb == [has |-> TRUE, len |-> 3]

BootFiles ==
  {[file |-> Around(w, 0, FALSE, a), image |-> BootImage(v, 2048, k, 700, 2049, n, FALSE, 3900)] :
     w \in {"none", "dhtb"}, a \in {NoAvb, Avb}, v \in {0, 2, 4},
     k \in {0, 4096}, n \in {20480, 65000}}

(* The images for which every block is replaced.                           *)
WideFiles ==
  {[file |-> Around("none", 0, TRUE, NoAvb), image |-> BootImage(v, 2048, 4040, 2048, 2049, 22528, FALSE, 3900)] :
     v \in {0, 2, 4}}

OddFiles ==
  {[file |-> Around(w, 0, FALSE, NoAvb), image |-> BootImage(v, p, k, r, 0, n, mtk, d)] :
     w \in {"blob", "acclaim"}, v \in {3, 5}, p \in {0, 2048}, k \in {4609},
     r \in {0, 513}, n \in {8192, 14336}, mtk \in BOOLEAN, d \in {0, 3900}}

(* A pre-header is copied from behind the payload's offset: it is there in *)
(* the larger file only.                                                   *)
HookedFiles ==
  {[file |-> Around(w, g, FALSE, NoAvb), image |-> BootImage(0, 2048, 4040, 0, 0, n, FALSE, 3900)] :
     w \in {"nookhd", "acclaim"}, g \in {0, 3}, n \in {16384, 1048576 + 5}}

(* Vendor images: the layout has no kernel_size. *)
VendorImage(v, r, t) ==
  [BootImage(0, 2048, 0, 0, 0, 20480, FALSE, 0) EXCEPT
     !.magic = "VNDRBOOT", !.version = v,
     !.size = [b \in Blocks |-> CASE b = Ramdisk -> r [] b = Dtb -> 100
                                  [] b = VendorTable -> IF v = 4 THEN 324 ELSE 0
                                  [] OTHER -> 0],
     !.entrySize = 108,
     !.table = t]

Tables ==
  {<<>>, <<[off |-> 0, len |-> 400], [off |-> 512, len |-> 188]>>,
   <<[off |-> 0, len |-> 300], [off |-> 300, len |-> 0], [off |-> 300, len |-> 400]>>}

VendorFiles ==
  {[file |-> Around("none", 0, TRUE, NoAvb), image |-> VendorImage(v, r, t)] :
     v \in {3, 4}, r \in {0, 700}, t \in Tables}

MCFiles == BootFiles \cup WideFiles \cup OddFiles \cup HookedFiles \cup VendorFiles
  \cup {[file |-> Around("none", 0, TRUE, a), image |-> VendorImage(3, 700, <<>>)] :
           a \in {Avb, CutAvb}}

-----------------------------------------------------------------------------
(* What a new kernel may hold: nothing, or two trees in the first tags of  *)
(* which kernels of 3585 and of 4237 bytes end.                            *)
MCKernelFdts ==
  {<<>>, <<[at |-> 3400, total |-> 100, struct |-> 183, begin |-> FALSE],
           [at |-> 4000, total |-> 200, struct |-> 235, begin |-> FALSE]>>}

MCRows == {[off |-> 0, len |-> 400], [off |-> 400, len |-> 400]}

-----------------------------------------------------------------------------
(* Replacements that are shorter and longer than what they replace, need an*)
(* encoder, or are longer than a size field can say.                       *)
BlockRequests ==
  {[NothingReplaced EXCEPT !.replace[b] = d, !.noCompress = n] :
     b \in {Kernel, Ramdisk}, d \in {Raw(1), Packed(4097)}, n \in BOOLEAN}
  \cup {[NothingReplaced EXCEPT !.replace[b] = Raw(70000)] :
          b \in {Extra, Dtb, Bootconfig}}

FewRequests ==
  {NothingReplaced,
   [NothingReplaced EXCEPT !.cmdline = "long"],
   [NothingReplaced EXCEPT !.kdtb = Raw(4096), !.cmdline = "fits"],
   [NothingReplaced EXCEPT !.replace[Kernel] = Raw(70000), !.noCompress = TRUE]}
  \cup {[NothingReplaced EXCEPT !.replace[b] = Raw(4097)] :
          b \in {Kernel, Ramdisk, RecoveryDtbo}}

(* Two of the same index, an index that is not there, and the other order. *)
VendorRequests ==
  {[NothingReplaced EXCEPT !.vendor = v] :
     v \in {<<[idx |-> 2, data |-> Raw(9)], [idx |-> 1, data |-> Raw(8)]>>,
            <<[idx |-> 1, data |-> Raw(5)], [idx |-> 1, data |-> Packed(2)]>>,
            <<[idx |-> 2, data |-> Packed(70000)], [idx |-> 1, data |-> Raw(8)]>>,
            <<[idx |-> 4, data |-> Raw(5)], [idx |-> 3, data |-> Raw(5)]>>}}

MCRequestsFor(s) ==
  FewRequests
  \cup (IF s.vendor THEN VendorRequests ELSE {})
  \cup (IF s.fileLen = 22528 THEN BlockRequests ELSE {})

NothingRequests(s) == {NothingReplaced}
=============================================================================
