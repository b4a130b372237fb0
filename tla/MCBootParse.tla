---------------------------- MODULE MCBootParse -----------------------------
(***************************************************************************)
(* TLC instance of BootParse.  Every short file of marks, and longer ones  *)
(* of some of them, in front of two images; wrappers are one to four marks *)
(* long and cover each other, headers and the end of the file.  And behind *)
(* a plain header images of every layout, whose sizes lie just below, on   *)
(* and just above a page and whose lengths cut the image in the header, in *)
(* a block, in the padding and behind the last block.                      *)
(***************************************************************************)
EXTENDS BootParse

FilesOf(marks, n) == UNION {[1 .. k -> marks] : k \in 0 .. n}

MCScanFiles ==
  FilesOf(Marks, 3)
  \cup FilesOf({"other", "DHTB", "BLOB", "ANDROID!", "nookhd"}, 5)

MCWrapLen == [CHROMEOS |-> 4, DHTB |-> 3, BLOB |-> 1, nookhd |-> 3, acclaim |-> 2]

-----------------------------------------------------------------------------
(* k bytes of kernel, r of ramdisk, x of each block that only later        *)
(* layouts have, v of vendor ramdisk table.                                *)
Sizes(k, r, x, v) ==
  [b \in Blocks |-> CASE b = Kernel -> k
                      [] b = Ramdisk -> r
                      [] b \in {RecoveryDtbo, Dtb, Signature} -> x
                      [] b = VendorTable -> v
                      [] OTHER -> 0]

(* An image with the given sizes, of n bytes; its magic is the file's.     *)
Plain(v, p, size, n) ==
  [magic |-> "other", version |-> v, pageField |-> p, size |-> size,
   entrySize |-> 0, table |-> <<>>, len |-> n,
   mtkKernel |-> FALSE, mtkRamdisk |-> FALSE, fdts |-> <<>>]

(* Lengths of the file: page boundaries, one byte less and one byte more.  *)
Lengths == {1600, 2300, 2600, 6145, 12287, 16383} \cup
           {2048 * n : n \in 1 .. 7} \cup {4096 * n + 1 : n \in 1 .. 6}

BootImages ==
  {Plain(v, 2048, Sizes(k, r, x, 0), n) :
     v \in {0, 1, 2, 4, 5}, k \in {0, 1, 2049},
     r \in {0, 2048}, x \in {0, 1, 4097}, n \in Lengths}

OddImages ==
  {[Plain(1, p, Sizes(513, 1, 0, 0), n) EXCEPT !.mtkKernel = TRUE] :
     p \in {0, 1, 2048}, n \in {100, 1648, 2161, 2162, 2163, 6144}}

(* What may look like a device tree: too small, too large for the kernel,  *)
(* without a node, a tree, and one whose structure is at o.                *)
Tree(at, total, o, begin) ==
  [at |-> at, total |-> total, struct |-> o, begin |-> begin]

KernelFdts ==
  {<<Tree(at, t, o, begin)>> : at \in {0, 8, 400, 473, 474}, t \in {72, 73, 112, 113},
                              o \in {40, 108, 109, 112, 113}, begin \in BOOLEAN}
  \cup {<<Tree(4, 900, 56, TRUE), Tree(100, 200, 56, begin), Tree(300, 100, o, TRUE)>> :
         o \in {40, 210, 300}, begin \in BOOLEAN}

TreeImages ==
  {[Plain(0, 2048, Sizes(k, 1, 0, 0), 6144) EXCEPT !.fdts = s, !.mtkKernel = k > 512] :
     k \in {512, 1024}, s \in KernelFdts}

Entries == {<<>>,
            <<[off |-> 0, len |-> 100]>>,
            <<[off |-> 0, len |-> 100], [off |-> 100, len |-> 600]>>,
            <<[off |-> 100, len |-> 600], [off |-> 650, len |-> 100]>>,
            <<[off |-> 700, len |-> 0]>>, <<[off |-> 0, len |-> 701]>>}

VendorImages ==
  {[Plain(v, 2048, Sizes(0, r, 2049, t), n) EXCEPT
      !.entrySize = e, !.table = s, !.mtkRamdisk = mtk] :
     v \in {3, 4}, r \in {0, 700}, t \in {0, 107, 108, 216}, e \in {108, 100},
     s \in Entries, n \in {8192, 10240, 12288, 10348, 14336}, mtk \in BOOLEAN}

-----------------------------------------------------------------------------
NoFooter == [magic |-> FALSE, vbOff |-> 0, vbMagic |-> FALSE, vbSize |-> 0,
             origSize |-> 0]

(* Footers whose numbers lie in front of, in, on the border of and behind  *)
(* the tail of the image below, which begins at 6144.                      *)
Footers ==
  {[magic |-> TRUE, vbOff |-> o, vbMagic |-> m, vbSize |-> s, origSize |-> z] :
     o \in {0, 6144, 8192, 8700, 20000}, m \in BOOLEAN, s \in {1, 100, 508, 3000},
     z \in {0, 6144, 6145, 8192, 9000}}

Tailed(n) == Plain(1, 2048, Sizes(2048, 2048, 0, 0), n)

Input(marks, image, footer) == [marks |-> marks, image |-> image, foot |-> footer]

MCInputs ==
  {Input(f, i, NoFooter) : f \in MCScanFiles, i \in {Tailed(6144), Tailed(6143)}}
  \cup {Input(<<"ANDROID!">>, i, NoFooter) : i \in BootImages \cup OddImages \cup TreeImages}
  \cup {Input(<<"VNDRBOOT">>, i, NoFooter) : i \in VendorImages}
  \cup {Input(<<"ANDROID!">>, Tailed(n), t) : n \in {6207, 6208, 8192, 8764}, t \in Footers}
=============================================================================
