---------------------------- MODULE MCWorkspace ----------------------------
(***************************************************************************)
(* TLC instance of Workspace: an image with a dtb and a vendor image with a*)
(* dtb and two ramdisks of the same name, in one directory; the second of  *)
(* the two does not decompress to its end.                                 *)
(***************************************************************************)
EXTENDS Workspace

P(file, part, packed, cut) ==
  [file |-> file, part |-> part, packed |-> packed, cut |-> cut]

MCImages == {"boot", "vendor"}
MCPartsOf ==
  [boot |-> <<P("kernel", 1, 1, FALSE), P("dtb", 2, 0, FALSE)>>,
   vendor |-> <<P("vendor_ramdisks/.cpio", 3, 0, FALSE),
                P("vendor_ramdisks/.cpio", 4, 1, TRUE), P("dtb", 5, 0, FALSE)>>]
MCFileNames == {"kernel", "vendor_ramdisks/.cpio", "dtb"}
=============================================================================
