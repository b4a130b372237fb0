---------------------------- MODULE BootLayouts ----------------------------
(***************************************************************************)
(* The header layouts of Android boot and vendor boot images               *)
(* (layouts.rs), the accessors generated from them and the choice of a     *)
(* layout by BootHeader::parse (parser.rs).                                *)
(*                                                                         *)
(* A layout is the set of the fields it declares: the code represents an   *)
(* undeclared field by offset 0 and every has_<field>() tests for that.    *)
(***************************************************************************)
EXTENDS Naturals

(* utils.rs: align_to and align_padding. *)
Align(v, a) == ((v + a - 1) \div a) * a
Padding(v, a) == Align(v, a) - v

-----------------------------------------------------------------------------
(* The ifields and sfields of each layout; a layout that inherits another  *)
(* adds to its fields.  extra_size is declared by no layout that the       *)
(* header parser selects: only the PXA layout, which it never does, has it.*)

V0Fields == {"kernel_size", "ramdisk_size", "second_size", "page_size",
             "header_version", "os_version", "name", "cmdline", "id",
             "extra_cmdline"}
V1Fields == V0Fields \cup {"recovery_dtbo_size", "recovery_dtbo_offset",
                           "header_size"}
V2Fields == V1Fields \cup {"dtb_size"}
V3Fields == {"kernel_size", "ramdisk_size", "header_version", "os_version",
             "cmdline"}
V4Fields == V3Fields \cup {"signature_size"}
Vendor3Fields == {"page_size", "ramdisk_size", "header_version", "dtb_size",
                  "cmdline", "name"}
Vendor4Fields == Vendor3Fields \cup
                 {"vendor_ramdisk_table_size", "vendor_ramdisk_table_entry_num",
                  "vendor_ramdisk_table_entry_size", "bootconfig_size"}

Fields == [BOOT_HEADER_V0 |-> V0Fields,
           BOOT_HEADER_V1 |-> V1Fields,
           BOOT_HEADER_V2 |-> V2Fields,
           BOOT_HEADER_V3 |-> V3Fields,
           BOOT_HEADER_V4 |-> V4Fields,
           VENDOR_BOOT_HEADER_V3 |-> Vendor3Fields,
           VENDOR_BOOT_HEADER_V4 |-> Vendor4Fields]

Layouts == DOMAIN Fields

(* total_size of each layout: the bytes of the header proper. *)
TotalSize == [BOOT_HEADER_V0 |-> 1632,
              BOOT_HEADER_V1 |-> 1648,
              BOOT_HEADER_V2 |-> 1660,
              BOOT_HEADER_V3 |-> 1580,
              BOOT_HEADER_V4 |-> 1584,
              VENDOR_BOOT_HEADER_V3 |-> 2112,
              VENDOR_BOOT_HEADER_V4 |-> 2128]

-----------------------------------------------------------------------------
(* BootHeader::parse and page_size_val. *)

(* The layout for a magic and the header_version the image carries: an     *)
(* unknown version falls back to the oldest layout of its family.          *)
LayoutOf(magic, version) ==
  IF magic = "VNDRBOOT"
  THEN IF version = 4 THEN "VENDOR_BOOT_HEADER_V4" ELSE "VENDOR_BOOT_HEADER_V3"
  ELSE CASE version = 1 -> "BOOT_HEADER_V1"
         [] version = 2 -> "BOOT_HEADER_V2"
         [] version = 3 -> "BOOT_HEADER_V3"
         [] version = 4 -> "BOOT_HEADER_V4"
         [] OTHER       -> "BOOT_HEADER_V0"

(* Boot images of version 3 and later have a fixed page size; the others   *)
(* carry it in the header.                                                 *)
PageSizeVal(magic, version, pageField) ==
  IF magic = "ANDROID!" /\ version >= 3 THEN 4096 ELSE pageField

HdrSpace(layout, page) == Align(TotalSize[layout], page)

-----------------------------------------------------------------------------
(* The blocks of an image in the order in which both the parser walks them *)
(* and the patcher writes them, each with the header field of its size.    *)

Kernel       == 1
Ramdisk      == 2
Second       == 3
Extra        == 4
RecoveryDtbo == 5
Dtb          == 6
Signature    == 7
VendorTable  == 8
Bootconfig   == 9
Blocks       == 1 .. 9

SizeField == <<"kernel_size", "ramdisk_size", "second_size", "extra_size",
               "recovery_dtbo_size", "dtb_size", "signature_size",
               "vendor_ramdisk_table_size", "bootconfig_size">>

(* has_<block>_size() *)
HasSize(layout, b) == SizeField[b] \in Fields[layout]

(* VendorRamdiskTableEntry::SIZE *)
TableEntrySize == 108
=============================================================================
