----------------------------- MODULE Workspace -----------------------------
(***************************************************************************)
(* The unpack, split and repack commands (main.rs) and the directory they  *)
(* run in.                                                                 *)
(*                                                                         *)
(* cmd_unpack dumps the parts of an image one by one into files with fixed *)
(* names, cmd_split those of the kernel only, the user may replace files,  *)
(* and cmd_repack takes whatever it finds under those names.  The directory*)
(* is the only memory between the commands, and nothing in it says which   *)
(* image a file came from.  Every dump can fail, a compressed block may    *)
(* turn out not to decompress or to decompress in part without an error,   *)
(* and a file that cannot be read counts as not being there.               *)
(***************************************************************************)
EXTENDS Naturals, Sequences, FiniteSets

CONSTANTS
  Images,     \* the images the commands are run on
  PartsOf,    \* the parts of each image, in the order of cmd_unpack
  FileNames,  \* the files the parts are dumped to
  NONE

(* The files that cmd_repack reads whether or not the image has the part.  *)
Unguarded == FileNames \cap
             {"second", "extra", "recovery_dtbo", "dtb", "bootconfig"}

(* A part of an image with the file cmd_unpack dumps it to.  Only the      *)
(* kernel and the ramdisks are decompressed; part distinguishes vendor     *)
(* ramdisks of the same name, which share a file, and is 0 for the bytes of*)
(* the user.  cut is a packed block, an LZ4 stream, whose decoder stops at *)
(* a block that does not decompress and reports the end of the data.       *)
Part == [file : FileNames, part : Nat \ {0}, packed : 0 .. 1, cut : BOOLEAN]

ASSUME ImagesAssumption ==
  /\ PartsOf \in [Images -> Seq(Part)]
  /\ "user" \notin Images /\ NONE \notin Images
  /\ \A a \in Images : \A j, m \in DOMAIN PartsOf[a] :
       /\ PartsOf[a][j].file \in Unguarded \cup {"kernel_dtb"} => PartsOf[a][j].packed = 0
       /\ PartsOf[a][j].cut => PartsOf[a][j].packed = 1
       /\ j # m => PartsOf[a][j].part # PartsOf[a][m].part

VARIABLES
  files,    \* the directory: what each file holds, NONE if it is not there
  cmd,      \* the command that runs
  k,        \* cmd_unpack and cmd_split: the part that is dumped next
  fresh,    \* the image whose unpack was the last command, but for splits of
            \* the same image, if it was complete
  edited,   \* the files the user has replaced since
  out       \* what the last repack wrote, NONE if it did not finish or if
            \* the directory has changed since

vars == <<files, cmd, k, fresh, edited, out>>

(* What a file or a part of an output holds: bytes of a part of an image or*)
(* of the user, compressed packed times, completely or cut short.          *)
Content == [from : Images \cup {"user"}, part : Nat, packed : 0 .. 1,
            whole : BOOLEAN]

Idle == [name |-> "idle"]
Dump(name, a, raw) == [name |-> name, image |-> a, raw |-> raw]

Dumps == {"unpack", "split"}

Commands ==
  {Idle} \cup {Dump(n, a, raw) : n \in Dumps, a \in Images, raw \in BOOLEAN}

(* cmd_unpack dumps every part, cmd_split the kernel and its dtb.          *)
IsDumped(c, p) == c.name = "unpack" \/ p.file \in {"kernel", "kernel_dtb"}

(* A repack: its image, its flag, what each part of its output holds, and  *)
(* the files that were added although the image has no such part.          *)
Outputs == [image : Images, noCompress : BOOLEAN, parts : Seq(Content),
            added : SUBSET FileNames]

WorkspaceTypeOK ==
  /\ files \in [FileNames -> Content \cup {NONE}]
  /\ cmd \in Commands
  /\ cmd # Idle => k \in 1 .. Len(PartsOf[cmd.image]) + 1
  /\ fresh \in Images \cup {NONE}
  /\ edited \subseteq FileNames
  /\ out \in Outputs \cup {NONE}
  /\ out # NONE => Len(out.parts) = Len(PartsOf[out.image])

Init ==
  /\ files = [f \in FileNames |-> NONE]
  /\ cmd = Idle
  /\ k = 1
  /\ fresh = NONE
  /\ edited = {}
  /\ out = NONE

-----------------------------------------------------------------------------
(* cmd_unpack and cmd_split. *)

(* Mutant of FirstPart: off by one. *)
ZeroBased == 0

FirstPart == 1

(* A split of the image that was unpacked dumps parts of it again.         *)
StartDump(name, a, raw) ==
  /\ cmd = Idle
  /\ cmd' = Dump(name, a, raw)
  /\ k' = FirstPart
  /\ fresh' = IF name = "split" /\ fresh = a THEN fresh ELSE NONE
  /\ out' = NONE
  /\ UNCHANGED <<files, edited>>

(* What dump_block leaves in the file when it returns without an error.    *)
Dumped(p) == [from |-> cmd.image, part |-> p.part,
              packed |-> IF cmd.raw THEN p.packed ELSE 0,
              whole |-> cmd.raw \/ ~p.cut]

(* The parts from k on that are dumped, and the first of them.             *)
Remaining == {j \in DOMAIN PartsOf[cmd.image] : j >= k /\ IsDumped(cmd, PartsOf[cmd.image][j])}

IsNext(j) == j \in Remaining /\ \A i \in Remaining : j <= i

DumpPart ==
  /\ cmd # Idle
  /\ \E j \in DOMAIN PartsOf[cmd.image] :
       LET p == PartsOf[cmd.image][j] IN
       /\ IsNext(j)
       /\ files' = [files EXCEPT ![p.file] = Dumped(p)]
       /\ edited' = edited \ {p.file}
       /\ k' = j + 1
  /\ UNCHANGED <<cmd, fresh, out>>

(* Mutant of AfterFailure: the error is dropped. *)
DumpNext == cmd
AfterFailure == Idle

(* Opening the file fails, or the decoder or a write does once the file is *)
(* truncated; the command returns the error.                               *)
DumpFails ==
  /\ cmd # Idle
  /\ \E j \in DOMAIN PartsOf[cmd.image] :
       LET p == PartsOf[cmd.image][j] IN
       /\ IsNext(j)
       /\ \/ UNCHANGED <<files, edited>>
          \/ /\ files' = [files EXCEPT ![p.file] = [Dumped(p) EXCEPT !.whole = FALSE]]
             /\ edited' = edited \ {p.file}
       /\ k' = j + 1
  /\ cmd' = AfterFailure
  /\ fresh' = IF cmd' = Idle THEN NONE ELSE fresh
  /\ UNCHANGED out

DumpDone ==
  /\ cmd # Idle /\ Remaining = {}
  /\ IF cmd.name = "unpack"
     THEN fresh' = cmd.image /\ edited' = {}
     ELSE UNCHANGED <<fresh, edited>>
  /\ cmd' = Idle
  /\ UNCHANGED <<files, k, out>>

(* Between two commands the user replaces a file. *)
UserEdit(f, packed) ==
  /\ cmd = Idle
  /\ files' = [files EXCEPT ![f] = [from |-> "user", part |-> 0,
                                    packed |-> packed, whole |-> TRUE]]
  /\ edited' = edited \cup {f}
  /\ out' = NONE
  /\ UNCHANGED <<cmd, k, fresh>>

-----------------------------------------------------------------------------
(* cmd_repack. *)

Original(a, p) == [from |-> a, part |-> p.part, packed |-> p.packed,
                   whole |-> TRUE]

(* Mutant of Repacked: compresses without looking at the replacement. *)
RepackedTwice(c, p, noCompress) ==
  [c EXCEPT !.packed = IF ~noCompress /\ p.packed = 1 THEN @ + 1 ELSE @]

(* write_block_optional: a replacement is compressed when the block was    *)
(* and the replacement is not.                                             *)
Repacked(c, p, noCompress) ==
  [c EXCEPT !.packed = IF ~noCompress /\ p.packed = 1 /\ @ = 0 THEN 1 ELSE @]

(* The guards of cmd_repack.                                               *)
IsRead(a, f) == f \in Unguarded \/ \E j \in DOMAIN PartsOf[a] : PartsOf[a][j].file = f

(* The whole command: unreadable are the files that fs::read fails on.     *)
Repack(a, noCompress, unreadable) ==
  LET found == {f \in FileNames \ unreadable : IsRead(a, f) /\ files[f] # NONE}
      own == {PartsOf[a][j].file : j \in DOMAIN PartsOf[a]}
      Written(p) == IF p.file \in found THEN Repacked(files[p.file], p, noCompress)
                    ELSE Original(a, p)
  IN /\ cmd = Idle
     /\ out' = [image |-> a, noCompress |-> noCompress,
                parts |-> [j \in DOMAIN PartsOf[a] |-> Written(PartsOf[a][j])],
                added |-> found \ own]
     /\ UNCHANGED <<files, cmd, k, fresh, edited>>

(* Parsing, opening the output or patching fails.                          *)
RepackFails ==
  /\ cmd = Idle
  /\ out' = NONE
  /\ UNCHANGED <<files, cmd, k, fresh, edited>>

Next ==
  \/ \E n \in Dumps, a \in Images, raw \in BOOLEAN : StartDump(n, a, raw)
  \/ DumpPart \/ DumpFails \/ DumpDone
  \/ \E f \in FileNames, packed \in 0 .. 1 : UserEdit(f, packed)
  \/ \E a \in Images, n \in BOOLEAN, u \in SUBSET FileNames : Repack(a, n, u)
  \/ RepackFails

Spec == Init /\ [][Next]_vars

-----------------------------------------------------------------------------
(* Properties. *)

(* A complete unpack makes up for everything that happened in the directory*)
(* before: torn files, files of other images, edits.  A repack of the same *)
(* image then takes each part from the image, from the file it was dumped  *)
(* to, or from the user who replaced that file since; never cut short, but *)
(* for a block whose decoder stops without an error, and never another     *)
(* part's bytes unless two vendor ramdisks share a name.                   *)
OwnParts ==
  out # NONE /\ fresh = out.image =>
    \A j \in DOMAIN out.parts :
      LET c == out.parts[j]  p == PartsOf[out.image][j] IN
        \/ c.from = "user" /\ c.whole /\ p.file \in edited
        \/ /\ c.from = out.image
           /\ \E m \in DOMAIN PartsOf[out.image] :
                /\ PartsOf[out.image][m].file = p.file
                /\ PartsOf[out.image][m].part = c.part
                /\ c.whole \/ PartsOf[out.image][m].cut

(* Unpacking and repacking keeps a compressed block compressed, once, and  *)
(* an uncompressed one as it is, with or without --no-decompress and       *)
(* whatever the user did with the files, unless --no-compress is given or  *)
(* the file holds another vendor ramdisk of the same name.                 *)
FormatKept ==
  out # NONE /\ fresh = out.image /\ ~out.noCompress =>
    \A j \in DOMAIN out.parts :
      LET c == out.parts[j]  p == PartsOf[out.image][j] IN
        /\ p.packed = 1 => c.packed = 1
        /\ p.packed = 0 /\ c.part = p.part => c.packed = 0
=============================================================================
