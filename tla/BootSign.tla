------------------------------ MODULE BootSign ------------------------------
(***************************************************************************)
(* Signing and verifying an image in place (main.rs cmd_sign, cmd_verify,  *)
(* sign.rs).                                                               *)
(*                                                                         *)
(* The file is a sequence of cells.  The first BodyLen are the header and  *)
(* the blocks, up to tail_offset; what lies behind them may be anything,   *)
(* an AVB vbmeta and a footer in the last cells among it.  cmd_sign writes *)
(* forward from tail_offset and may stop anywhere: the next command finds  *)
(* the file as it was left.  Between two such commands hexpatch and        *)
(* dtb-patch change cells anywhere in the file, or leave only a beginning  *)
(* of it: they write it from nothing.  An edit that moves tail_offset (the *)
(* sizes in the header) or makes a magic by itself is left out.            *)
(***************************************************************************)
EXTENDS Naturals, Sequences, FiniteSets

CONSTANTS
  BodyLen,   \* tail_offset - payload_offset
  SigSize,   \* BOOT_SIGNATURE_SIZE, 32 K
  AvbLen,    \* the length of a vbmeta, and of a footer
  MaxTail,   \* bound: the length of what lies behind the body
  MaxEdits,  \* bound: the number of edits
  MaxCells   \* bound: the cells that one edit changes

ASSUME SigSizeAssumption == SigSize \in Nat \ {0}
ASSUME LensAssumption == {BodyLen, MaxTail, MaxEdits, MaxCells} \subseteq Nat
ASSUME AvbLenAssumption == AvbLen \in Nat \ {0}

VARIABLES
  file,     \* the cells
  version,  \* the file's, counted by the edits
  cmd,      \* cmd_sign, or idle
  pos,      \* where it writes
  signed,   \* has the last cmd_sign come to its end, with no edit since?
  verdict   \* what cmd_verify printed last, of the file as it is

vars == <<file, version, cmd, pos, signed, verdict>>

(* A cell: which part of what it holds, and for a signature the version of *)
(* the file that was signed.                                               *)
Cell(what, k, v) == [what |-> what, k |-> k, v |-> v]
Kinds == {"body", "old", "vbmeta", "footer", "sig", "zero", "edit"}
Zero == Cell("zero", 0, 0)
Edited == Cell("edit", 0, 0)

(* A cell of the signature: "Brsgn" and the signature, padded to SigSize.  *)
SigCell(k) == Cell("sig", k, version)

SignTypeOK ==
  /\ file \in Seq([what : Kinds, k : Nat, v : 0 .. MaxEdits])
  /\ version \in 0 .. MaxEdits
  /\ cmd \in {"idle", "sig", "fill"}
  /\ pos \in Nat
  /\ cmd # "idle" => pos \in BodyLen + 1 .. Len(file) + 1
  /\ signed \in BOOLEAN
  /\ verdict \in {"none", "signed", "unsigned", "error"}

(* An image as it is built: at offset v of the tail the vbmeta, and the    *)
(* footer at the end of the file; or a tail without either.                *)
Behind(n, avb, v) ==
  [i \in 1 .. n |->
     IF avb /\ i > n - AvbLen THEN Cell("footer", i - (n - AvbLen) - 1, 0)
     ELSE IF avb /\ i > v /\ i <= v + AvbLen THEN Cell("vbmeta", i - v - 1, 0)
     ELSE Cell("old", 0, 0)]

Body == [i \in 1 .. BodyLen |-> Cell("body", i, 0)]

Init ==
  /\ \E n \in 0 .. MaxTail :
       \/ file = Body \o Behind(n, FALSE, 0)
       \/ \E v \in 0 .. n : v + 2 * AvbLen <= n /\ file = Body \o Behind(n, TRUE, v)
  /\ version = 0 /\ cmd = "idle" /\ pos = BodyLen + 1
  /\ signed = FALSE /\ verdict = "none"

-----------------------------------------------------------------------------

(* hexpatch or dtb-patch: the whole file is read, changed in place and     *)
(* written again from nothing.  A write that fails leaves the n cells it   *)
(* has written.                                                            *)
Edit ==
  /\ cmd = "idle" /\ version < MaxEdits
  /\ \E at \in SUBSET DOMAIN file, n \in 0 .. Len(file) :
       /\ Cardinality(at) <= MaxCells
       /\ file' = [i \in 1 .. n |-> IF i \in at THEN Edited ELSE file[i]]
  /\ version' = version + 1
  /\ signed' = FALSE /\ verdict' = "none"
  /\ UNCHANGED <<cmd, pos>>

(* BootImage::parse finds all blocks. *)
Opens == Len(file) >= BodyLen

(* cmd_sign: the signature is computed before the file is opened, so an    *)
(* image that cannot be read or a key that cannot be loaded leaves it      *)
(* alone.                                                                  *)
StartSign ==
  /\ cmd = "idle" /\ Opens
  /\ cmd' = "sig" /\ pos' = BodyLen + 1
  /\ signed' = FALSE /\ verdict' = "none"
  /\ UNCHANGED <<file, version>>

(* A write; behind the end of the file it leaves a hole of zeros. *)
Put(i, c) ==
  [j \in 1 .. (IF i > Len(file) THEN i ELSE Len(file)) |->
     IF j = i THEN c ELSE IF j <= Len(file) THEN file[j] ELSE Zero]

SigEnd == BodyLen + SigSize

(* Mutant of Target: the magic is written last, when the rest is there. *)
MagicLast == IF pos = SigEnd THEN BodyLen + 1 ELSE pos + 1

Target == pos

WriteSig ==
  /\ cmd = "sig" /\ pos <= SigEnd
  /\ file' = Put(Target, SigCell(Target - BodyLen - 1))
  /\ pos' = pos + 1
  /\ UNCHANGED <<version, cmd, signed, verdict>>

(* Mutant of FillStart: the zeros are written where the file is positioned *)
(* after the search for its end.                                           *)
FillAtEnd == Len(file) + 1

(* Mutant of FillStart: off by one. *)
FillOneBehind == SigEnd + 2

FillStart == SigEnd + 1

(* What is left of the old file behind the signature becomes zero. *)
StartFill ==
  /\ cmd = "sig" /\ pos = SigEnd + 1
  /\ cmd' = "fill" /\ pos' = FillStart
  /\ UNCHANGED <<file, version, signed, verdict>>

Fill ==
  /\ cmd = "fill" /\ pos <= Len(file)
  /\ file' = Put(pos, Zero)
  /\ pos' = pos + 1
  /\ UNCHANGED <<version, cmd, signed, verdict>>

SignDone ==
  /\ cmd = "fill" /\ pos > Len(file)
  /\ cmd' = "idle" /\ signed' = TRUE
  /\ UNCHANGED <<file, version, pos, verdict>>

(* A write fails, or the program is killed. *)
SignFails ==
  /\ cmd # "idle"
  /\ cmd' = "idle"
  /\ UNCHANGED <<file, version, pos, signed, verdict>>

(* verify_boot_image: the magic, SigSize before the end of the file. *)
MagicAt(i) == i \in DOMAIN file /\ file[i].what = "sig" /\ file[i].k = 0

Verifies == Len(file) >= SigSize /\ MagicAt(Len(file) - SigSize + 1)

Verify ==
  /\ cmd = "idle"
  /\ verdict' = IF ~Opens THEN "error" ELSE IF Verifies THEN "signed" ELSE "unsigned"
  /\ UNCHANGED <<file, version, cmd, pos, signed>>

Next ==
  \/ Edit
  \/ StartSign \/ WriteSig \/ StartFill \/ Fill \/ SignDone \/ SignFails
  \/ Verify

Spec == Init /\ [][Next]_vars

-----------------------------------------------------------------------------
(* Properties. *)

Last == Len(file) - AvbLen + 1

(* BootImage::parse sees a footer at the end of the file and a vbmeta.     *)
SeesAvb ==
  /\ Len(file) >= BodyLen + AvbLen
  /\ file[Last] = Cell("footer", 0, 0)
  /\ \E i \in DOMAIN file : file[i] = Cell("vbmeta", 0, 0)

(* A cell holds what was written there, unless somebody edited it since. *)
IsOr(i, c) == file[i] \in {c, Edited}

(* However cmd_sign was cut short, and again by the next one, and with     *)
(* edits and half written files in between: an AVB structure that the      *)
(* reader still accepts is whole, without any part of a signature in it.   *)
(* Writing forward destroys a magic before what lies behind it.            *)
AvbSeenIsWhole ==
  SeesAvb =>
    /\ \A k \in 0 .. AvbLen - 1 : IsOr(Last + k, Cell("footer", k, 0))
    /\ \A i \in DOMAIN file : file[i] = Cell("vbmeta", 0, 0) =>
         \A k \in 0 .. AvbLen - 1 :
           i + k <= Len(file) /\ IsOr(i + k, Cell("vbmeta", k, 0))

(* Once cmd_sign is done the file holds the body, one signature of the     *)
(* body as it is, and zeros: nothing of an older tail, of an edit behind   *)
(* the body or of a signature that was cut short is left for the reader to *)
(* find, and the body is still all there.                                  *)
SignedFileIsClean ==
  signed /\ cmd = "idle" =>
    /\ \A i \in DOMAIN file :
         IF i <= BodyLen THEN IsOr(i, Cell("body", i, 0))
         ELSE file[i] = IF i <= SigEnd THEN SigCell(i - BodyLen - 1) ELSE Zero
    /\ ~SeesAvb

(* main.rs: "Sign boot image with AVB 1.0 signature".  An image that was   *)
(* signed and not changed since is said to be signed.                      *)
SignedVerifies ==
  signed /\ cmd = "idle" /\ verdict # "none" => verdict = "signed"
=============================================================================
