----------------------------- MODULE PatchedFile ------------------------------
(***************************************************************************)
(* The file of a command that patches a copy of it in memory and writes it *)
(* back, hex-patch and dtb-patch (main.rs cmd_hexpatch, cmd_dtb_patch).    *)
(***************************************************************************)

VARIABLES
  disk,   \* the file
  whole,  \* FALSE when a write of the file failed
  data    \* the copy in memory

(* fs::write truncates the file and writes it anew. *)
WriteBack ==
  \/ disk' = data /\ UNCHANGED whole
  \/ whole' = FALSE /\ UNCHANGED disk
=============================================================================
