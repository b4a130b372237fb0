------------------------------ MODULE BootScan ------------------------------
(***************************************************************************)
(* The beginning of BootImage::parse (parser.rs): the scan for the header  *)
(* behind the wrappers of various vendors.  What follows, the header and   *)
(* the blocks, is BootBlocks; BootParse puts the two together.             *)
(*                                                                         *)
(* The file is a sequence of marks: the magic that begins at a position,   *)
(* if any.  Wrappers may be there or not, one in another, repeated or cut  *)
(* short, and a magic may be part of something else.                       *)
(***************************************************************************)
EXTENDS Naturals, Sequences

CONSTANTS
  ScanFiles,  \* the files that are scanned
  WrapLen,    \* the length of each wrapper, of the pre-headers as well
  HookRoom    \* the bytes of a header that must be there to look for hooks

Wrapping == {"CHROMEOS", "DHTB", "BLOB"}

(* A boot magic in front of nothing special, of a command line that begins *)
(* with a nookhd magic, or of a name that is acclaim's.                    *)
Hooked == {"nookhd", "acclaim"}
BootMarks == {"ANDROID!", "VNDRBOOT"} \cup Hooked
Marks == {"other"} \cup Wrapping \cup BootMarks

ASSUME ScanAssumption ==
  /\ ScanFiles \subseteq Seq(Marks)
  /\ WrapLen \in [Wrapping \cup Hooked -> Nat \ {0}]
  /\ HookRoom \in Nat

VARIABLES
  data,        \* the file
  spc,         \* where the parser is
  curs,        \* the position of the scan
  flags,       \* the wrappers that were seen
  payloadOff   \* payload_offset

scanVars == <<data, spc, curs, flags, payloadOff>>

ScanTypeOK ==
  /\ data \in ScanFiles
  /\ spc \in {"scan", "slice", "header", "error", "panic"}
  /\ curs \in Nat
  /\ flags \subseteq Wrapping \cup Hooked
  /\ payloadOff \in Nat
  /\ spc = "header" => payloadOff < Len(data)

ScanStart(file) ==
  /\ data = file
  /\ spc = "scan" /\ curs = 0 /\ flags = {}
  /\ payloadOff = 0

MarkAt(p) == data[p + 1]

-----------------------------------------------------------------------------
(* The scan.                                                               *)

Scanning == spc = "scan" /\ curs < Len(data)

(* Mutant of PastMark: the wrapper's length is not added. *)
BehindMagic(m) == curs + 1

(* Mutant of PastMark: the search goes on where it is. *)
BehindNothing(m) == curs

PastMark(m) == curs + WrapLen[m]

(* A wrapper is stepped over as a whole. *)
SkipWrapper ==
  /\ Scanning /\ MarkAt(curs) \in Wrapping
  /\ flags' = flags \cup {MarkAt(curs)}
  /\ curs' = PastMark(MarkAt(curs))
  /\ UNCHANGED <<data, spc, payloadOff>>

SkipByte ==
  /\ Scanning /\ MarkAt(curs) = "other"
  /\ curs' = curs + 1
  /\ UNCHANGED <<data, spc, flags, payloadOff>>

(* Mutant of HookIn: the length that is left is not looked at. *)
HookAlways(p) == MarkAt(p) \in Hooked

HookIn(p) == MarkAt(p) \in Hooked /\ Len(data) - p >= HookRoom

(* A header: the payload begins here or, if the header is a hook's, behind *)
(* its pre-header.                                                         *)
FindHeader ==
  /\ Scanning /\ MarkAt(curs) \in BootMarks
  /\ IF HookIn(curs)
     THEN /\ flags' = flags \cup {MarkAt(curs)}
          /\ payloadOff' = PastMark(MarkAt(curs))
     ELSE /\ payloadOff' = curs
          /\ UNCHANGED flags
  /\ spc' = "slice"
  /\ UNCHANGED <<data, curs>>

(* Nothing is found: the payload is the whole file, which is left to       *)
(* BootHeader::parse.                                                      *)
FindNothing ==
  /\ spc = "scan" /\ curs >= Len(data)
  /\ spc' = "slice"
  /\ UNCHANGED <<data, curs, flags, payloadOff>>

SomePayload == payloadOff < Len(data)

(* &data[payload_offset..], and "no boot image header found".              *)
SlicePayload ==
  /\ spc = "slice"
  /\ spc' = IF payloadOff > Len(data) THEN "panic"
            ELSE IF SomePayload THEN "header" ELSE "error"
  /\ UNCHANGED <<data, curs, flags, payloadOff>>

ScanNext == SkipWrapper \/ SkipByte \/ FindHeader \/ FindNothing

-----------------------------------------------------------------------------
(* Properties. *)

(* The scan panics for one reason: a hook's header stands so close to the  *)
(* end of the file that its pre-header cannot.  A file that is too short   *)
(* for hooks to be looked for is never misread.                            *)
ScanPanics ==
  [][spc = "slice" /\ spc' = "panic" =>
       /\ flags \cap Hooked # {}
       /\ Len(data) - curs >= HookRoom
       /\ \A m \in flags \cap Hooked : Len(data) - curs < WrapLen[m]]_scanVars
=============================================================================
