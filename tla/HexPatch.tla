------------------------------ MODULE HexPatch ------------------------------
(***************************************************************************)
(* The command hex-patch (main.rs cmd_hexpatch, hexpatch.rs): two patterns *)
(* are read from their hexadecimal texts, the copy of the file in memory is*)
(* searched and changed in one loop, and the file is written if something  *)
(* was found.                                                              *)
(***************************************************************************)
EXTENDS PatchedFile, Integers, Sequences, FiniteSets

CONSTANTS
  Contents,  \* the files the command is called on, sequences of bytes
  Patterns   \* the texts of the patterns, sequences of characters

(* Characters: the digits that are used, and what is not a digit. *)
Digits == {"0", "1", "f"}
Chars == Digits \cup {"+", "-", " ", "g"}
Value == [d \in Digits |-> CASE d = "0" -> 0 [] d = "1" -> 1 [] d = "f" -> 15]

Bytes == 0 .. 255

ASSUME ContentsAssumption == Contents \subseteq Seq(Bytes)
ASSUME PatternsAssumption == Patterns \subseteq Seq(Chars)

VARIABLES
  fromText, toText,
  hpc,       \* where the command is
  hpos,      \* pos
  offsets    \* where the pattern was found

hexVars == <<disk, whole, fromText, toText, hpc, hpos, data, offsets>>

-----------------------------------------------------------------------------
(* hex2byte.                                                               *)

(* trim: without the spaces in front of all others and behind all others. *)
Leading(text)  == {k \in 1 .. Len(text) : \A m \in 1 .. k : text[m] = " "}
Trailing(text) == {k \in 1 .. Len(text) : \A m \in k .. Len(text) : text[m] = " "}
Trimmed(text) ==
  SubSeq(text, Cardinality(Leading(text)) + 1, Len(text) - Cardinality(Trailing(text)))

(* u8::from_str_radix takes two digits, or one behind a plus sign.         *)
IsByte(c, d) == d \in Digits /\ c \in Digits \cup {"+"}
ByteOf(c, d) == IF c = "+" THEN Value[d] ELSE 16 * Value[c] + Value[d]

IsHex(text) ==
  LET t == Trimmed(text)
  IN Len(t) % 2 = 0 /\ \A k \in 1 .. Len(t) \div 2 : IsByte(t[2 * k - 1], t[2 * k])

Hex2Byte(text) ==
  LET t == Trimmed(text)
  IN [k \in 1 .. Len(t) \div 2 |-> ByteOf(t[2 * k - 1], t[2 * k])]

from == Hex2Byte(fromText)
to == Hex2Byte(toText)

-----------------------------------------------------------------------------
HexTypeOK ==
  /\ disk \in Seq(Bytes) /\ whole \in BOOLEAN
  /\ fromText \in Patterns /\ toText \in Patterns
  /\ hpc \in {"read", "search", "write", "done", "refused"}
  /\ hpos \in 0 .. Len(disk)
  /\ data \in Seq(Bytes) /\ Len(data) = Len(disk)
  /\ offsets \in Seq(0 .. Len(disk))

HexInit ==
  /\ disk \in Contents /\ whole = TRUE
  /\ fromText \in Patterns /\ toText \in Patterns
  /\ hpc = "read" /\ hpos = 0 /\ data = disk /\ offsets = <<>>

(* A text that is not hexadecimal, or a pattern without bytes, is an error.*)
Refused == ~IsHex(fromText) \/ ~IsHex(toText) \/ from = <<>>

ReadPatterns ==
  /\ hpc = "read"
  /\ hpc' = IF Refused THEN "refused" ELSE "search"
  /\ UNCHANGED <<disk, whole, fromText, toText, hpos, data, offsets>>

InReach == hpos + Len(from) <= Len(data)

Found == \A j \in DOMAIN from : data[hpos + j] = from[j]

(* Mutant of AfterMatch: the search goes on inside the match. *)
NextByte == hpos + 1

AfterMatch == hpos + Len(from)

(* Mutant of Copied: the length of the pattern is copied. *)
CopiedLen(b) == hpos < b /\ b <= hpos + Len(from) /\ b <= hpos + Len(to)

(* The replacement goes over what stands there, as far as the data reach.  *)
Copied(b) == hpos < b /\ b <= hpos + Len(to)

Match ==
  /\ hpc = "search" /\ InReach /\ Found
  /\ offsets' = Append(offsets, hpos)
  /\ data' = [b \in DOMAIN data |-> IF Copied(b) THEN to[b - hpos] ELSE data[b]]
  /\ hpos' = AfterMatch
  /\ UNCHANGED <<disk, whole, fromText, toText, hpc>>

NoMatch ==
  /\ hpc = "search" /\ InReach /\ ~Found
  /\ hpos' = hpos + 1
  /\ UNCHANGED <<disk, whole, fromText, toText, hpc, data, offsets>>

SearchDone ==
  /\ hpc = "search" /\ ~InReach
  /\ hpc' = IF offsets = <<>> THEN "done" ELSE "write"
  /\ UNCHANGED <<disk, whole, fromText, toText, hpos, data, offsets>>

WriteHex ==
  /\ hpc = "write"
  /\ WriteBack
  /\ hpc' = "done"
  /\ UNCHANGED <<fromText, toText, hpos, data, offsets>>

HexNext == ReadPatterns \/ Match \/ NoMatch \/ SearchDone \/ WriteHex

(* One loop of one thread. *)
HexSpec == HexInit /\ [][HexNext]_hexVars /\ WF_hexVars(HexNext)

-----------------------------------------------------------------------------
(* Properties. *)

(* Until the search is done, the promise has not been kept yet. *)
Searching == hpc \in {"read", "search"}

Promise == INSTANCE HexReplace WITH
  data    <- IF Searching THEN disk ELSE data,
  from    <- IF Refused THEN <<>> ELSE from,
  to      <- IF Refused THEN <<>> ELSE to,
  offsets <- IF Searching THEN <<>> ELSE offsets,
  done    <- ~Searching

(* The loop keeps the promise of HexReplace, and comes to its end: although*)
(* it searches the data that it changes, a replacement that is not longer  *)
(* than the pattern goes to the leftmost occurrences in what was read, all *)
(* of them, each once, and nothing else is changed.                        *)
KeepsPromise == Promise!Spec

(* While the loop runs, and with a replacement of any length: the matches  *)
(* lie behind each other and behind hpos, and every byte is the one that   *)
(* was read or the byte of the last replacement that reached it.  A longer *)
(* replacement writes over what follows its match, and over the end of the *)
(* data not at all.                                                        *)
PatchedSoFar ==
  hpc = "search" =>
    /\ \A k \in DOMAIN offsets :
         offsets[k] + Len(from) <= IF k < Len(offsets) THEN offsets[k + 1] ELSE hpos
    /\ Promise!Overlaid(disk, offsets, data)
=============================================================================
