--------------------------- MODULE WorkspaceProofs ---------------------------
(***************************************************************************)
(* What the directory holds after an unpack, whatever was in it before and *)
(* whatever runs afterwards: for every set of images, every list of parts, *)
(* vendor ramdisks that share a name included, and every set of files.     *)
(***************************************************************************)
EXTENDS Workspace, SequenceTheorems, TLAPS

-----------------------------------------------------------------------------
(* The inductive invariant. *)

(* What c, the content of file f, may be if it was dumped from image a: of *)
(* a part with that file, packed as that part is or not at all, and whole  *)
(* if the part is.                                                         *)
DumpedFrom(a, f, c) ==
  /\ c.from = a
  /\ \E m \in DOMAIN PartsOf[a] :
       /\ PartsOf[a][m].file = f /\ PartsOf[a][m].part = c.part
       /\ c.packed = 1 => PartsOf[a][m].packed = 1
       /\ c.whole \/ PartsOf[a][m].cut

FromUser(f) ==
  f \in edited /\ files[f].from = "user" /\ files[f].part = 0 /\ files[f].whole

Settled(a, f) == FromUser(f) \/ DumpedFrom(a, f, files[f])

(* The parts that cmd_unpack is done with, one of them may have overwritten*)
(* another with the same file.                                             *)
UnpackedSoFar ==
  cmd # Idle /\ cmd.name = "unpack" =>
    \A m \in DOMAIN PartsOf[cmd.image] : m < k =>
      LET f == PartsOf[cmd.image][m].file IN DumpedFrom(cmd.image, f, files[f])

DirectoryInv ==
  /\ WorkspaceTypeOK
  /\ cmd # Idle => out = NONE
  /\ cmd # Idle /\ fresh # NONE => cmd.name = "split" /\ fresh = cmd.image
  /\ UnpackedSoFar
  /\ fresh # NONE =>
       \A m \in DOMAIN PartsOf[fresh] : Settled(fresh, PartsOf[fresh][m].file)

WorkspaceInv == DirectoryInv /\ OwnParts /\ FormatKept

-----------------------------------------------------------------------------
LEMMA PartTypes ==
  ASSUME NEW a \in Images
  PROVE  /\ PartsOf[a] \in Seq(Part) /\ Len(PartsOf[a]) \in Nat
         /\ DOMAIN PartsOf[a] = 1 .. Len(PartsOf[a])
         /\ \A j \in DOMAIN PartsOf[a] :
              /\ PartsOf[a][j].file \in FileNames
              /\ PartsOf[a][j].part \in Nat \ {0}
              /\ PartsOf[a][j].packed \in 0 .. 1
              /\ PartsOf[a][j].cut \in BOOLEAN
<1>1. PartsOf[a] \in Seq(Part)
  BY ImagesAssumption
<1>2. /\ Len(PartsOf[a]) \in Nat
      /\ DOMAIN PartsOf[a] = 1 .. Len(PartsOf[a])
  BY <1>1, LenProperties
<1>3. \A j \in DOMAIN PartsOf[a] : PartsOf[a][j] \in Part
  BY <1>1, <1>2, ElementOfSeq
<1> QED
  BY <1>1, <1>2, <1>3 DEF Part

LEMMA CommandTypes ==
  ASSUME cmd \in Commands, cmd # Idle
  PROVE  cmd.name \in Dumps /\ cmd.image \in Images /\ cmd.raw \in BOOLEAN
<1>1. PICK n \in Dumps, a \in Images, raw \in BOOLEAN : cmd = Dump(n, a, raw)
  BY DEF Commands
<1> QED
  BY <1>1 DEF Dump

LEMMA DumpIsCommand ==
  ASSUME NEW n \in Dumps, NEW a \in Images, NEW raw \in BOOLEAN
  PROVE  /\ Dump(n, a, raw) \in Commands /\ Dump(n, a, raw) # Idle
         /\ Dump(n, a, raw).name = n /\ Dump(n, a, raw).image = a
<1>1. Dump(n, a, raw).name = n /\ Dump(n, a, raw).image = a
  BY DEF Dump
<1>2. Idle.name = "idle"
  BY DEF Idle
<1>3. Dump(n, a, raw) # Idle
  BY <1>1, <1>2 DEF Dumps
<1>4. Dump(n, a, raw) \in Commands
  BY DEF Commands
<1> QED
  BY <1>1, <1>3, <1>4

(* What dump_block leaves of a part. *)
LEMMA DumpedFacts ==
  ASSUME cmd \in Commands, cmd # Idle, NEW j \in DOMAIN PartsOf[cmd.image]
  PROVE  LET p == PartsOf[cmd.image][j] IN
           /\ Dumped(p) \in Content
           /\ [Dumped(p) EXCEPT !.whole = FALSE] \in Content
           /\ DumpedFrom(cmd.image, p.file, Dumped(p))
<1> DEFINE p == PartsOf[cmd.image][j]
<1>1. cmd.image \in Images /\ cmd.raw \in BOOLEAN
  BY CommandTypes
<1>2. p.part \in Nat /\ p.packed \in 0 .. 1 /\ p.cut \in BOOLEAN
  BY <1>1, PartTypes
<1>3. PICK z \in 0 .. 1 : z = (IF cmd.raw THEN p.packed ELSE 0) /\ (z = 1 => p.packed = 1)
  BY <1>1, <1>2
<1>w. PICK w \in BOOLEAN : w = (cmd.raw \/ ~p.cut)
  BY <1>1, <1>2
<1>4. Dumped(p) = [from |-> cmd.image, part |-> p.part, packed |-> z, whole |-> w]
  BY <1>3, <1>w DEF Dumped
<1>5. Dumped(p) \in Content /\ [Dumped(p) EXCEPT !.whole = FALSE] \in Content
  <2>1. PICK q \in Nat : q = p.part
    BY <1>2
  <2>2. PICK from \in Images : from = cmd.image
    BY <1>1
  <2>3. Dumped(p) = [from |-> from, part |-> q, packed |-> z, whole |-> w]
    BY <1>4, <2>1, <2>2
  <2>4. PICK d : d = Dumped(p)
    OBVIOUS
  <2> HIDE DEF p
  <2>5. d = [from |-> from, part |-> q, packed |-> z, whole |-> w]
    BY <2>3, <2>4
  <2>6. d \in Content
    BY <1>3, <2>5 DEF Content
  <2>7. [d EXCEPT !.whole = FALSE] \in Content
    BY <2>6 DEF Content
  <2> QED
    BY <2>4, <2>6, <2>7
<1>6. /\ Dumped(p).from = cmd.image /\ Dumped(p).whole = w
      /\ Dumped(p).part = p.part /\ Dumped(p).packed = z
  BY <1>4
<1>c. w \/ p.cut
  BY <1>2, <1>w
<1>7. DumpedFrom(cmd.image, p.file, Dumped(p))
  <2>1. Dumped(p).whole \/ p.cut
    BY <1>6, <1>c
  <2> QED
    BY <1>3, <1>6, <2>1 DEF DumpedFrom
<1> QED
  BY <1>5, <1>7

LEMMA WorkspaceInit == Init => WorkspaceInv
<1> SUFFICES ASSUME Init
             PROVE  WorkspaceInv
  OBVIOUS
<1>1. /\ files = [f \in FileNames |-> NONE] /\ cmd = Idle /\ k = 1
      /\ fresh = NONE /\ edited = {} /\ out = NONE
  BY DEF Init
<1>2. WorkspaceTypeOK
  BY <1>1 DEF WorkspaceTypeOK, Commands
<1> QED
  BY <1>1, <1>2 DEF WorkspaceInv, DirectoryInv, UnpackedSoFar, OwnParts, FormatKept

(* A part is dumped, without an error. *)
LEMMA DumpStep ==
  ASSUME DirectoryInv, DumpPart
  PROVE  DirectoryInv'
<1>1. /\ files \in [FileNames -> Content \cup {NONE}] /\ cmd \in Commands /\ cmd # Idle
      /\ fresh \in Images \cup {NONE} /\ edited \subseteq FileNames
      /\ k \in 1 .. Len(PartsOf[cmd.image]) + 1 /\ out = NONE
  BY DEF DirectoryInv, WorkspaceTypeOK, DumpPart
<1> DEFINE a == cmd.image
<1>2. a \in Images /\ Len(PartsOf[a]) \in Nat /\ DOMAIN PartsOf[a] = 1 .. Len(PartsOf[a])
  BY <1>1, CommandTypes, PartTypes
<1>3. PICK j \in DOMAIN PartsOf[a] :
        /\ IsNext(j)
        /\ files' = [files EXCEPT ![PartsOf[a][j].file] = Dumped(PartsOf[a][j])]
        /\ edited' = edited \ {PartsOf[a][j].file}
        /\ k' = j + 1
  BY DEF DumpPart
<1>4. UNCHANGED <<cmd, fresh, out>>
  BY DEF DumpPart
<1> DEFINE g == PartsOf[a][j].file
           c == Dumped(PartsOf[a][j])
<1>5. g \in FileNames /\ c \in Content /\ DumpedFrom(a, g, c)
  BY <1>1, <1>2, PartTypes, DumpedFacts
<1>6. \A f \in FileNames : files'[f] = IF f = g THEN c ELSE files[f]
  BY <1>1, <1>3
<1>7. WorkspaceTypeOK'
  <2>1. files' \in [FileNames -> Content \cup {NONE}] /\ edited' \subseteq FileNames
    BY <1>1, <1>3, <1>5
  <2>2. k' \in 1 .. Len(PartsOf[a]) + 1
    BY <1>2, <1>3
  <2> QED
    BY <1>1, <1>4, <2>1, <2>2 DEF WorkspaceTypeOK
<1>8. ASSUME NEW m \in DOMAIN PartsOf[a], DumpedFrom(a, PartsOf[a][m].file, files[PartsOf[a][m].file])
      PROVE  DumpedFrom(a, PartsOf[a][m].file, files'[PartsOf[a][m].file])
  <2>1. PartsOf[a][m].file \in FileNames
    BY <1>2, PartTypes
  <2> QED
    BY <1>5, <1>6, <1>8, <2>1
<1>9. UnpackedSoFar'
  <2> SUFFICES ASSUME cmd.name = "unpack", NEW m \in DOMAIN PartsOf[a], m < k'
               PROVE  DumpedFrom(a, PartsOf[a][m].file, files'[PartsOf[a][m].file])
    BY <1>4 DEF UnpackedSoFar
  <2>1. CASE m < k
    BY <1>1, <1>8, <2>1 DEF DirectoryInv, UnpackedSoFar
  <2>2. CASE ~(m < k)
    <3>1. m \in Remaining
      BY <1>1, <1>2, <2>2 DEF Remaining, IsDumped
    <3>2. m = j
      BY <1>2, <1>3, <3>1 DEF IsNext
    <3> QED
      BY <1>5, <1>6, <3>2
  <2> QED
    BY <2>1, <2>2
<1>10. ASSUME fresh # NONE, NEW m \in DOMAIN PartsOf[fresh]
       PROVE  Settled(fresh, PartsOf[fresh][m].file)'
  <2>1. fresh = a
    BY <1>1, <1>10 DEF DirectoryInv
  <2> DEFINE f == PartsOf[a][m].file
  <2>2. f \in FileNames /\ m \in DOMAIN PartsOf[a]
    BY <1>2, <1>10, <2>1, PartTypes
  <2>3. FromUser(f) \/ DumpedFrom(a, f, files[f])
    BY <1>10, <2>1 DEF DirectoryInv, Settled
  <2>4. CASE f = g
    <3>1. files'[f] = c /\ DumpedFrom(a, f, c)
      BY <1>5, <1>6, <2>2, <2>4
    <3> HIDE DEF f, c
    <3>2. DumpedFrom(a, f, files'[f])
      BY <3>1
    <3> QED
      BY <1>4, <2>1, <3>2 DEF Settled, DumpedFrom, f
  <2>5. CASE f # g
    <3>1. files'[f] = files[f] /\ (f \in edited => f \in edited')
      BY <1>3, <1>6, <2>2, <2>5
    <3> QED
      BY <1>4, <2>1, <2>3, <3>1 DEF Settled, FromUser, DumpedFrom
  <2> QED
    BY <2>4, <2>5
<1> QED
  BY <1>1, <1>4, <1>7, <1>9, <1>10 DEF DirectoryInv

(* A dump that fails ends the command. *)
LEMMA FailStep ==
  ASSUME DirectoryInv, DumpFails
  PROVE  DirectoryInv' /\ out' = out /\ out = NONE
<1>1. /\ files \in [FileNames -> Content \cup {NONE}] /\ cmd \in Commands /\ cmd # Idle
      /\ edited \subseteq FileNames /\ out = NONE
  BY DEF DirectoryInv, WorkspaceTypeOK, DumpFails
<1>2. cmd' = Idle /\ fresh' = NONE /\ out' = out
  BY DEF DumpFails, AfterFailure
<1>3. PICK j \in DOMAIN PartsOf[cmd.image] :
        LET p == PartsOf[cmd.image][j] IN
        \/ UNCHANGED <<files, edited>>
        \/ /\ files' = [files EXCEPT ![p.file] = [Dumped(p) EXCEPT !.whole = FALSE]]
           /\ edited' = edited \ {p.file}
  BY DEF DumpFails
<1>4. [Dumped(PartsOf[cmd.image][j]) EXCEPT !.whole = FALSE] \in Content
  BY <1>1, DumpedFacts
<1>5. files' \in [FileNames -> Content \cup {NONE}] /\ edited' \subseteq FileNames
  BY <1>1, <1>3, <1>4
<1>6. WorkspaceTypeOK'
  BY <1>1, <1>2, <1>5 DEF WorkspaceTypeOK, Commands
<1> QED
  BY <1>1, <1>2, <1>6 DEF DirectoryInv, UnpackedSoFar

(* What Repack writes. *)
LEMMA RepackStep ==
  ASSUME WorkspaceInv, NEW a \in Images, NEW noCompress \in BOOLEAN,
         NEW unreadable \in SUBSET FileNames, Repack(a, noCompress, unreadable)
  PROVE  WorkspaceInv'
<1>1. /\ files \in [FileNames -> Content \cup {NONE}] /\ cmd \in Commands
      /\ fresh \in Images \cup {NONE} /\ edited \subseteq FileNames
  BY DEF WorkspaceInv, DirectoryInv, WorkspaceTypeOK
<1>2. /\ Len(PartsOf[a]) \in Nat /\ DOMAIN PartsOf[a] = 1 .. Len(PartsOf[a])
      /\ \A j \in DOMAIN PartsOf[a] :
           /\ PartsOf[a][j].file \in FileNames
           /\ PartsOf[a][j].part \in Nat \ {0}
           /\ PartsOf[a][j].packed \in 0 .. 1
  BY PartTypes
<1> DEFINE found == {f \in FileNames \ unreadable : IsRead(a, f) /\ files[f] # NONE}
           own == {PartsOf[a][j].file : j \in DOMAIN PartsOf[a]}
           Written(p) == IF p.file \in found THEN Repacked(files[p.file], p, noCompress)
                         ELSE Original(a, p)
           parts == [j \in DOMAIN PartsOf[a] |-> Written(PartsOf[a][j])]
<1>3. /\ cmd = Idle /\ UNCHANGED <<files, cmd, k, fresh, edited>>
      /\ out' = [image |-> a, noCompress |-> noCompress, parts |-> parts, added |-> found \ own]
  BY DEF Repack
<1>4. /\ out'.image = a /\ out'.noCompress = noCompress /\ out'.parts = parts
  BY <1>3
(* A replacement keeps its bytes; whether it is compressed is decided.     *)
<1>5. ASSUME NEW j \in DOMAIN PartsOf[a], PartsOf[a][j].file \in found
      PROVE  LET p == PartsOf[a][j]  c == files[p.file] IN
               /\ c \in Content /\ parts[j] \in Content
               /\ parts[j].from = c.from /\ parts[j].part = c.part /\ parts[j].whole = c.whole
               /\ ~noCompress /\ p.packed = 1 => parts[j].packed = 1
               /\ p.packed = 0 => parts[j].packed = c.packed
  <2> DEFINE p == PartsOf[a][j]
             c == files[p.file]
             z == IF ~noCompress /\ p.packed = 1 /\ c.packed = 0 THEN 1 ELSE c.packed
  <2>1. c \in Content
    BY <1>1, <1>2, <1>5
  <2>2. parts[j] = [c EXCEPT !.packed = z]
    BY <1>5 DEF Repacked
  <2>3. PICK from \in Images \cup {"user"}, part \in Nat, y \in 0 .. 1, w \in BOOLEAN :
          c = [from |-> from, part |-> part, packed |-> y, whole |-> w]
    BY <2>1 DEF Content
  <2>4. /\ c.from = from /\ c.part = part /\ c.packed = y /\ c.whole = w
    BY <2>3
  <2>5. /\ z \in 0 .. 1
        /\ ~noCompress /\ p.packed = 1 => z = 1
        /\ p.packed = 0 => z = y
    BY <2>4
  <2> HIDE DEF z, c, p
  <2>6. parts[j] = [from |-> from, part |-> part, packed |-> z, whole |-> w]
    <3>1. [c EXCEPT !.packed = z] = [from |-> from, part |-> part, packed |-> z, whole |-> w]
      BY <2>3
    <3> HIDE DEF parts
    <3> QED
      BY <2>2, <3>1
  <2> HIDE DEF parts
  <2>7. parts[j] \in Content
    BY <2>5, <2>6 DEF Content
  <2>8. /\ parts[j].from = from /\ parts[j].part = part /\ parts[j].whole = w
        /\ parts[j].packed = z
    BY <2>6
  <2> QED
    BY <2>1, <2>4, <2>5, <2>7, <2>8 DEF c, p
<1>6. ASSUME NEW j \in DOMAIN PartsOf[a], PartsOf[a][j].file \notin found
      PROVE  LET p == PartsOf[a][j] IN
               /\ parts[j] = Original(a, p) /\ parts[j] \in Content
               /\ parts[j].from = a /\ parts[j].part = p.part /\ parts[j].whole
               /\ parts[j].packed = p.packed
  <2>1. parts[j] = Original(a, PartsOf[a][j])
    BY <1>6
  <2> HIDE DEF parts
  <2>2. parts[j] \in Content
    BY <1>2, <2>1 DEF Original, Content
  <2> QED
    BY <2>1, <2>2 DEF Original
<1>7. parts \in Seq(Content) /\ Len(parts) = Len(PartsOf[a]) /\ DOMAIN parts = DOMAIN PartsOf[a]
  <2>1. \A j \in DOMAIN PartsOf[a] : parts[j] \in Content
    BY <1>5, <1>6
  <2>2. parts = [j \in 1 .. Len(PartsOf[a]) |-> parts[j]]
    BY <1>2
  <2> HIDE DEF parts
  <2>3. parts \in [1 .. Len(PartsOf[a]) -> Content]
    BY <1>2, <2>1, <2>2
  <2> QED
    BY <1>2, <2>3
<1>8. found \ own \in SUBSET FileNames
  OBVIOUS
<1> HIDE DEF parts, own
<1>9. out' \in Outputs
  BY <1>3, <1>7, <1>8 DEF Outputs
<1>10. WorkspaceTypeOK'
  BY <1>3, <1>4, <1>7, <1>9 DEF WorkspaceInv, DirectoryInv, WorkspaceTypeOK
<1>11. DirectoryInv'
  <2>1. ASSUME fresh # NONE, NEW m \in DOMAIN PartsOf[fresh]
        PROVE  Settled(fresh, PartsOf[fresh][m].file)'
    BY <1>3, <2>1 DEF WorkspaceInv, DirectoryInv, Settled, FromUser, DumpedFrom
  <2> QED
    BY <1>3, <1>10, <2>1 DEF DirectoryInv, UnpackedSoFar
(* What is found was dumped from the image or comes from the user. *)
<1>12. ASSUME fresh = a, NEW j \in DOMAIN PartsOf[a], PartsOf[a][j].file \in found
       PROVE  LET f == PartsOf[a][j].file IN FromUser(f) \/ DumpedFrom(a, f, files[f])
  <2>1. fresh # NONE
    BY <1>12, ImagesAssumption
  <2> QED
    BY <1>12, <2>1 DEF WorkspaceInv, DirectoryInv, Settled
<1>13. OwnParts'
  <2> SUFFICES ASSUME fresh = a, NEW j \in DOMAIN PartsOf[a]
               PROVE  LET p == PartsOf[a][j] IN
                 \/ parts[j].from = "user" /\ parts[j].whole /\ p.file \in edited
                 \/ /\ parts[j].from = a
                    /\ \E m \in DOMAIN PartsOf[a] :
                         /\ PartsOf[a][m].file = p.file /\ PartsOf[a][m].part = parts[j].part
                         /\ parts[j].whole \/ PartsOf[a][m].cut
    BY <1>3, <1>4, <1>7 DEF OwnParts
  <2>1. CASE PartsOf[a][j].file \in found
    BY <1>5, <1>12, <2>1 DEF FromUser, DumpedFrom
  <2>2. CASE PartsOf[a][j].file \notin found
    BY <1>6, <2>2
  <2> QED
    BY <2>1, <2>2
<1>14. FormatKept'
  <2> SUFFICES ASSUME fresh = a, ~noCompress, NEW j \in DOMAIN PartsOf[a]
               PROVE  LET p == PartsOf[a][j] IN
                 /\ p.packed = 1 => parts[j].packed = 1
                 /\ p.packed = 0 /\ parts[j].part = p.part => parts[j].packed = 0
    BY <1>3, <1>4, <1>7 DEF FormatKept
  <2>1. CASE PartsOf[a][j].file \notin found
    BY <1>6, <2>1
  <2>2. CASE PartsOf[a][j].file \in found
    <3> SUFFICES ASSUME PartsOf[a][j].packed = 0, parts[j].part = PartsOf[a][j].part
                 PROVE  parts[j].packed = 0
      BY <1>5, <2>2
    <3> DEFINE f == PartsOf[a][j].file
    <3>1. /\ files[f].part = PartsOf[a][j].part /\ files[f].packed = parts[j].packed
          /\ files[f].packed \in 0 .. 1
      BY <1>5, <2>2 DEF Content
    <3>2. DumpedFrom(a, f, files[f])
      BY <1>2, <1>12, <2>2, <3>1 DEF FromUser
    <3>3. PICK m \in DOMAIN PartsOf[a] :
            /\ PartsOf[a][m].part = files[f].part
            /\ files[f].packed = 1 => PartsOf[a][m].packed = 1
      BY <3>2 DEF DumpedFrom
    <3>4. m = j
      BY <3>1, <3>3, ImagesAssumption
    <3> QED
      BY <3>1, <3>3, <3>4
  <2> QED
    BY <2>1, <2>2
<1> QED
  BY <1>11, <1>13, <1>14 DEF WorkspaceInv

LEMMA WorkspaceStep == WorkspaceInv /\ [Next]_vars => WorkspaceInv'
<1> SUFFICES ASSUME WorkspaceInv, [Next]_vars
             PROVE  WorkspaceInv'
  OBVIOUS
<1>1. /\ files \in [FileNames -> Content \cup {NONE}] /\ cmd \in Commands
      /\ fresh \in Images \cup {NONE} /\ edited \subseteq FileNames
      /\ cmd # Idle => k \in 1 .. Len(PartsOf[cmd.image]) + 1
      /\ cmd # Idle => out = NONE
  BY DEF WorkspaceInv, DirectoryInv, WorkspaceTypeOK
<1>2. ASSUME out' = NONE
      PROVE  OwnParts' /\ FormatKept'
  BY <1>2 DEF OwnParts, FormatKept
<1>3. ASSUME NEW n \in Dumps, NEW a \in Images, NEW raw \in BOOLEAN, StartDump(n, a, raw)
      PROVE  WorkspaceInv'
  <2>1. /\ cmd' = Dump(n, a, raw) /\ k' = 1 /\ out' = NONE
        /\ fresh' = IF n = "split" /\ fresh = a THEN fresh ELSE NONE
        /\ UNCHANGED <<files, edited>>
    BY <1>3 DEF StartDump, FirstPart
  <2>2. /\ cmd' \in Commands /\ cmd'.name = n /\ cmd'.image = a
    BY <2>1, DumpIsCommand
  <2>3. k' \in 1 .. Len(PartsOf[a]) + 1
    BY <2>1, PartTypes
  <2>4. WorkspaceTypeOK'
    BY <1>1, <2>1, <2>2, <2>3 DEF WorkspaceTypeOK
  <2>5. \A m \in DOMAIN PartsOf[a] : ~(m < k')
    BY <2>1, PartTypes
  <2>6. UnpackedSoFar'
    BY <2>2, <2>5 DEF UnpackedSoFar
  <2>7. ASSUME fresh' # NONE, NEW m \in DOMAIN PartsOf[fresh']
        PROVE  Settled(fresh, PartsOf[fresh][m].file)'
    <3>1. fresh' = fresh
      BY <2>1, <2>7
    <3> QED
      BY <2>1, <2>7, <3>1 DEF WorkspaceInv, DirectoryInv, Settled, FromUser, DumpedFrom
  <2>8. fresh' # NONE => cmd'.name = "split" /\ fresh' = cmd'.image
    BY <2>1, <2>2
  <2>9. DirectoryInv'
    BY <2>1, <2>4, <2>6, <2>7, <2>8 DEF DirectoryInv
  <2> QED
    BY <1>2, <2>1, <2>9 DEF WorkspaceInv
<1>4. CASE DumpPart
  <2>1. out' = NONE
    BY <1>1, <1>4 DEF DumpPart
  <2> QED
    BY <1>2, <1>4, <2>1, DumpStep DEF WorkspaceInv
<1>5. CASE DumpFails
  BY <1>2, <1>5, FailStep DEF WorkspaceInv
<1>6. CASE DumpDone
  <2>1. /\ cmd # Idle /\ Remaining = {} /\ cmd' = Idle /\ out' = NONE
        /\ IF cmd.name = "unpack" THEN fresh' = cmd.image /\ edited' = {}
           ELSE UNCHANGED <<fresh, edited>>
        /\ UNCHANGED <<files, k, out>>
    BY <1>1, <1>6 DEF DumpDone
  <2>2. cmd.image \in Images /\ cmd' \in Commands
    BY <1>1, <2>1, CommandTypes DEF Commands
  <2>3. fresh' \in Images \cup {NONE} /\ edited' \subseteq FileNames
    BY <1>1, <2>1, <2>2
  <2>4. WorkspaceTypeOK'
    BY <1>1, <2>1, <2>2, <2>3 DEF WorkspaceTypeOK
  <2>5. ASSUME fresh' # NONE, NEW m \in DOMAIN PartsOf[fresh']
        PROVE  Settled(fresh, PartsOf[fresh][m].file)'
    <3>1. CASE cmd.name = "unpack"
      <4>1. fresh' = cmd.image /\ files' = files
        BY <2>1, <3>1
      <4>2. /\ DOMAIN PartsOf[cmd.image] = 1 .. Len(PartsOf[cmd.image])
            /\ Len(PartsOf[cmd.image]) \in Nat
        BY <2>2, PartTypes
      <4>3. m < k
        <5>1. m \notin Remaining
          BY <2>1
        <5> QED
          BY <1>1, <2>1, <2>5, <3>1, <4>1, <4>2, <5>1 DEF Remaining, IsDumped
      <4>4. DumpedFrom(cmd.image, PartsOf[cmd.image][m].file, files[PartsOf[cmd.image][m].file])
        BY <2>1, <2>5, <3>1, <4>1, <4>3 DEF WorkspaceInv, DirectoryInv, UnpackedSoFar
      <4> QED
        BY <4>1, <4>4 DEF Settled, DumpedFrom
    <3>2. CASE cmd.name # "unpack"
      <4>1. UNCHANGED <<files, fresh, edited>>
        BY <2>1, <3>2
      <4> QED
        BY <2>5, <4>1 DEF WorkspaceInv, DirectoryInv, Settled, FromUser, DumpedFrom
    <3> QED
      BY <3>1, <3>2
  <2>6. DirectoryInv'
    BY <2>1, <2>4, <2>5 DEF DirectoryInv, UnpackedSoFar
  <2> QED
    BY <1>2, <2>1, <2>6 DEF WorkspaceInv
<1>7. ASSUME NEW f \in FileNames, NEW packed \in 0 .. 1, UserEdit(f, packed)
      PROVE  WorkspaceInv'
  <2> DEFINE c == [from |-> "user", part |-> 0, packed |-> packed, whole |-> TRUE]
  <2>1. /\ cmd = Idle /\ files' = [files EXCEPT ![f] = c] /\ edited' = edited \cup {f}
        /\ out' = NONE /\ UNCHANGED <<cmd, k, fresh>>
    BY <1>7 DEF UserEdit
  <2>2. c \in Content /\ c.from = "user" /\ c.part = 0 /\ c.whole
    BY DEF Content
  <2> HIDE DEF c
  <2>3. files' \in [FileNames -> Content \cup {NONE}] /\ edited' \subseteq FileNames
    BY <1>1, <2>1, <2>2
  <2>4. WorkspaceTypeOK'
    BY <1>1, <2>1, <2>3 DEF WorkspaceTypeOK
  <2>5. ASSUME fresh # NONE, NEW m \in DOMAIN PartsOf[fresh]
        PROVE  Settled(fresh, PartsOf[fresh][m].file)'
    <3> DEFINE g == PartsOf[fresh][m].file
    <3>1. g \in FileNames /\ Settled(fresh, g)
      BY <1>1, <2>5, PartTypes DEF WorkspaceInv, DirectoryInv
    <3>2. files'[g] = (IF g = f THEN c ELSE files[g]) /\ (g \in edited \/ g = f => g \in edited')
      BY <1>1, <2>1, <3>1
    <3> QED
      BY <2>1, <2>2, <3>1, <3>2 DEF Settled, FromUser, DumpedFrom
  <2>6. DirectoryInv'
    BY <2>1, <2>4, <2>5 DEF DirectoryInv, UnpackedSoFar
  <2> QED
    BY <1>2, <2>1, <2>6 DEF WorkspaceInv
<1>8. CASE RepackFails
  <2>1. /\ cmd = Idle /\ out' = NONE /\ UNCHANGED <<files, cmd, k, fresh, edited>>
    BY <1>8 DEF RepackFails
  <2>2. WorkspaceTypeOK'
    BY <1>1, <2>1 DEF WorkspaceTypeOK
  <2>3. ASSUME fresh # NONE, NEW m \in DOMAIN PartsOf[fresh]
        PROVE  Settled(fresh, PartsOf[fresh][m].file)'
    BY <2>1, <2>3 DEF WorkspaceInv, DirectoryInv, Settled, FromUser, DumpedFrom
  <2>4. DirectoryInv'
    BY <2>1, <2>2, <2>3 DEF DirectoryInv, UnpackedSoFar
  <2> QED
    BY <1>2, <2>1, <2>4 DEF WorkspaceInv
<1>9. CASE UNCHANGED vars
  <2>1. UNCHANGED <<files, cmd, k, fresh, edited, out>>
    BY <1>9 DEF vars
  <2>2. WorkspaceTypeOK'
    BY <2>1 DEF WorkspaceInv, DirectoryInv, WorkspaceTypeOK
  <2>3. ASSUME fresh # NONE, NEW m \in DOMAIN PartsOf[fresh]
        PROVE  Settled(fresh, PartsOf[fresh][m].file)'
    BY <2>1, <2>3 DEF WorkspaceInv, DirectoryInv, Settled, FromUser, DumpedFrom
  <2>4. UnpackedSoFar'
    BY <2>1 DEF WorkspaceInv, DirectoryInv, UnpackedSoFar, DumpedFrom
  <2>5. DirectoryInv'
    BY <2>1, <2>2, <2>3, <2>4 DEF WorkspaceInv, DirectoryInv
  <2>6. OwnParts' /\ FormatKept'
    BY <2>1 DEF WorkspaceInv, OwnParts, FormatKept
  <2> QED
    BY <2>5, <2>6 DEF WorkspaceInv
<1> QED
  BY <1>3, <1>4, <1>5, <1>6, <1>7, <1>8, <1>9, RepackStep DEF Next

-----------------------------------------------------------------------------
THEOREM WorkspaceInvariant == Spec => []WorkspaceInv
<1> QED
  BY WorkspaceInit, WorkspaceStep, PTL DEF Spec

THEOREM WorkspaceTypes == Spec => []WorkspaceTypeOK
<1>1. WorkspaceInv => WorkspaceTypeOK
  BY DEF WorkspaceInv, DirectoryInv
<1> QED
  BY <1>1, WorkspaceInvariant, PTL

(* For every set of images and every directory the commands can leave: a   *)
(* repack behind a complete unpack of the same image takes each part from  *)
(* that image, whole unless its block is cut, or from the user.            *)
THEOREM WorkspaceOwnParts == Spec => []OwnParts
<1>1. WorkspaceInv => OwnParts
  BY DEF WorkspaceInv
<1> QED
  BY <1>1, WorkspaceInvariant, PTL

(* The same repack compresses each part as it was, and never twice. *)
THEOREM WorkspaceFormatKept == Spec => []FormatKept
<1>1. WorkspaceInv => FormatKept
  BY DEF WorkspaceInv
<1> QED
  BY <1>1, WorkspaceInvariant, PTL
=============================================================================
