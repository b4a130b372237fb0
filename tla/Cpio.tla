-------------------------------- MODULE Cpio --------------------------------
(***************************************************************************)
(* The cpio archive of a ramdisk (cpio.rs): a map of entries that can be   *)
(* changed, dumped to a newc archive and loaded from one.                  *)
(*                                                                         *)
(* An archive is described by where its records begin and what they say.   *)
(* The loader walks it with offsets of its own, so that it finds a record  *)
(* only if it computes the offset at which the writer put it.  A dump may  *)
(* stop at any write, and a file may be cut anywhere before it is loaded.  *)
(***************************************************************************)
EXTENDS Naturals, Sequences, FiniteSets

CONSTANTS
  NameOrder, \* the names of entries in the order of their bytes; a name is
             \* the sequence of what stands between its slashes
  NameLen,   \* the number of bytes of each name
  Lens,      \* the lengths file data may have
  NewEntries, \* the entries that callers add
  MaxEntries, \* bound: the entries of a map that is added to
  NONE

Names == {NameOrder[j] : j \in DOMAIN NameOrder}

(* "./a/b" is <<".", "a", "b">>, "a/" is <<"a", "">> and "" is <<"">>.      *)
Root == <<"">>
Trailer == <<"TRAILER!!!">>
Dots == {<<".">>, <<"..">>}

(* What mode & 0o170000 can be.  The bits that make a symlink (0o120000)   *)
(* are set in every type but directories and fifos.                        *)
Types == {"dir", "reg", "sym", "blk", "chr", "fifo", "sock"}
SymlinkBits == Types \ {"dir", "fifo"}

(* A CpioEntry: data and symlink are the length of the bytes, NONE for     *)
(* None.  Empty bytes are not told apart from None.                        *)
Entry == [type : Types, data : Lens \cup {NONE}, symlink : Lens \cup {NONE}]

(* A record of an archive; the trailer has the mode 0, which is no type.   *)
Record == [at : Nat, name : Names, type : Types \cup {NONE}, len : Nat]

ASSUME NamesAssumption ==
  /\ NameOrder \in Seq(Names) /\ Trailer \in Names
  /\ NameLen \in [Names -> Nat]
  /\ \A n \in Names : n # <<>>
  /\ NewEntries \subseteq Entry /\ MaxEntries \in Nat
  /\ Lens \subseteq Nat \ {0} /\ NONE \notin Lens /\ NONE \notin Types

VARIABLES
  entries,  \* the map of a Cpio
  phase,    \* what runs, or how the last load ended
  arc,      \* the records of the archive
  alen,     \* the length of the archive
  todo,     \* dump(): the names that are still to be written
  dumped,   \* what has been dumped into the archive
  pos,      \* load_from_data(): the position
  loaded    \* load_from_data(): the entries so far

cpioVars == <<entries, phase, arc, alen, todo, dumped, pos, loaded>>

IsMap(m) == /\ DOMAIN m \subseteq Names
            /\ \A n \in DOMAIN m : m[n] \in Entry

CpioTypeOK ==
  /\ IsMap(entries) /\ IsMap(dumped) /\ IsMap(loaded)
  /\ phase \in {"idle", "dump", "load", "loaded", "error"}
  /\ arc \in Seq(Record)
  /\ alen \in Nat /\ pos \in Nat
  /\ todo \subseteq Names

NoEntries == [n \in {} |-> NONE]

(* The map m with e under the name n, and the map m without the names D.   *)
Insert(m, n, e) == [x \in DOMAIN m \cup {n} |-> IF x = n THEN e ELSE m[x]]
Without(m, D) == [x \in DOMAIN m \ D |-> m[x]]

CpioInit ==
  /\ entries = NoEntries /\ dumped = NoEntries /\ loaded = NoEntries
  /\ phase = "idle"
  /\ arc = <<>> /\ alen = 0
  /\ todo = {}
  /\ pos = 0

-----------------------------------------------------------------------------
(* Names. *)

(* trim_start_matches: p without the leading parts that are s.             *)
TrimStart(p, s) ==
  LET n == CHOOSE j \in 0 .. (Len(p) - 1) :
             /\ \A m \in 1 .. j : p[m] = s
             /\ j = Len(p) - 1 \/ p[j + 1] # s
  IN SubSeq(p, n + 1, Len(p))

(* normalize_path: slashes go first, then every "./".                      *)
Norm(p) == TrimStart(TrimStart(p, ""), ".")

(* Every name is one of the model's, as every string is one of the code's. *)
ASSUME NormAssumption == \A n \in Names : Norm(n) \in Names

EndsWithSlash(p) == Len(p) > 1 /\ p[Len(p)] = ""
Slashed(p) == IF EndsWithSlash(p) THEN p ELSE Append(p, "")

(* name.starts_with(prefix) for a prefix that ends with a slash.           *)
StartsWith(n, prefix) ==
  /\ Len(n) >= Len(prefix)
  /\ SubSeq(n, 1, Len(prefix) - 1) = SubSeq(prefix, 1, Len(prefix) - 1)

(* The entries that ls(path, recursive = true) prints.                     *)
Listed(path) ==
  LET p == Norm(path)
  IN {n \in DOMAIN entries : p = Root \/ StartsWith(n, Slashed(p))}

Exists(path) == Norm(path) \in DOMAIN entries

-----------------------------------------------------------------------------
(* The operations on the map.                                              *)

Ready == phase \notin {"dump", "load"}
archiveVars == <<arc, alen, todo, dumped, pos, loaded>>

Add(path, e) ==
  /\ Ready /\ Cardinality(DOMAIN entries) < MaxEntries
  /\ entries' = Insert(entries, Norm(path), e)
  /\ phase' = "idle"
  /\ UNCHANGED archiveVars

(* A caller inserts a name as it is through entries_mut().                 *)
InsertRaw(n, e) ==
  /\ Ready /\ Cardinality(DOMAIN entries) < MaxEntries
  /\ entries' = Insert(entries, n, e)
  /\ phase' = "idle"
  /\ UNCHANGED archiveVars

(* Mutant of Doomed: what is below the path is forgotten. *)
DoomedAlone(p) == {p}

(* rm with recursive: the name and everything below it.                    *)
Doomed(p) == {n \in DOMAIN entries : n = p \/ StartsWith(n, Slashed(p))}

Rm(path, recursive) ==
  LET p == Norm(path)
  IN /\ Ready
     /\ entries' = Without(entries, IF recursive THEN Doomed(p) ELSE {p, Slashed(p)})
     /\ phase' = "idle"
     /\ UNCHANGED archiveVars

(* mv moves one entry, not what is below it, and returns an error when     *)
(* there is none.                                                          *)
Mv(from, to) ==
  LET p == Norm(from)  q == Norm(to)
  IN /\ Ready
     /\ p \in DOMAIN entries
     /\ entries' = Insert(Without(entries, {p}), q, entries[p])
     /\ phase' = "idle"
     /\ UNCHANGED archiveVars

-----------------------------------------------------------------------------
(* dump.                                                                   *)

L == INSTANCE BootLayouts

HeaderLen == 110

(* entry.data.or(entry.symlink), and its length.                           *)
ContentOf(e) == IF e.data # NONE THEN e.data ELSE e.symlink
LenOf(e) == IF ContentOf(e) = NONE THEN 0 ELSE ContentOf(e)

(* Mutant of EndOf: the data are not padded. *)
EndUnpadded(r) ==
  LET hdr == HeaderLen + NameLen[r.name] + 1
  IN r.at + hdr + L!Padding(hdr, 4) + r.len

(* write_entry: where the record ends.  The name is followed by a NUL, the *)
(* header with the name and the data are padded on their own.              *)
EndOf(r) ==
  LET hdr == HeaderLen + NameLen[r.name] + 1
  IN r.at + hdr + L!Padding(hdr, 4) + r.len + L!Padding(r.len, 4)

(* dump() into an empty file, or behind the archive that is there.         *)
StartDump(append) ==
  /\ Ready
  /\ append => arc # <<>> /\ alen = EndOf(arc[Len(arc)]) /\ arc[Len(arc)].name = Trailer
  /\ arc' = IF append THEN arc ELSE <<>>
  /\ alen' = IF append THEN alen ELSE 0
  /\ dumped' = IF append
               THEN [n \in DOMAIN entries \cup DOMAIN dumped |->
                       IF n \in DOMAIN entries THEN entries[n] ELSE dumped[n]]
               ELSE entries
  /\ todo' = DOMAIN entries
  /\ phase' = "dump"
  /\ UNCHANGED <<entries, pos, loaded>>

(* The record that dump() writes next: entries come in the order of their  *)
(* names, and the trailer behind them.                                     *)
NextName ==
  NameOrder[CHOOSE j \in DOMAIN NameOrder :
              /\ NameOrder[j] \in todo
              /\ \A m \in 1 .. (j - 1) : NameOrder[m] \notin todo]

NextRecord ==
  IF todo = {} THEN [at |-> alen, name |-> Trailer, type |-> NONE, len |-> 0]
  ELSE [at |-> alen, name |-> NextName, type |-> entries[NextName].type,
        len |-> LenOf(entries[NextName])]

DumpRecord ==
  /\ phase = "dump"
  /\ arc' = Append(arc, NextRecord)
  /\ alen' = EndOf(NextRecord)
  /\ IF todo = {} THEN phase' = "idle" /\ UNCHANGED todo
     ELSE todo' = todo \ {NextName} /\ UNCHANGED phase
  /\ UNCHANGED <<entries, dumped, pos, loaded>>

(* A write fails somewhere in the record.                                  *)
DumpFails ==
  /\ phase = "dump"
  /\ arc' = Append(arc, NextRecord)
  /\ alen' \in alen .. (EndOf(NextRecord) - 1)
  /\ todo' = {}
  /\ phase' = "idle"
  /\ UNCHANGED <<entries, dumped, pos, loaded>>

-----------------------------------------------------------------------------
(* load_from_data.                                                         *)

StartLoad ==
  /\ Ready
  /\ phase' = "load"
  /\ pos' = 0
  /\ loaded' = NoEntries
  /\ UNCHANGED <<entries, arc, alen, todo, dumped>>

(* The loop ends when no header fits behind the position.                  *)
LoadEnd ==
  /\ phase = "load" /\ pos + HeaderLen > alen
  /\ entries' = loaded
  /\ phase' = "loaded"
  /\ pos' = 0 /\ loaded' = NoEntries
  /\ UNCHANGED <<arc, alen, todo, dumped>>

RecordsAt(p) == {j \in DOMAIN arc : arc[j].at = p}
NameEnd(r) == pos + HeaderLen + NameLen[r.name] + 1
DataEnd(r) == L!Align(NameEnd(r), 4) + r.len

(* No magic at the position, the name is cut, or the data are: an error,   *)
(* and the Cpio that was being loaded is dropped.                          *)
LoadFails ==
  /\ phase = "load" /\ pos + HeaderLen <= alen
  /\ \/ RecordsAt(pos) = {}
     \/ \E j \in RecordsAt(pos) :
          \/ NameEnd(arc[j]) > alen
          \/ arc[j].name \notin Dots \cup {Trailer} /\ DataEnd(arc[j]) > alen
  /\ phase' = "error"
  /\ pos' = 0 /\ loaded' = NoEntries
  /\ UNCHANGED <<entries, arc, alen, todo, dumped>>

(* Mutant of AfterTrailer: the search begins at the trailer itself. *)
AtTrailer(r) == r.at

AfterTrailer(r) == L!Align(DataEnd(r), 4)

(* Behind a trailer the next magic is looked for byte by byte.             *)
SkipTrailer ==
  /\ phase = "load" /\ pos + HeaderLen <= alen
  /\ \E j \in RecordsAt(pos) :
       /\ arc[j].name = Trailer /\ NameEnd(arc[j]) <= alen
       /\ LET from == AfterTrailer(arc[j])
              magics == {arc[m].at : m \in {m \in DOMAIN arc :
                                            /\ arc[m].at >= from
                                            /\ arc[m].at + 6 <= alen}}
          IN \/ pos' \in magics /\ \A p \in magics : pos' <= p
             \/ magics = {} /\ pos' = IF from > alen THEN from ELSE alen
  /\ UNCHANGED <<entries, phase, arc, alen, todo, dumped, loaded>>

(* "." and ".." are left out, without a look at the end of their data.     *)
SkipDots ==
  /\ phase = "load" /\ pos + HeaderLen <= alen
  /\ \E j \in RecordsAt(pos) :
       /\ arc[j].name \in Dots /\ NameEnd(arc[j]) <= alen
       /\ pos' = L!Align(DataEnd(arc[j]), 4)
  /\ UNCHANGED <<entries, phase, arc, alen, todo, dumped, loaded>>

(* Mutant of Loaded: a record without data becomes one with empty data. *)
LoadedEmpty(r) ==
  LET link == r.type \in SymlinkBits
  IN [type |-> r.type, data |-> IF link THEN NONE ELSE r.len,
      symlink |-> IF link THEN r.len ELSE NONE]

(* The entry a record becomes: with a bit of the symlink type set the data *)
(* go to symlink.                                                          *)
Loaded(r) ==
  LET data == IF r.len > 0 THEN r.len ELSE NONE
      link == r.type \in SymlinkBits
  IN [type |-> r.type, data |-> IF link THEN NONE ELSE data,
      symlink |-> IF link THEN data ELSE NONE]

(* Mutant of DataComplete: only the start of the data is compared. *)
DataBegins(r) == L!Align(NameEnd(r), 4) <= alen

DataComplete(r) == DataEnd(r) <= alen

LoadEntry ==
  /\ phase = "load" /\ pos + HeaderLen <= alen
  /\ \E j \in RecordsAt(pos) :
       /\ arc[j].name \notin Dots \cup {Trailer}
       /\ NameEnd(arc[j]) <= alen /\ DataComplete(arc[j])
       /\ loaded' = Insert(loaded, arc[j].name, Loaded(arc[j]))
       /\ pos' = L!Align(DataEnd(arc[j]), 4)
  /\ UNCHANGED <<entries, phase, arc, alen, todo, dumped>>

LoadStep == LoadEnd \/ LoadFails \/ SkipTrailer \/ SkipDots \/ LoadEntry

CpioNext ==
  \/ \E p \in Names, e \in NewEntries : Add(p, e) \/ InsertRaw(p, e)
  \/ \E p \in Names, r \in BOOLEAN : Rm(p, r)
  \/ \E p, q \in Names : Mv(p, q)
  \/ \E a \in BOOLEAN : StartDump(a)
  \/ DumpRecord \/ DumpFails
  \/ StartLoad
  \/ LoadStep

(* load_from_data is one loop of one thread: it does not stop by itself.   *)
CpioSpec == CpioInit /\ [][CpioNext]_cpioVars /\ WF_cpioVars(LoadStep)

-----------------------------------------------------------------------------
(* Properties. *)

Special == Dots \cup {Trailer}

(* The entries that the records up to position end stand for: those whose  *)
(* data are all there, and of the records of a name the last one.          *)
Merged(end) ==
  LET seen == {j \in DOMAIN arc :
                 /\ arc[j].name \notin Special
                 /\ EndOf(arc[j]) - L!Padding(arc[j].len, 4) <= end}
      Last(n) == CHOOSE j \in seen :
                   arc[j].name = n /\ \A m \in seen : arc[m].name = n => m <= j
  IN [n \in {arc[j].name : j \in seen} |-> Loaded(arc[Last(n)])]

(* What a load returns is what the records in the file say, whatever the   *)
(* order and number of archives in the file and wherever it is cut: never a*)
(* part of an entry's data, never an entry from the wrong offset.  A cut   *)
(* file is refused, or it loses its last records as a whole.               *)
LoadedIsArchive ==
  phase = "loaded" /\ arc # <<>> => entries = Merged(alen)

ArchiveComplete == arc # <<>> /\ arc[Len(arc)].name = Trailer /\ alen = EndOf(arc[Len(arc)])

(* Dumping and loading keeps every entry with its type and its content,    *)
(* through any mixture of names and any number of archives in one file.    *)
(* Lost are the names that mean something to the loader.                   *)
DumpLoadKeeps ==
  phase = "loaded" /\ ArchiveComplete =>
    /\ DOMAIN entries = DOMAIN dumped \ Special
    /\ \A n \in DOMAIN entries :
         /\ entries[n].type = dumped[n].type
         /\ ContentOf(entries[n]) = ContentOf(dumped[n])

(* After a recursive rm, ls finds nothing at or below the path any more:   *)
(* the two prefix tests agree, however the path was written.  The root is  *)
(* the exception: rm does not remove what ls("/") lists.                   *)
RmClears ==
  [][\A p \in Names : Norm(p) # Root /\ Rm(p, TRUE) =>
       Listed(p)' = {} /\ ~Exists(p)']_cpioVars

(* Every load comes to an end: each turn of the loop moves the position on.*)
LoadEnds == phase = "load" ~> phase # "load"

(* symlink is for symlinks: perm_string tells regular files from them.     *)
SymlinkIsSymlink ==
  phase = "loaded" => \A n \in DOMAIN entries :
    entries[n].symlink # NONE => entries[n].type = "sym"
=============================================================================
