------------------------------ MODULE DtbPatch ------------------------------
(***************************************************************************)
(* The command dtb-patch (main.rs cmd_dtb_patch) and its two walks over    *)
(* the device trees of a file, dtb_patch_verity and dtb_patch_initramfs    *)
(* (dtb.rs).                                                               *)
(*                                                                         *)
(* A file is known by its length and by the device trees that begin at     *)
(* some of its offsets; a tree by the fields of its header and by what the *)
(* bytes at each offset of its structure decode to.  All of that may be    *)
(* damaged, and a value may run over other tokens, names and trees.  The   *)
(* command patches a copy in memory, once or twice, and writes it back,    *)
(* which can fail; and it may be called again.                             *)
(***************************************************************************)
EXTENDS PatchedFile, Naturals, Sequences, SequencesExt

CONSTANTS
  Files,  \* the files the command may be called with
  Debris  \* what they may look like when a value was written over other things

(* A property's value as the walk splits it, at its commas.  A part that   *)
(* names verify or avb is a verity part; a binary part is not UTF-8, and a *)
(* zero part nothing but zero bytes.                                       *)
Texts == {"text", "more text"}
Parts == Texts \cup {"verity", "binary", "empty", "zero"}

(* A token: size is the length of a node's name or of a property's value,  *)
(* nameAt the offset from the tree at which a property's name is found, and*)
(* nameLen the name's length with the zero behind it.  An offset at which  *)
(* no token is listed holds none.                                          *)
Token == [tag : {"begin", "end", "prop", "nop", "stop"}, size : Nat,
          name : {"fstab", "linux,initrd", "other"}, nameAt : Nat,
          nameLen : Nat, value : Seq(Parts)]

Tree(toks) == [total : Nat, offStruct : Nat, toks : toks]

FilesOK ==
  \A f \in Files \cup Debris :
    /\ f \in [len : Nat, trees : [DOMAIN f.trees -> Range(f.trees)]]
    /\ \A p \in DOMAIN f.trees :
         /\ p \in Nat
         /\ f.trees[p] \in Tree([DOMAIN f.trees[p].toks -> Token])
         /\ DOMAIN f.trees[p].toks \subseteq Nat

ASSUME FilesAssumption == FilesOK

VARIABLES
  flags,     \* no_verity and want_initramfs
  calls,     \* how often the command was called
  dpc,       \* where it is: idle, scan, walk, write or panic
  pass,      \* the walk that runs
  pos, so,   \* the offsets of the walk: in the file, in the structure
  modified,  \* has this walk changed a property?
  visited,   \* the offsets of the trees this walk has entered
  over       \* the trees of which a value has overwritten something else

vars == <<disk, whole, data, flags, calls, dpc, pass, pos, so, modified, visited, over>>
walkVars == <<pass, pos, so, modified, visited>>

Passes == {"verity", "initramfs"}

Init ==
  /\ disk \in Files /\ data = disk
  /\ whole = TRUE /\ flags \in SUBSET Passes /\ calls = 0
  /\ dpc = "idle" /\ pass = "verity" /\ pos = 0 /\ so = 0
  /\ modified = FALSE /\ visited = {} /\ over = {}

-----------------------------------------------------------------------------
(* align *)
RoundUp(n) == ((n + 3) \div 4) * 4

(* A walk begins, or the command writes when none is left to do. *)
StartPass(p) ==
  /\ dpc' = "scan" /\ pass' = p /\ pos' = 0 /\ so' = 0
  /\ modified' = FALSE /\ visited' = {}

StartWrite == dpc' = "write" /\ UNCHANGED walkVars

(* cmd_dtb_patch, at first and once more with the same flags. *)
Call ==
  /\ dpc = "idle" /\ calls < 2 /\ whole
  /\ calls' = calls + 1
  /\ data' = disk
  /\ IF "verity" \in flags THEN StartPass("verity")
     ELSE IF "initramfs" \in flags THEN StartPass("initramfs")
     ELSE StartWrite
  /\ UNCHANGED <<disk, whole, flags, over>>

Room == pos + 40 <= data.len

(* The header at pos: magic, a length that fits and is more than a header. *)
Accepts ==
  /\ pos \in DOMAIN data.trees
  /\ data.trees[pos].total <= data.len - pos
  /\ data.trees[pos].total > 72

(* Mutants of NextWord: the length of a tree that is not accepted is       *)
(* skipped, or nothing.                                                    *)
BehindRejected ==
  IF pos \in DOMAIN data.trees THEN pos + RoundUp(data.trees[pos].total + 4)
  ELSE pos + 4
SameWord == pos

NextWord == pos + 4

SkipWord ==
  /\ dpc = "scan" /\ Room /\ ~Accepts
  /\ pos' = NextWord
  /\ UNCHANGED <<disk, whole, data, flags, calls, dpc, pass, so, modified, visited, over>>

EnterTree ==
  /\ dpc = "scan" /\ Room /\ Accepts
  /\ dpc' = "walk" /\ so' = 0
  /\ visited' = visited \cup {pos}
  /\ UNCHANGED <<disk, whole, data, flags, calls, pass, pos, modified, over>>

tree == data.trees[pos]

(* Where the next tree is looked for. *)
BehindTree == pos + RoundUp(tree.total)

LeaveTree ==
  /\ dpc' = "scan" /\ pos' = BehindTree
  /\ UNCHANGED <<disk, whole, data, flags, calls, pass, so, modified, visited, over>>

(* The structure is walked as far as it lies behind the header: the limit  *)
(* is off_dt_struct and not size_dt_struct.                                *)
MoreTokens == so + 12 <= tree.offStruct

InFile(o) == pos + tree.offStruct + o <= data.len

Panic ==
  /\ dpc' = "panic"
  /\ UNCHANGED <<disk, whole, data, flags, calls, walkVars, over>>

IsToken(tag) == so \in DOMAIN tree.toks /\ tree.toks[so].tag = tag
tok == tree.toks[so]

StopWalk ==
  /\ dpc = "walk"
  /\ \/ ~MoreTokens
     \/ /\ MoreTokens /\ InFile(so + 4)
        /\ ~(IsToken("begin") \/ IsToken("end") \/ IsToken("prop"))
  /\ LeaveTree

(* The tag itself lies behind the end of the file. *)
TagOutside ==
  /\ dpc = "walk" /\ MoreTokens /\ ~InFile(so + 4)
  /\ Panic

NodeEnd == RoundUp(tok.size + 1)

WalkNode ==
  /\ dpc = "walk" /\ MoreTokens /\ InFile(so + 4)
  /\ \/ IsToken("begin") /\ so' = so + 4 + NodeEnd
     \/ IsToken("end") /\ so' = so + 4
  /\ UNCHANGED <<disk, whole, data, flags, calls, dpc, pass, pos, modified, visited, over>>

(* Mutant of Kept: everything behind the first verity part goes as well. *)
KeptInFront(v) == SubSeq(v, 1, SelectInSeq(v, LAMBDA x : x = "verity") - 1)

(* Mutant of Kept: one verity part is enough. *)
KeptButOne(v) == RemoveFirst(v, "verity")

(* What is kept of a value: no verity part, nothing of a part that is not  *)
(* UTF-8.                                                                  *)
KeptPart(x) ==
  IF x = "verity" THEN <<>> ELSE IF x = "binary" THEN <<"empty">> ELSE <<x>>

Kept(v) == FlattenSeq([j \in DOMAIN v |-> KeptPart(v[j])])

(* new_val over the cleared value: no comma is written in front of the     *)
(* first part that is not empty, and zeros fill up what is left.           *)
Rewritten(v) ==
  LET k == Kept(v)
      first == SelectInSeq(k, LAMBDA x : x # "empty")
      new == IF first = 0 THEN <<>> ELSE SubSeq(k, first, Len(k))
  IN IF new = v THEN v
     ELSE IF new = <<>> THEN <<"zero">>
     ELSE IF Last(new) = "empty" THEN Front(new) \o <<"zero">>
     ELSE new

TokenLen(t) ==
  CASE t.tag = "begin" -> 4 + RoundUp(t.size + 1)
    [] t.tag = "prop"  -> 12 + RoundUp(t.size)
    [] OTHER           -> 4

(* m bytes from a on and n bytes from b on share none. *)
Disjoint(a, m, b, n) == a + m <= b \/ b + n <= a

(* The value's bytes, and what a walk reads that has none of them: the     *)
(* fields of a header, the other tokens, the names of the properties.      *)
ValueAt == pos + tree.offStruct + so + 12
Apart(a, m) == Disjoint(a, m, ValueAt, tok.size)

HeaderApart(p) == Apart(p, 16)

TokenApart(p, o) ==
  LET t == data.trees[p]  k == t.toks[o] IN
  /\ ~(p = pos /\ o = so) => Apart(p + t.offStruct + o, TokenLen(k))
  /\ k.tag = "prop" => Apart(p + k.nameAt, k.nameLen)

TreeApart(p) ==
  HeaderApart(p) /\ \A o \in DOMAIN data.trees[p].toks : TokenApart(p, o)

Hit == {p \in DOMAIN data.trees : ~TreeApart(p)}

Stored(v) == [data EXCEPT !.trees[pos].toks[so].value = v]

(* f differs from s in nothing that is apart from the value. *)
SameElsewhere(f, s) ==
  /\ f.len = s.len
  /\ \A p \in DOMAIN f.trees \cup DOMAIN s.trees : HeaderApart(p) =>
       /\ p \in DOMAIN f.trees /\ p \in DOMAIN s.trees
       /\ f.trees[p].total = s.trees[p].total
       /\ f.trees[p].offStruct = s.trees[p].offStruct
       /\ TreeApart(p) => f.trees[p] = s.trees[p]
       /\ \A o \in DOMAIN s.trees[p].toks : TokenApart(p, o) =>
            o \in DOMAIN f.trees[p].toks /\ f.trees[p].toks[o] = s.trees[p].toks[o]

(* The value's bytes are cleared and written.  What else they were part of *)
(* may be anything after that.                                             *)
Store(v) ==
  /\ \/ data' = Stored(v)
     \/ Hit # {} /\ data' \in {f \in Debris : SameElsewhere(f, Stored(v))}
  /\ over' = over \cup Hit

(* The name begins inside the file, and so does what is read of the value. *)
NameInFile == InFile(so + 12) /\ pos + tok.nameAt <= data.len
ValueInFile == InFile(so + 12 + tok.size)

(* Mutant of PropEnd: the value is not padded. *)
ValueUnpadded == so + 12 + tok.size

PropEnd == so + 12 + RoundUp(tok.size)

AtProp == dpc = "walk" /\ MoreTokens /\ InFile(so + 4) /\ IsToken("prop")
ToNextToken ==
  /\ so' = PropEnd
  /\ UNCHANGED <<disk, whole, flags, calls, dpc, pass, pos, visited>>

(* dtb_patch_verity: a value with a comma loses its verity parts.  modified*)
(* says that some value did, this one or one before it, and then this one  *)
(* is written again even if it has none.                                   *)
VerityProp ==
  /\ AtProp /\ pass = "verity" /\ NameInFile /\ ValueInFile
  /\ IF tok.name = "fstab" /\ Len(tok.value) > 1
     THEN /\ modified' = (modified \/ Contains(tok.value, "verity"))
          /\ IF modified' THEN Store(Rewritten(tok.value)) ELSE UNCHANGED <<data, over>>
     ELSE UNCHANGED <<modified, data, over>>
  /\ ToNextToken

InitrdBounds == tok.name = "linux,initrd" /\ tok.size \in {4, 8}

(* dtb_patch_initramfs: the bounds of the initrd become zero. *)
InitramfsProp ==
  /\ AtProp /\ pass = "initramfs" /\ NameInFile
  /\ IF InitrdBounds
     THEN ValueInFile /\ Store(<<"zero">>) /\ modified' = TRUE
     ELSE UNCHANGED <<modified, data, over>>
  /\ ToNextToken

(* A slice that leaves the file.  The value is not looked at by the second *)
(* walk unless it is cleared.                                              *)
PropOutside ==
  /\ AtProp
  /\ ~NameInFile \/ (~ValueInFile /\ (pass = "verity" \/ InitrdBounds))
  /\ Panic

PassDone ==
  /\ dpc = "scan" /\ ~Room
  /\ IF pass = "verity" /\ "initramfs" \in flags
     THEN StartPass("initramfs") ELSE StartWrite
  /\ UNCHANGED <<disk, whole, data, flags, calls, over>>

WriteFile ==
  /\ dpc = "write"
  /\ WriteBack
  /\ dpc' = "idle"
  /\ UNCHANGED <<data, flags, calls, walkVars, over>>

WalkStep == StopWalk \/ WalkNode \/ VerityProp \/ InitramfsProp

Next ==
  \/ Call
  \/ SkipWord \/ EnterTree \/ PassDone
  \/ WalkStep \/ TagOutside \/ PropOutside
  \/ WriteFile

(* The walks are loops of one thread; nobody has to call the command.      *)
Spec == Init /\ [][Next]_vars /\ WF_vars(Next /\ dpc # "idle")

-----------------------------------------------------------------------------
(* Properties. *)

(* A tree as the Devicetree Specification defines it: from offset 0 on,    *)
(* each token of the structure is followed by the next, up to FDT_END, and *)
(* no two of the header, the tokens and the names share a byte.            *)
Sound(t) ==
  /\ 40 <= t.offStruct /\ 0 \in DOMAIN t.toks
  /\ \A o \in DOMAIN t.toks :
       LET k == t.toks[o] IN
       /\ t.offStruct + o + TokenLen(k) <= t.total
       /\ k.tag # "stop" => o + TokenLen(k) \in DOMAIN t.toks
       /\ k.tag = "prop" => 40 <= k.nameAt /\ k.nameAt + k.nameLen <= t.total
       /\ \A r \in DOMAIN t.toks :
            /\ o < r => o + TokenLen(k) <= r
            /\ k.tag = "prop" =>
                 Disjoint(k.nameAt, k.nameLen, t.offStruct + r, TokenLen(t.toks[r]))

(* In a sound tree the walk never leaves the tokens: it never takes a name *)
(* or a value for a token, whatever their lengths, and what it cuts off at *)
(* its limit it cuts off between two tokens.  The command panics only in a *)
(* damaged tree, or in one that a damaged tree's value ran into.           *)
WalksTokens ==
  dpc \in {"walk", "panic"} /\ pos \notin over /\ Sound(tree) =>
    dpc = "walk" /\ so \in DOMAIN tree.toks

(* When a walk over the file is done it has entered every tree whose header*)
(* fits the file, wherever damaged trees and other bytes lie between them, *)
(* but for trees inside another one and trees that do not begin at a       *)
(* multiple of four.                                                       *)
TreesVisited ==
  dpc = "write" =>
    \A p \in DOMAIN data.trees :
      LET t == data.trees[p] IN
        p % 4 = 0 /\ flags # {} /\ t.total > 72 /\ p + t.total <= data.len =>
          \/ p \in visited
          \/ \E q \in visited : q < p /\ p < q + data.trees[q].total

(* Nothing but verity parts and parts that are not text is taken from an   *)
(* fstab, in no tree and after no number of calls: the texts stay and keep *)
(* their order.  The bounds of the initrd are kept or cleared, and every   *)
(* other property is as it was, unless the value that is written overlaps  *)
(* it.  A sound tree's values overlap nothing of that tree, and nothing of *)
(* another sound one behind or in front of it.                             *)
TextPart(x) == IF x \in Texts THEN <<x>> ELSE <<>>
TextsOf(v) == FlattenSeq([j \in DOMAIN v |-> TextPart(v[j])])

Beside(p, q) == Disjoint(p, data.trees[p].total, q, data.trees[q].total)

OnlyVerityLost ==
  [][data' # data =>
     /\ \A p \in DOMAIN data.trees : \A o \in DOMAIN data.trees[p].toks :
          HeaderApart(p) /\ TokenApart(p, o) =>
            LET old == data.trees[p].toks[o]  new == data'.trees[p].toks[o] IN
            /\ [new EXCEPT !.value = old.value] = old
            /\ CASE old.name = "fstab" -> TextsOf(new.value) = TextsOf(old.value)
                 [] old.name = "linux,initrd" /\ old.size \in {4, 8} ->
                      new.value \in {old.value, <<"zero">>}
                 [] OTHER -> new.value = old.value
     /\ Sound(tree) =>
          \A p \in DOMAIN data.trees :
            p = pos \/ (Sound(data.trees[p]) /\ Beside(p, pos)) => p \notin Hit]_vars

(* The command is idempotent: called again with the same flags it writes   *)
(* what is there, although what it rewrites depends on whether it has      *)
(* changed something before.  Only a value that lay over something else may*)
(* have left more to change.                                               *)
AgainChangesNothing == [][calls = 2 /\ over = {} => disk' = disk]_vars

(* Every call comes to an end. *)
CallEnds == (dpc = "scan") ~> (dpc \in {"idle", "panic"})

(* "Patch DTB (remove verity / toggle initramfs)" (main.rs): in a file that*)
(* is a sound tree no fstab is left that mentions verity.                  *)
VerityRemoved ==
  /\ dpc = "write" /\ "verity" \in flags
  /\ DOMAIN data.trees = {0} /\ Sound(data.trees[0])
  /\ data.trees[0].total = data.len
  => \A o \in DOMAIN data.trees[0].toks :
       LET t == data.trees[0].toks[o] IN
         t.tag = "prop" /\ t.name = "fstab" => ~Contains(t.value, "verity")
=============================================================================
