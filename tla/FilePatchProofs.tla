--------------------------- MODULE FilePatchProofs ----------------------------
(***************************************************************************)
(* The two commands that patch a file in place: the walks of dtb-patch over*)
(* the device trees of a file, for every file and every way its trees may  *)
(* be damaged, and the search of hex-patch, for every file and every pair  *)
(* of patterns, whatever their lengths.                                    *)
(***************************************************************************)
EXTENDS DtbPatch, HexPatch, FiniteSetTheorems, SequenceTheorems,
        WellFoundedInduction, TLAPS

(*************************************************************************)
(* dtb-patch                                                             *)
(*************************************************************************)
-----------------------------------------------------------------------------
(* The inductive invariant. *)

(* The form of a file. *)
TokenForm(t) ==
  /\ DOMAIN t = {"tag", "size", "name", "nameAt", "nameLen", "value"}
  /\ t.size \in Nat /\ t.nameAt \in Nat /\ t.nameLen \in Nat

TreeForm(t) ==
  /\ DOMAIN t = {"total", "offStruct", "toks"}
  /\ t.total \in Nat /\ t.offStruct \in Nat
  /\ \A o \in DOMAIN t.toks : o \in Nat /\ TokenForm(t.toks[o])

FileForm(f) ==
  /\ DOMAIN f = {"len", "trees"} /\ f.len \in Nat
  /\ \A p \in DOMAIN f.trees : p \in Nat /\ TreeForm(f.trees[p])

(* The trees that begin in front of o, and need not be in another one, have*)
(* been entered.                                                           *)
SeenUpTo(o) ==
  \A p \in DOMAIN data.trees :
    p % 4 = 0 /\ p < o /\ data.trees[p].total > 72 /\ p + data.trees[p].total <= data.len =>
      p \in visited \/ \E q \in visited : q < p /\ p < q + data.trees[q].total

WalkTypes ==
  /\ FileForm(data) /\ FileForm(disk) /\ flags \subseteq Passes
  /\ dpc \in {"idle", "scan", "walk", "write", "panic"}
  /\ pos \in Nat /\ so \in Nat

ScanInv ==
  /\ dpc \in {"walk", "panic"} => Room /\ Accepts
  /\ dpc \in {"scan", "walk"} =>
       /\ pos % 4 = 0 /\ visited \subseteq DOMAIN data.trees /\ SeenUpTo(pos)
       /\ \A q \in visited : q <= pos
  /\ dpc = "walk" => pos \in visited

(* Two trees that differ in the values of their properties at most. *)
SameTree(old, new) ==
  /\ new.total = old.total /\ new.offStruct = old.offStruct
  /\ DOMAIN new.toks = DOMAIN old.toks
  /\ \A o \in DOMAIN old.toks :
       /\ new.toks[o].tag = old.toks[o].tag /\ new.toks[o].size = old.toks[o].size
       /\ new.toks[o].nameAt = old.toks[o].nameAt /\ new.toks[o].nameLen = old.toks[o].nameLen

(* Nothing but values changes. *)
SameForm ==
  /\ FileForm(data')
  /\ data'.len = data.len /\ DOMAIN data'.trees = DOMAIN data.trees
  /\ \A p \in DOMAIN data.trees : SameTree(data.trees[p], data'.trees[p])

(* What a walk needs to be the same when it has stored a value: the trees  *)
(* up to the one it is in, and the tokens of that one if it is in no damage*)
(* itself.                                                                 *)
SameSoFar ==
  /\ FileForm(data') /\ data'.len = data.len
  /\ \A p \in DOMAIN data.trees \cup DOMAIN data'.trees : p <= pos =>
       /\ p \in DOMAIN data.trees /\ p \in DOMAIN data'.trees
       /\ data'.trees[p].total = data.trees[p].total
  /\ over \subseteq over'
  /\ pos \notin over' => SameTree(data.trees[pos], data'.trees[pos])

DtbInv == WalkTypes /\ ScanInv /\ WalksTokens /\ TreesVisited

-----------------------------------------------------------------------------
LEMMA RoundUpFacts ==
  ASSUME NEW n \in Nat
  PROVE  /\ RoundUp(n) \in Nat /\ n <= RoundUp(n) /\ RoundUp(n) < n + 4
         /\ RoundUp(n) % 4 = 0
  BY SMT DEF RoundUp

(* The next multiple of four behind a tree is not far behind it. *)
LEMMA BetweenTrees ==
  ASSUME NEW p \in Nat, NEW o \in Nat, NEW n \in Nat,
         p % 4 = 0, o % 4 = 0, p >= o, p < o + RoundUp(n)
  PROVE  p < o + n
  BY SMT DEF RoundUp

LEMMA NextMultiple ==
  ASSUME NEW o \in Nat, NEW n \in Nat, o % 4 = 0
  PROVE  (o + RoundUp(n)) % 4 = 0 /\ (o + 4) % 4 = 0
  BY SMT DEF RoundUp

(* One value is changed. *)
LEMMA StoredFacts ==
  ASSUME FileForm(data), pos \in DOMAIN data.trees, so \in DOMAIN data.trees[pos].toks,
         NEW v, NEW f, f = Stored(v)
  PROVE  /\ DOMAIN f = DOMAIN data /\ f.len = data.len
         /\ DOMAIN f.trees = DOMAIN data.trees
         /\ \A p \in DOMAIN data.trees :
              LET old == data.trees[p]  new == f.trees[p] IN
              /\ DOMAIN new = DOMAIN old /\ new.total = old.total /\ new.offStruct = old.offStruct
              /\ DOMAIN new.toks = DOMAIN old.toks
              /\ \A o \in DOMAIN old.toks :
                   /\ DOMAIN new.toks[o] = DOMAIN old.toks[o]
                   /\ new.toks[o].tag = old.toks[o].tag
                   /\ new.toks[o].size = old.toks[o].size
                   /\ new.toks[o].name = old.toks[o].name
                   /\ new.toks[o].nameAt = old.toks[o].nameAt
                   /\ new.toks[o].nameLen = old.toks[o].nameLen
                   /\ ~(p = pos /\ o = so) => new.toks[o].value = old.toks[o].value
                   /\ p = pos /\ o = so => new.toks[o].value = v
<1> DEFINE k == [data.trees[pos].toks[so] EXCEPT !.value = v]
           ks == [data.trees[pos].toks EXCEPT ![so] = k]
           t == [data.trees[pos] EXCEPT !.toks = ks]
           ts == [data.trees EXCEPT ![pos] = t]
<1>1. f = [data EXCEPT !.trees = ts]
  BY DEF Stored
<1>2. DOMAIN data = {"len", "trees"}
  BY DEF FileForm
<1>3. /\ DOMAIN k = DOMAIN data.trees[pos].toks[so]
      /\ k.tag = data.trees[pos].toks[so].tag
      /\ k.size = data.trees[pos].toks[so].size
      /\ k.name = data.trees[pos].toks[so].name
      /\ k.nameAt = data.trees[pos].toks[so].nameAt
      /\ k.nameLen = data.trees[pos].toks[so].nameLen
      /\ k.value = v
  BY DEF FileForm, TreeForm, TokenForm
<1> HIDE DEF k
<1>4. /\ DOMAIN ks = DOMAIN data.trees[pos].toks /\ ks[so] = k
      /\ \A o \in DOMAIN data.trees[pos].toks : o # so => ks[o] = data.trees[pos].toks[o]
  OBVIOUS
<1> HIDE DEF ks
<1>5. /\ DOMAIN t = DOMAIN data.trees[pos] /\ t.toks = ks
      /\ t.total = data.trees[pos].total /\ t.offStruct = data.trees[pos].offStruct
  BY DEF FileForm, TreeForm
<1> HIDE DEF t
<1>6. /\ DOMAIN ts = DOMAIN data.trees /\ ts[pos] = t
      /\ \A p \in DOMAIN data.trees : p # pos => ts[p] = data.trees[p]
  OBVIOUS
<1> HIDE DEF ts
<1>7. DOMAIN f = DOMAIN data /\ f.len = data.len /\ f.trees = ts
  BY <1>1, <1>2
<1>8. ASSUME NEW p \in DOMAIN data.trees, p # pos
      PROVE  f.trees[p] = data.trees[p]
  BY <1>6, <1>7, <1>8
<1>9. f.trees[pos] = t
  BY <1>6, <1>7
<1>10. ASSUME NEW p \in DOMAIN data.trees
       PROVE  LET old == data.trees[p]  new == f.trees[p] IN
              /\ DOMAIN new = DOMAIN old /\ new.total = old.total /\ new.offStruct = old.offStruct
              /\ DOMAIN new.toks = DOMAIN old.toks
  <2>1. CASE p = pos
    BY <1>4, <1>5, <1>9, <2>1
  <2>2. CASE p # pos
    BY <1>8, <2>2
  <2> QED
    BY <2>1, <2>2
<1>11. ASSUME NEW p \in DOMAIN data.trees, NEW o \in DOMAIN data.trees[p].toks
       PROVE  LET old == data.trees[p].toks[o]  new == f.trees[p].toks[o] IN
              /\ DOMAIN new = DOMAIN old
              /\ new.tag = old.tag /\ new.size = old.size /\ new.name = old.name
              /\ new.nameAt = old.nameAt /\ new.nameLen = old.nameLen
              /\ ~(p = pos /\ o = so) => new.value = old.value
              /\ p = pos /\ o = so => new.value = v
  <2>1. CASE p = pos /\ o = so
    BY <1>3, <1>4, <1>5, <1>9, <2>1
  <2>2. CASE p = pos /\ o # so
    BY <1>4, <1>5, <1>9, <2>2
  <2>3. CASE p # pos
    BY <1>8, <2>3
  <2> QED
    BY <2>1, <2>2, <2>3
<1>12. DOMAIN f.trees = DOMAIN data.trees
  BY <1>6, <1>7
<1> QED
  BY <1>7, <1>10, <1>11, <1>12

LEMMA StoredForm ==
  ASSUME FileForm(data), pos \in DOMAIN data.trees, so \in DOMAIN data.trees[pos].toks,
         NEW v, data' = Stored(v)
  PROVE  SameForm
<1>1. /\ DOMAIN data' = DOMAIN data /\ data'.len = data.len
      /\ DOMAIN data'.trees = DOMAIN data.trees
  BY StoredFacts
<1>2. ASSUME NEW p \in DOMAIN data.trees
      PROVE  /\ DOMAIN data'.trees[p] = DOMAIN data.trees[p]
             /\ data'.trees[p].total = data.trees[p].total
             /\ data'.trees[p].offStruct = data.trees[p].offStruct
             /\ DOMAIN data'.trees[p].toks = DOMAIN data.trees[p].toks
  BY StoredFacts
<1>3. ASSUME NEW p \in DOMAIN data.trees, NEW o \in DOMAIN data.trees[p].toks
      PROVE  /\ DOMAIN data'.trees[p].toks[o] = DOMAIN data.trees[p].toks[o]
             /\ data'.trees[p].toks[o].tag = data.trees[p].toks[o].tag
             /\ data'.trees[p].toks[o].size = data.trees[p].toks[o].size
             /\ data'.trees[p].toks[o].nameAt = data.trees[p].toks[o].nameAt
             /\ data'.trees[p].toks[o].nameLen = data.trees[p].toks[o].nameLen
  BY StoredFacts
<1>4. ASSUME NEW p \in DOMAIN data'.trees
      PROVE  p \in Nat /\ TreeForm(data'.trees[p])
  <2>1. p \in DOMAIN data.trees /\ p \in Nat /\ TreeForm(data.trees[p])
    BY <1>1, <1>4 DEF FileForm
  <2>2. ASSUME NEW o \in DOMAIN data'.trees[p].toks
        PROVE  o \in Nat /\ TokenForm(data'.trees[p].toks[o])
    <3>1. o \in DOMAIN data.trees[p].toks
      BY <1>2, <2>1, <2>2
    <3>2. o \in Nat /\ TokenForm(data.trees[p].toks[o])
      BY <2>1, <3>1 DEF TreeForm
    <3> QED
      BY <1>3, <2>1, <3>1, <3>2 DEF TokenForm
  <2>3. /\ DOMAIN data'.trees[p] = {"total", "offStruct", "toks"}
        /\ data'.trees[p].total \in Nat /\ data'.trees[p].offStruct \in Nat
    BY <1>2, <2>1 DEF TreeForm
  <2> QED
    BY <2>1, <2>2, <2>3 DEF TreeForm
<1>5. FileForm(data')
  BY <1>1, <1>4 DEF FileForm
<1>6. \A p \in DOMAIN data.trees : SameTree(data.trees[p], data'.trees[p])
  BY <1>2, <1>3 DEF SameTree
<1> QED
  BY <1>1, <1>5, <1>6 DEF SameForm

LEMMA SameFormAlways ==
  ASSUME FileForm(data), UNCHANGED data
  PROVE  SameForm
  BY DEF SameForm, SameTree

(* What the walks change does not change whether a tree is sound. *)
LEMMA SoundKept ==
  ASSUME NEW old, NEW new, SameTree(old, new)
  PROVE  Sound(new) <=> Sound(old)
<1>1. /\ new.total = old.total /\ new.offStruct = old.offStruct
      /\ DOMAIN new.toks = DOMAIN old.toks
      /\ \A o \in DOMAIN old.toks :
           /\ new.toks[o].tag = old.toks[o].tag /\ new.toks[o].size = old.toks[o].size
           /\ new.toks[o].nameAt = old.toks[o].nameAt
           /\ new.toks[o].nameLen = old.toks[o].nameLen
  BY DEF SameTree
<1>2. \A o \in DOMAIN old.toks : TokenLen(new.toks[o]) = TokenLen(old.toks[o])
  BY <1>1 DEF TokenLen
<1> QED
  BY <1>1, <1>2 DEF Sound

LEMMA SameFormSoFar ==
  ASSUME FileForm(data), SameForm, over \subseteq over', pos \in DOMAIN data.trees
  PROVE  SameSoFar
  BY DEF SameForm, SameSoFar, SameTree

(* A file that the command may be called with, or that damage may leave. *)
LEMMA FilesFormed == \A f \in Files \cup Debris : FileForm(f)
<1> SUFFICES ASSUME NEW f \in Files \cup Debris
             PROVE  FileForm(f)
  OBVIOUS
<1>1. /\ f \in [len : Nat, trees : [DOMAIN f.trees -> Range(f.trees)]]
      /\ \A p \in DOMAIN f.trees :
           /\ p \in Nat
           /\ f.trees[p] \in Tree([DOMAIN f.trees[p].toks -> Token])
           /\ DOMAIN f.trees[p].toks \subseteq Nat
  BY FilesAssumption DEF FilesOK
<1>2. ASSUME NEW p \in DOMAIN f.trees
      PROVE  p \in Nat /\ TreeForm(f.trees[p])
  <2> DEFINE t == f.trees[p]
             D == DOMAIN t.toks
  <2>1. p \in Nat /\ t \in Tree([D -> Token]) /\ D \subseteq Nat
    BY <1>1
  <2> HIDE DEF D, t
  <2>2. /\ DOMAIN t = {"total", "offStruct", "toks"}
        /\ t.total \in Nat /\ t.offStruct \in Nat /\ t.toks \in [D -> Token]
    BY <2>1 DEF Tree
  <2>3. \A o \in D : o \in Nat /\ t.toks[o] \in Token
    BY <2>1, <2>2
  <2>4. \A k \in Token : TokenForm(k)
    BY DEF Token, TokenForm
  <2>5. DOMAIN t.toks = D
    BY DEF D
  <2> QED
    BY <2>1, <2>2, <2>3, <2>4, <2>5 DEF TreeForm, t
<1> QED
  BY <1>1, <1>2 DEF FileForm

-----------------------------------------------------------------------------
(* The steps. *)

LEMMA TreeFacts ==
  ASSUME DtbInv, dpc \in {"walk", "panic"}
  PROVE  /\ pos \in DOMAIN data.trees /\ pos \in Nat /\ TreeForm(tree) /\ data.len \in Nat
         /\ tree.total \in Nat /\ tree.offStruct \in Nat
         /\ pos + tree.total <= data.len /\ tree.total > 72
         /\ \A o \in DOMAIN tree.toks : o \in Nat /\ TokenForm(tree.toks[o])
<1>1. Room /\ Accepts /\ FileForm(data) /\ pos \in Nat
  BY DEF DtbInv, ScanInv, WalkTypes
<1>2. pos \in DOMAIN data.trees /\ tree.total <= data.len - pos /\ tree.total > 72
  BY <1>1 DEF Accepts, tree
<1>3. TreeForm(tree) /\ data.len \in Nat
  BY <1>1, <1>2 DEF FileForm, tree
<1> QED
  BY <1>1, <1>2, <1>3 DEF TreeForm

LEMMA TokenLenFacts ==
  ASSUME NEW t, TokenForm(t)
  PROVE  /\ TokenLen(t) \in Nat /\ TokenLen(t) >= 4
         /\ t.tag = "prop" => TokenLen(t) = 12 + RoundUp(t.size) /\ TokenLen(t) >= 12 + t.size
         /\ t.tag = "begin" => TokenLen(t) = 4 + RoundUp(t.size + 1)
         /\ t.tag = "end" => TokenLen(t) = 4
<1>1. t.size \in Nat /\ t.size + 1 \in Nat
  BY DEF TokenForm
<1>2. /\ RoundUp(t.size) \in Nat /\ t.size <= RoundUp(t.size)
      /\ RoundUp(t.size + 1) \in Nat
  BY <1>1, RoundUpFacts
<1>3. CASE t.tag = "prop"
  BY <1>1, <1>2, <1>3 DEF TokenLen
<1>4. CASE t.tag = "begin"
  BY <1>1, <1>2, <1>4 DEF TokenLen
<1>5. CASE t.tag # "prop" /\ t.tag # "begin"
  BY <1>5 DEF TokenLen
<1> QED
  BY <1>3, <1>4, <1>5

(* What a walk reads of a sound tree is in the tree. *)
LEMMA SoundReads ==
  ASSUME DtbInv, dpc \in {"walk", "panic"}, Sound(tree), NEW o \in DOMAIN tree.toks
  PROVE  /\ InFile(o + 4)
         /\ tree.toks[o].tag = "prop" =>
              /\ InFile(o + 12) /\ pos + tree.toks[o].nameAt <= data.len
              /\ InFile(o + 12 + tree.toks[o].size)
         /\ tree.toks[o].tag # "stop" => o + TokenLen(tree.toks[o]) \in DOMAIN tree.toks
<1> DEFINE t == tree.toks[o]
<1>1. /\ pos \in Nat /\ tree.total \in Nat /\ tree.offStruct \in Nat /\ data.len \in Nat
      /\ pos + tree.total <= data.len
      /\ o \in Nat /\ TokenForm(t)
  BY TreeFacts
<1>2. /\ TokenLen(t) \in Nat /\ TokenLen(t) >= 4
      /\ t.tag = "prop" => TokenLen(t) >= 12 + t.size
      /\ t.size \in Nat /\ t.nameAt \in Nat /\ t.nameLen \in Nat
  BY <1>1, TokenLenFacts DEF TokenForm
<1>3. /\ tree.offStruct + o + TokenLen(t) <= tree.total
      /\ t.tag # "stop" => o + TokenLen(t) \in DOMAIN tree.toks
      /\ t.tag = "prop" => t.nameAt + t.nameLen <= tree.total
  BY DEF Sound
<1> HIDE DEF t
<1>4. InFile(o + 4)
  BY <1>1, <1>2, <1>3 DEF InFile
<1>5. ASSUME t.tag = "prop"
      PROVE  InFile(o + 12) /\ pos + t.nameAt <= data.len /\ InFile(o + 12 + t.size)
  BY <1>1, <1>2, <1>3, <1>5 DEF InFile
<1> QED
  BY <1>3, <1>4, <1>5 DEF t

(* A walk over a file, or over the next one, begins. *)
LEMMA PassBegins ==
  ASSUME WalkTypes', dpc' = "scan", pos' = 0, visited' = {}
  PROVE  DtbInv'
<1>1. pos' % 4 = 0
  BY SMT
<1>2. SeenUpTo(pos)'
  <2>1. \A p \in DOMAIN data'.trees : p \in Nat
    BY DEF WalkTypes, FileForm
  <2> QED
    BY <2>1 DEF SeenUpTo
<1>3. ScanInv' /\ WalksTokens' /\ TreesVisited'
  BY <1>1, <1>2 DEF ScanInv, WalksTokens, TreesVisited
<1> QED
  BY <1>3 DEF DtbInv

LEMMA DtbInit == Init => DtbInv
<1> SUFFICES ASSUME Init
             PROVE  DtbInv
  OBVIOUS
<1>1. /\ disk \in Files /\ data = disk /\ flags \in SUBSET Passes /\ dpc = "idle"
      /\ pos = 0 /\ so = 0 /\ visited = {}
  BY DEF Init
<1>2. FileForm(disk)
  BY <1>1, FilesFormed
<1>3. WalkTypes
  BY <1>1, <1>2 DEF WalkTypes
<1>4. ScanInv /\ WalksTokens /\ TreesVisited
  BY <1>1 DEF ScanInv, WalksTokens, TreesVisited
<1> QED
  BY <1>3, <1>4 DEF DtbInv

LEMMA CallStep ==
  ASSUME DtbInv, Call
  PROVE  DtbInv'
<1>1. data' = disk /\ UNCHANGED <<disk, flags>> /\ FileForm(disk) /\ flags \subseteq Passes
  BY DEF Call, DtbInv, WalkTypes
<1>2. CASE \E p \in Passes : StartPass(p)
  <2>1. dpc' = "scan" /\ pos' = 0 /\ so' = 0 /\ visited' = {}
    BY <1>2 DEF StartPass
  <2>2. WalkTypes'
    BY <1>1, <2>1 DEF WalkTypes
  <2> QED
    BY <2>1, <2>2, PassBegins
<1>3. CASE StartWrite /\ flags = {}
  <2>1. dpc' = "write" /\ UNCHANGED <<pos, so, visited>> /\ flags' = {}
    BY <1>1, <1>3 DEF StartWrite, walkVars
  <2>2. WalkTypes'
    BY <1>1, <2>1 DEF DtbInv, WalkTypes
  <2> QED
    BY <2>1, <2>2 DEF DtbInv, ScanInv, WalksTokens, TreesVisited
<1> QED
  BY <1>1, <1>2, <1>3 DEF Call, Passes

LEMMA SkipWordStep ==
  ASSUME DtbInv, SkipWord
  PROVE  DtbInv'
<1>1. /\ dpc = "scan" /\ ~Accepts /\ pos' = pos + 4
      /\ UNCHANGED <<disk, data, flags, dpc, so, visited>>
  BY DEF SkipWord, NextWord
<1>2. /\ WalkTypes /\ FileForm(data) /\ data.len \in Nat /\ pos \in Nat /\ pos % 4 = 0
      /\ visited \subseteq DOMAIN data.trees /\ SeenUpTo(pos)
      /\ \A q \in visited : q \in Nat /\ q <= pos
  BY <1>1 DEF DtbInv, WalkTypes, ScanInv, FileForm
<1>3. /\ pos + 4 \in Nat /\ (pos + 4) % 4 = 0
      /\ \A q \in visited : q <= pos + 4
  BY <1>2
<1>4. WalkTypes'
  BY <1>1, <1>2, <1>3 DEF WalkTypes
<1>5. SeenUpTo(pos)'
  <2>1. SUFFICES
          ASSUME NEW p \in DOMAIN data.trees, p % 4 = 0, p < pos + 4,
                 data.trees[p].total > 72, p + data.trees[p].total <= data.len
          PROVE  p \in visited \/ \E q \in visited : q < p /\ p < q + data.trees[q].total
    BY <1>1 DEF SeenUpTo
  <2>2. p \in Nat /\ data.trees[p].total \in Nat
    BY <1>2 DEF FileForm, TreeForm
  <2>3. p # pos
    BY <1>1, <1>2, <2>1, <2>2 DEF Accepts
  <2>4. p < pos
    BY <1>2, <2>1, <2>2, <2>3
  <2> QED
    BY <1>2, <2>1, <2>4 DEF SeenUpTo
<1>6. ScanInv' /\ WalksTokens' /\ TreesVisited'
  BY <1>1, <1>2, <1>3, <1>5 DEF ScanInv, WalksTokens, TreesVisited
<1> QED
  BY <1>4, <1>6 DEF DtbInv

LEMMA EnterTreeStep ==
  ASSUME DtbInv, EnterTree
  PROVE  DtbInv'
<1>1. /\ dpc = "scan" /\ Room /\ Accepts /\ dpc' = "walk" /\ so' = 0
      /\ visited' = visited \cup {pos} /\ UNCHANGED <<disk, data, flags, pos>>
  BY DEF EnterTree
<1>2. /\ WalkTypes /\ pos % 4 = 0 /\ pos \in Nat
      /\ visited \subseteq DOMAIN data.trees /\ SeenUpTo(pos)
      /\ \A q \in visited \cup {pos} : q <= pos
  BY <1>1 DEF DtbInv, ScanInv, WalkTypes
<1>3. WalkTypes'
  BY <1>1, <1>2 DEF WalkTypes
<1>4. Room' /\ Accepts' /\ SeenUpTo(pos)' /\ pos \in DOMAIN data.trees
  BY <1>1, <1>2 DEF Room, Accepts, SeenUpTo
<1>5. ScanInv'
  BY <1>1, <1>2, <1>4 DEF ScanInv
<1>6. WalksTokens' /\ TreesVisited'
  BY <1>1 DEF WalksTokens, TreesVisited, Sound
<1> QED
  BY <1>3, <1>5, <1>6 DEF DtbInv

LEMMA StopWalkStep ==
  ASSUME DtbInv, StopWalk
  PROVE  DtbInv'
<1>1. /\ dpc = "walk" /\ dpc' = "scan" /\ pos' = pos + RoundUp(tree.total)
      /\ UNCHANGED <<disk, data, flags, so, visited>>
  BY DEF StopWalk, LeaveTree, BehindTree
<1>2. /\ WalkTypes /\ FileForm(data) /\ pos \in Nat /\ pos % 4 = 0 /\ pos \in visited
      /\ visited \subseteq DOMAIN data.trees /\ SeenUpTo(pos)
  BY <1>1 DEF DtbInv, WalkTypes, ScanInv
<1>3. tree.total \in Nat
  BY <1>1, TreeFacts
<1>4. RoundUp(tree.total) \in Nat
  BY <1>3, RoundUpFacts
<1>5. pos' \in Nat /\ pos' % 4 = 0
  <2>1. (pos + RoundUp(tree.total)) % 4 = 0
    BY <1>2, <1>3, NextMultiple
  <2>2. pos + RoundUp(tree.total) \in Nat
    BY <1>2, <1>4
  <2> QED
    BY <1>1, <2>1, <2>2
<1>6. WalkTypes'
  BY <1>1, <1>2, <1>5 DEF WalkTypes
<1>7. SeenUpTo(pos)'
  <2>1. SUFFICES
          ASSUME NEW p \in DOMAIN data.trees, p % 4 = 0, p < pos + RoundUp(tree.total),
                 data.trees[p].total > 72, p + data.trees[p].total <= data.len
          PROVE  p \in visited \/ \E q \in visited : q < p /\ p < q + data.trees[q].total
    BY <1>1 DEF SeenUpTo
  <2>2. p \in Nat
    BY <1>2 DEF FileForm
  <2>3. CASE p < pos
    BY <1>2, <2>1, <2>3 DEF SeenUpTo
  <2>4. CASE p = pos
    BY <1>2, <2>4
  <2>5. CASE p > pos
    <3>1. p < pos + tree.total
      BY <1>2, <1>3, <2>1, <2>2, <2>5, BetweenTrees
    <3> QED
      BY <1>2, <2>5, <3>1 DEF tree
  <2> QED
    BY <1>2, <2>2, <2>3, <2>4, <2>5
<1>8. \A q \in visited : q <= pos'
  <2>1. \A q \in visited : q \in Nat /\ q <= pos
    BY <1>1, <1>2 DEF DtbInv, ScanInv, FileForm
  <2> QED
    BY <1>1, <1>2, <1>4, <2>1
<1>9. ScanInv' /\ WalksTokens' /\ TreesVisited'
  BY <1>1, <1>2, <1>5, <1>7, <1>8 DEF ScanInv, WalksTokens, TreesVisited
<1> QED
  BY <1>6, <1>9 DEF DtbInv

(* The walk goes from a token to the next. *)
LEMMA TokenWalked ==
  ASSUME DtbInv, dpc = "walk", SameSoFar, so \in DOMAIN tree.toks, tok.tag # "stop",
         so' = so + TokenLen(tok), UNCHANGED <<disk, flags, dpc, pos, visited>>
  PROVE  DtbInv'
<1>1. /\ WalkTypes /\ ScanInv /\ WalksTokens /\ FileForm(data) /\ pos \in Nat
  BY DEF DtbInv, WalkTypes
<1>2. /\ pos \in DOMAIN data.trees /\ so \in Nat /\ TokenForm(tok) /\ Room /\ Accepts
      /\ pos % 4 = 0 /\ pos \in visited /\ visited \subseteq DOMAIN data.trees
      /\ SeenUpTo(pos) /\ \A q \in visited : q <= pos
  BY <1>1, TreeFacts DEF ScanInv, tok
<1>3. TokenLen(tok) \in Nat
  BY <1>2, TokenLenFacts
<1>4. so' \in Nat
  BY <1>2, <1>3
<1>5. /\ FileForm(data') /\ data'.len = data.len
      /\ \A p \in DOMAIN data.trees \cup DOMAIN data'.trees : p <= pos =>
           /\ p \in DOMAIN data.trees /\ p \in DOMAIN data'.trees
           /\ data'.trees[p].total = data.trees[p].total
  BY DEF SameSoFar
<1>6. WalkTypes'
  BY <1>1, <1>4, <1>5 DEF WalkTypes
<1>7. visited' \subseteq DOMAIN data'.trees
  BY <1>2, <1>5
<1>8. SeenUpTo(pos)'
  <2>1. SUFFICES
          ASSUME NEW p \in DOMAIN data'.trees, p % 4 = 0, p < pos,
                 data'.trees[p].total > 72, p + data'.trees[p].total <= data'.len
          PROVE  p \in visited \/ \E q \in visited : q < p /\ p < q + data'.trees[q].total
    BY DEF SeenUpTo
  <2>2. p \in Nat
    BY <1>5, <2>1 DEF FileForm
  <2>3. p \in DOMAIN data.trees /\ data'.trees[p].total = data.trees[p].total
    BY <1>1, <1>5, <2>1, <2>2
  <2>4. p \in visited \/ \E q \in visited : q < p /\ p < q + data.trees[q].total
    BY <1>2, <1>5, <2>1, <2>3 DEF SeenUpTo
  <2> QED
    BY <1>2, <1>5, <2>4
<1>9. Room' /\ Accepts'
  BY <1>1, <1>2, <1>5 DEF Room, Accepts
<1>10. ScanInv'
  BY <1>2, <1>7, <1>8, <1>9 DEF ScanInv
<1>11. WalksTokens'
  <2>1. SUFFICES ASSUME pos \notin over', Sound(data'.trees[pos])
                 PROVE  so' \in DOMAIN data'.trees[pos].toks
    BY DEF WalksTokens, tree
  <2>2. SameTree(tree, data'.trees[pos]) /\ pos \notin over
    BY <2>1 DEF SameSoFar, tree
  <2>3. Sound(tree)
    BY <2>1, <2>2, SoundKept
  <2>4. so + TokenLen(tok) \in DOMAIN tree.toks
    BY <2>3, SoundReads DEF tok
  <2> QED
    BY <2>2, <2>4 DEF SameTree
<1>12. TreesVisited'
  BY DEF TreesVisited
<1> QED
  BY <1>6, <1>10, <1>11, <1>12 DEF DtbInv

LEMMA NodeFacts ==
  ASSUME DtbInv, WalkNode
  PROVE  /\ dpc = "walk" /\ so \in DOMAIN tree.toks /\ pos \in DOMAIN data.trees
         /\ so' = so + TokenLen(tok)
<1>1. /\ dpc = "walk" /\ so \in DOMAIN tree.toks
      /\ \/ tok.tag = "begin" /\ so' = so + 4 + RoundUp(tok.size + 1)
         \/ tok.tag = "end" /\ so' = so + 4
  BY DEF WalkNode, IsToken, NodeEnd, tok
<1>2. TokenForm(tok) /\ so \in Nat /\ pos \in DOMAIN data.trees
  BY <1>1, TreeFacts DEF DtbInv, WalkTypes, tok
<1>3. tok.size + 1 \in Nat
  BY <1>2 DEF TokenForm
<1>4. RoundUp(tok.size + 1) \in Nat
  BY <1>3, RoundUpFacts
<1>5. so' = so + TokenLen(tok)
  BY <1>1, <1>2, <1>4, TokenLenFacts
<1> QED
  BY <1>1, <1>2, <1>5

LEMMA WalkNodeStep ==
  ASSUME DtbInv, WalkNode
  PROVE  DtbInv'
<1>1. /\ dpc = "walk" /\ so \in DOMAIN tree.toks /\ so' = so + TokenLen(tok)
      /\ UNCHANGED <<disk, data, flags, dpc, pos, visited, over>> /\ tok.tag # "stop"
      /\ pos \in DOMAIN data.trees
  BY NodeFacts DEF WalkNode, IsToken, tok
<1>2. SameSoFar
  BY <1>1, SameFormAlways, SameFormSoFar DEF DtbInv, WalkTypes
<1> QED
  BY <1>1, <1>2, TokenWalked

LEMMA PropFacts ==
  ASSUME DtbInv, AtProp
  PROVE  /\ dpc = "walk" /\ so \in DOMAIN tree.toks /\ tok.tag = "prop"
         /\ FileForm(data) /\ pos \in DOMAIN data.trees /\ PropEnd = so + TokenLen(tok)
<1>1. dpc = "walk" /\ so \in DOMAIN tree.toks /\ tok.tag = "prop"
  BY DEF AtProp, IsToken, tok
<1>2. TokenForm(tok) /\ so \in Nat /\ FileForm(data) /\ pos \in DOMAIN data.trees
  BY <1>1, TreeFacts DEF DtbInv, WalkTypes, tok
<1>3. tok.size \in Nat
  BY <1>2 DEF TokenForm
<1>4. RoundUp(tok.size) \in Nat
  BY <1>3, RoundUpFacts
<1>5. TokenLen(tok) = 12 + RoundUp(tok.size)
  BY <1>1, <1>2, TokenLenFacts
<1>6. PropEnd = so + TokenLen(tok)
  BY <1>2, <1>4, <1>5 DEF PropEnd
<1> QED
  BY <1>1, <1>2, <1>6

(* A value is stored: what the walk has read of the headers is apart from  *)
(* it, for it lies behind them.                                            *)
LEMMA StoreSoFar ==
  ASSUME DtbInv, AtProp, NEW v, Store(v)
  PROVE  SameSoFar
<1>1. /\ FileForm(data) /\ pos \in DOMAIN data.trees /\ so \in DOMAIN data.trees[pos].toks
      /\ pos \in Nat /\ so \in Nat /\ tree.offStruct \in Nat /\ so + 12 <= tree.offStruct
  BY PropFacts, TreeFacts DEF AtProp, MoreTokens, DtbInv, WalkTypes, tree
<1>2. over' = over \cup Hit
  BY DEF Store
<1>3. CASE data' = Stored(v)
  BY <1>1, <1>2, <1>3, StoredForm, SameFormSoFar
<1>4. CASE data' \in Debris /\ SameElsewhere(data', Stored(v))
  <2>1. FileForm(data')
    BY <1>4, FilesFormed
  <2> DEFINE s == Stored(v)
  <2>2. /\ s.len = data.len /\ DOMAIN s.trees = DOMAIN data.trees
        /\ \A p \in DOMAIN data.trees : s.trees[p].total = data.trees[p].total
        /\ SameTree(data.trees[pos], s.trees[pos])
    <3>1. PICK f : f = s
      OBVIOUS
    <3>2. /\ f.len = data.len /\ DOMAIN f.trees = DOMAIN data.trees
          /\ \A p \in DOMAIN data.trees : f.trees[p].total = data.trees[p].total
      BY <1>1, <3>1, StoredFacts
    <3>3. SameTree(data.trees[pos], f.trees[pos])
      BY <1>1, <3>1, StoredFacts DEF SameTree
    <3> QED
      BY <3>1, <3>2, <3>3
  <2> HIDE DEF s
  <2>3. SameElsewhere(data', s)
    BY <1>4 DEF s
  <2>4. ASSUME NEW p \in DOMAIN data.trees \cup DOMAIN data'.trees, p <= pos
        PROVE  HeaderApart(p)
    <3>1. p \in Nat
      BY <1>1, <2>1 DEF FileForm
    <3> QED
      BY <1>1, <2>4, <3>1 DEF HeaderApart, Apart, Disjoint, ValueAt
  <2>5. /\ data'.len = data.len
        /\ \A p \in DOMAIN data.trees \cup DOMAIN data'.trees : p <= pos =>
             /\ p \in DOMAIN data.trees /\ p \in DOMAIN data'.trees
             /\ data'.trees[p].total = data.trees[p].total
    BY <2>2, <2>3, <2>4 DEF SameElsewhere
  <2>6. pos \notin over' => SameTree(data.trees[pos], data'.trees[pos])
    <3>1. SUFFICES ASSUME pos \notin over'
                   PROVE  SameTree(data.trees[pos], data'.trees[pos])
      OBVIOUS
    <3>2. TreeApart(pos)
      BY <1>1, <1>2, <3>1 DEF Hit
    <3>3. HeaderApart(pos)
      BY <3>2 DEF TreeApart
    <3>4. data'.trees[pos] = s.trees[pos]
      BY <1>1, <2>2, <2>3, <3>2, <3>3 DEF SameElsewhere
    <3> QED
      BY <2>2, <3>4
  <2> QED
    BY <1>2, <2>1, <2>5, <2>6 DEF SameSoFar
<1> QED
  BY <1>3, <1>4 DEF Store

LEMMA PropWalked ==
  ASSUME DtbInv, AtProp, ToNextToken, UNCHANGED <<data, over>> \/ \E v : Store(v)
  PROVE  DtbInv'
<1>1. /\ dpc = "walk" /\ so \in DOMAIN tree.toks /\ tok.tag = "prop"
      /\ FileForm(data) /\ pos \in DOMAIN data.trees /\ PropEnd = so + TokenLen(tok)
  BY PropFacts
<1>2. so' = so + TokenLen(tok) /\ UNCHANGED <<disk, flags, dpc, pos, visited>>
  BY <1>1 DEF ToNextToken
<1>3. SameSoFar
  <2>1. CASE UNCHANGED <<data, over>>
    BY <1>1, <2>1, SameFormAlways, SameFormSoFar
  <2>2. CASE \E v : Store(v)
    BY <2>2, StoreSoFar
  <2> QED
    BY <2>1, <2>2
<1> QED
  BY <1>1, <1>2, <1>3, TokenWalked

LEMMA VerityPropStep ==
  ASSUME DtbInv, VerityProp
  PROVE  DtbInv'
<1>1. AtProp /\ ToNextToken /\ (UNCHANGED <<data, over>> \/ Store(Rewritten(tok.value)))
  BY DEF VerityProp
<1> QED
  BY <1>1, PropWalked

LEMMA InitramfsPropStep ==
  ASSUME DtbInv, InitramfsProp
  PROVE  DtbInv'
<1>1. AtProp /\ ToNextToken /\ (UNCHANGED <<data, over>> \/ Store(<<"zero">>))
  BY DEF InitramfsProp
<1> QED
  BY <1>1, PropWalked

(* A panic happens in a tree that is or has been damaged. *)
LEMMA PanicKeeps ==
  ASSUME DtbInv, dpc = "walk", Panic, pos \in over \/ ~Sound(tree)
  PROVE  DtbInv'
<1>1. dpc' = "panic" /\ UNCHANGED <<disk, data, flags, pos, so, visited, over>>
  BY DEF Panic, walkVars
<1>2. WalkTypes'
  BY <1>1 DEF DtbInv, WalkTypes
<1>3. Room' /\ Accepts' /\ (pos' \in over' \/ ~Sound(data'.trees[pos']))
  BY <1>1 DEF DtbInv, ScanInv, Room, Accepts, tree
<1>4. ScanInv' /\ WalksTokens' /\ TreesVisited'
  BY <1>1, <1>3 DEF ScanInv, WalksTokens, TreesVisited, tree
<1> QED
  BY <1>2, <1>4 DEF DtbInv

LEMMA TagOutsideStep ==
  ASSUME DtbInv, TagOutside
  PROVE  DtbInv'
<1>1. dpc = "walk" /\ ~InFile(so + 4) /\ Panic
  BY DEF TagOutside
<1>2. pos \in over \/ ~Sound(tree)
  <2>1. SUFFICES ASSUME pos \notin over, Sound(tree)
                 PROVE  FALSE
    OBVIOUS
  <2>2. so \in DOMAIN tree.toks
    BY <1>1, <2>1 DEF DtbInv, WalksTokens
  <2> QED
    BY <1>1, <2>1, <2>2, SoundReads
<1> QED
  BY <1>1, <1>2, PanicKeeps

LEMMA PropOutsideStep ==
  ASSUME DtbInv, PropOutside
  PROVE  DtbInv'
<1>1. /\ AtProp /\ Panic
      /\ ~InFile(so + 12) \/ ~(pos + tok.nameAt <= data.len) \/ ~InFile(so + 12 + tok.size)
  BY DEF PropOutside, NameInFile, ValueInFile
<1>2. dpc = "walk" /\ so \in DOMAIN tree.toks /\ tok.tag = "prop"
  BY <1>1, PropFacts
<1>3. ~Sound(tree)
  BY <1>1, <1>2, SoundReads DEF tok
<1> QED
  BY <1>1, <1>2, <1>3, PanicKeeps

LEMMA PassDoneStep ==
  ASSUME DtbInv, PassDone
  PROVE  DtbInv'
<1>1. dpc = "scan" /\ ~Room /\ UNCHANGED <<disk, data, flags>>
  BY DEF PassDone
<1>2. /\ WalkTypes /\ FileForm(data) /\ data.len \in Nat /\ pos \in Nat
      /\ visited \subseteq DOMAIN data.trees /\ SeenUpTo(pos)
  BY <1>1 DEF DtbInv, WalkTypes, ScanInv, FileForm
<1>3. CASE StartPass("initramfs")
  <2>1. dpc' = "scan" /\ pos' = 0 /\ so' = 0 /\ visited' = {}
    BY <1>3 DEF StartPass
  <2>2. WalkTypes'
    BY <1>1, <1>2, <2>1 DEF WalkTypes
  <2> QED
    BY <2>1, <2>2, PassBegins
<1>4. CASE StartWrite
  <2>1. dpc' = "write" /\ UNCHANGED <<pos, so, visited>>
    BY <1>4 DEF StartWrite, walkVars
  <2>2. WalkTypes'
    BY <1>1, <1>2, <2>1 DEF WalkTypes
  <2>3. ASSUME NEW p \in DOMAIN data.trees, p % 4 = 0,
               data.trees[p].total > 72, p + data.trees[p].total <= data.len
        PROVE  p \in visited \/ \E q \in visited : q < p /\ p < q + data.trees[q].total
    <3>1. p \in Nat /\ data.trees[p].total \in Nat
      BY <1>2 DEF FileForm, TreeForm
    <3>2. p < pos
      BY <1>1, <1>2, <2>3, <3>1 DEF Room
    <3> QED
      BY <1>2, <2>3, <3>2 DEF SeenUpTo
  <2>4. TreesVisited'
    BY <1>1, <2>1, <2>3 DEF TreesVisited
  <2> QED
    BY <2>1, <2>2, <2>4 DEF DtbInv, ScanInv, WalksTokens
<1> QED
  BY <1>3, <1>4 DEF PassDone

LEMMA WriteFileStep ==
  ASSUME DtbInv, WriteFile
  PROVE  DtbInv'
<1>1. /\ dpc' = "idle" /\ UNCHANGED <<data, flags, pos, so, visited>>
      /\ disk' = data \/ disk' = disk
  BY DEF WriteFile, WriteBack, walkVars
<1>2. WalkTypes'
  BY <1>1 DEF DtbInv, WalkTypes
<1> QED
  BY <1>1, <1>2 DEF DtbInv, ScanInv, WalksTokens, TreesVisited

LEMMA DtbStep == DtbInv /\ [Next]_vars => DtbInv'
<1> SUFFICES ASSUME DtbInv, [Next]_vars
             PROVE  DtbInv'
  OBVIOUS
<1>1. CASE Call
  BY <1>1, CallStep
<1>2. CASE SkipWord
  BY <1>2, SkipWordStep
<1>3. CASE EnterTree
  BY <1>3, EnterTreeStep
<1>4. CASE PassDone
  BY <1>4, PassDoneStep
<1>5. CASE StopWalk
  BY <1>5, StopWalkStep
<1>6. CASE WalkNode
  BY <1>6, WalkNodeStep
<1>7. CASE VerityProp
  BY <1>7, VerityPropStep
<1>8. CASE InitramfsProp
  BY <1>8, InitramfsPropStep
<1>9. CASE TagOutside
  BY <1>9, TagOutsideStep
<1>10. CASE PropOutside
  BY <1>10, PropOutsideStep
<1>11. CASE WriteFile
  BY <1>11, WriteFileStep
<1>12. CASE UNCHANGED vars
  BY <1>12 DEF vars, DtbInv, WalkTypes, ScanInv, SeenUpTo, Room, Accepts, WalksTokens,
               TreesVisited, tree
<1> QED
  BY <1>1, <1>2, <1>3, <1>4, <1>5, <1>6, <1>7, <1>8, <1>9, <1>10, <1>11, <1>12
     DEF Next, WalkStep

LEMMA DtbAlways == Spec => []DtbInv
  BY DtbInit, DtbStep, PTL DEF Spec

(* WalksTokens for every file: in a tree whose tokens follow one another   *)
(* as the Devicetree Specification has it, the walks of dtb.rs stay on the *)
(* tokens and never slice outside the file.                                *)
THEOREM DtbWalksTokens == Spec => []WalksTokens
<1>1. DtbInv => WalksTokens
  BY DEF DtbInv
<1> QED
  BY <1>1, DtbAlways, PTL

(* TreesVisited for every file: no damaged tree and no stretch of other    *)
(* bytes hides a later tree from a walk.                                   *)
THEOREM DtbTreesVisited == Spec => []TreesVisited
<1>1. DtbInv => TreesVisited
  BY DEF DtbInv
<1> QED
  BY <1>1, DtbAlways, PTL

(*************************************************************************)
(* dtb-patch: the values                                                 *)
(*************************************************************************)
-----------------------------------------------------------------------------
(* A set of numbers that is not empty has a least one. *)
LEMMA LeastNumber ==
  ASSUME NEW T, T \subseteq Nat, T # {}
  PROVE  \E x \in T : \A y \in T : x <= y
<1>1. PICK x \in T : \A y \in T : <<y, x>> \notin OpToRel(<, Nat)
  BY NatLessThanWellFounded, WFMin
<1>2. \A y \in T : ~(y < x)
  BY <1>1, Zenon DEF OpToRel
<1>3. \E z \in T : \A y \in T : ~(y < z)
  BY <1>2, Zenon
<1> HIDE <1>1
<1> QED
  BY <1>3

-----------------------------------------------------------------------------
(* What FlattenSeq computes.  W[i] is what the first i sequences are put   *)
(* together.                                                               *)
Sums(n, ss, W) ==
  /\ W[0] = <<>>
  /\ \A i \in 1 .. n : W[i] = W[i - 1] \o ss[i]

LEMMA SumsExist ==
  ASSUME NEW S, NEW n \in Nat, NEW ss \in [1 .. n -> Seq(S)]
  PROVE  \E W \in [0 .. n -> Seq(S)] : Sums(n, ss, W)
<1> DEFINE D == {m \in 0 .. n : ~\E W \in [0 .. m -> Seq(S)] : Sums(m, ss, W)}
<1>1. D = {}
  <2> SUFFICES ASSUME D # {} PROVE FALSE
    OBVIOUS
  <2>1. PICK x \in D : \A y \in D : x <= y
    <3>1. D \subseteq Nat
      OBVIOUS
    <3> HIDE DEF D
    <3> QED
      BY <3>1, LeastNumber
  <2>2. x \in 0 .. n /\ ~\E W \in [0 .. x -> Seq(S)] : Sums(x, ss, W)
    BY <2>1
  <2>3. CASE x = 0
    <3> DEFINE Z == [i \in 0 .. 0 |-> <<>>]
    <3>1. Z \in [0 .. 0 -> Seq(S)] /\ Sums(0, ss, Z)
      BY DEF Sums
    <3> HIDE DEF Z
    <3> QED
      BY <2>2, <2>3, <3>1
  <2>4. CASE x # 0
    <3>1. PICK q \in Nat : x = q + 1 /\ q \in 0 .. n /\ ~(x <= q)
      <4>1. x - 1 \in Nat /\ x = (x - 1) + 1 /\ x - 1 \in 0 .. n /\ ~(x <= x - 1)
        BY <2>2, <2>4
      <4> QED
        BY <4>1
    <3>2. PICK W \in [0 .. q -> Seq(S)] : Sums(q, ss, W)
      BY <2>1, <3>1
    <3>3. PICK u, v : u = W[q] /\ v = ss[x] /\ u \in Seq(S) /\ v \in Seq(S)
      <4>1. q \in 0 .. q /\ x \in 1 .. n
        BY <2>2, <3>1
      <4> QED
        BY <3>2, <4>1
    <3>4. PICK w : w = u \o v /\ w \in Seq(S)
      <4>1. u \o v \in Seq(S)
        BY <3>3, ConcatProperties, Zenon
      <4> QED
        BY <4>1
    <3> DEFINE Z == [i \in 0 .. x |-> IF i = x THEN w ELSE W[i]]
    <3>5. Z \in [0 .. x -> Seq(S)]
      BY <3>1, <3>2, <3>4
    <3>6. Z[0] = <<>>
      BY <3>1, <3>2 DEF Sums
    <3>7. \A i \in 1 .. q : Z[i] = W[i] /\ Z[i - 1] = W[i - 1]
      BY <3>1
    <3>8. Z[x] = w /\ Z[x - 1] = u
      BY <3>1, <3>3
    <3>9. \A i \in 1 .. x : Z[i] = Z[i - 1] \o ss[i]
      <4> SUFFICES ASSUME NEW i \in 1 .. x PROVE Z[i] = Z[i - 1] \o ss[i]
        OBVIOUS
      <4>1. CASE i = x
        BY <3>3, <3>4, <3>8, <4>1
      <4>2. CASE i # x
        <5>1. i \in 1 .. q
          BY <3>1, <4>2
        <5>2. W[i] = W[i - 1] \o ss[i]
          BY <3>2, <5>1 DEF Sums
        <5> HIDE DEF Z
        <5> QED
          BY <3>7, <5>1, <5>2
      <4> QED
        BY <4>1, <4>2
    <3> HIDE DEF Z
    <3>10. Sums(x, ss, Z)
      BY <3>6, <3>9 DEF Sums
    <3> QED
      BY <2>2, <3>5, <3>10
  <2> QED
    BY <2>3, <2>4
<1>2. n \in 0 .. n
  OBVIOUS
<1> QED
  BY <1>1, <1>2

LEMMA FlattenIsSum ==
  ASSUME NEW S, NEW n \in Nat, NEW ss \in [1 .. n -> Seq(S)],
         NEW W \in [0 .. n -> Seq(S)], Sums(n, ss, W)
  PROVE  FlattenSeq(ss) = W[n]
<1>0. Len(ss) = n
  OBVIOUS
<1>1. CASE n = 0
  <2>1. ss = <<>>
    BY <1>0, <1>1
  <2> QED
    BY <1>0, <1>1, <2>1 DEF FlattenSeq, Sums
<1>2. CASE n # 0
  <2> DEFINE G(f) == [i \in 1 .. n |-> IF i = 1 THEN ss[i] ELSE f[i - 1] \o ss[i]]
             V == [i \in 1 .. n |-> W[i]]
             F == CHOOSE f : f = G(f)
  <2>1. FlattenSeq(ss) = F[n]
    BY <1>0, <1>2 DEF FlattenSeq
  <2>2. W[1] = ss[1]
    <3>0. PICK o, z : o = 1 /\ z = 0 /\ o \in 1 .. n /\ o - 1 = z
      BY <1>2
    <3>1. W[o] = W[z] \o ss[o] /\ W[z] = <<>>
      BY <3>0 DEF Sums
    <3>2. W[1] = <<>> \o ss[1] /\ 1 \in 1 .. n
      BY <3>0, <3>1
    <3>3. PICK u \in Seq(S) : u = ss[1]
      BY <3>2
    <3>4. <<>> \o u = u
      BY ConcatEmptySeq, Zenon
    <3> QED
      BY <3>2, <3>3, <3>4
  <2>3. \A i \in 1 .. n : i # 1 => V[i] = V[i - 1] \o ss[i]
    <3> SUFFICES ASSUME NEW i \in 1 .. n, i # 1
                 PROVE  V[i] = V[i - 1] \o ss[i]
      OBVIOUS
    <3>1. W[i] = W[i - 1] \o ss[i]
      BY DEF Sums
    <3>2. V[i] = W[i] /\ V[i - 1] = W[i - 1]
      OBVIOUS
    <3> HIDE DEF V
    <3> QED
      BY <3>1, <3>2
  <2>4. V[1] = ss[1]
    BY <1>2, <2>2
  <2>5. V = G(V)
    BY <2>3, <2>4
  <2>6. F = G(F)
    <3> HIDE DEF G, V
    <3> QED
      BY <2>5
  <2>7. \A i \in 1 .. n : F[i] = IF i = 1 THEN ss[i] ELSE F[i - 1] \o ss[i]
    <3> HIDE DEF F
    <3> QED
      BY <2>6
  <2> HIDE DEF F
  <2> DEFINE D == {i \in 1 .. n : F[i] # V[i]}
  <2>8. D = {}
    <3> SUFFICES ASSUME D # {} PROVE FALSE
      OBVIOUS
    <3>1. PICK x \in D : \A y \in D : x <= y
      <4>1. D \subseteq Nat
        OBVIOUS
      <4> HIDE DEF D
      <4> QED
        BY <4>1, LeastNumber
    <3>2. x # 1
      BY <2>4, <2>7, <3>1
    <3>3. PICK q : q = x - 1 /\ q \in 1 .. n /\ ~(x <= q)
      BY <3>1, <3>2
    <3>4. F[q] = V[q]
      BY <3>1, <3>3
    <3>5. x \in 1 .. n /\ F[x] # V[x]
      BY <3>1
    <3>6. F[x] = F[q] \o ss[x]
      BY <2>7, <3>2, <3>3, <3>5
    <3>7. V[x] = V[q] \o ss[x]
      <4> HIDE DEF V
      <4> QED
        BY <2>3, <3>2, <3>3, <3>5
    <3> HIDE DEF V
    <3> QED
      BY <3>4, <3>5, <3>6, <3>7, Zenon
  <2>9. F[n] = V[n] /\ V[n] = W[n]
    <3>1. n \in 1 .. n
      BY <1>2
    <3> QED
      BY <2>8, <3>1
  <2> QED
    BY <2>1, <2>9
<1> QED
  BY <1>1, <1>2

-----------------------------------------------------------------------------
(* The texts of a value.                                                   *)
TextRow(v) == [j \in 1 .. Len(v) |-> TextPart(v[j])]

LEMMA TextSums ==
  ASSUME NEW v \in Seq(Parts)
  PROVE  /\ TextRow(v) \in [1 .. Len(v) -> Seq(Texts)]
         /\ \E W \in [0 .. Len(v) -> Seq(Texts)] :
              Sums(Len(v), TextRow(v), W) /\ TextsOf(v) = W[Len(v)]
<1>1. \A x : TextPart(x) \in Seq(Texts)
  BY DEF TextPart
<1>2. TextRow(v) \in [1 .. Len(v) -> Seq(Texts)]
  BY <1>1 DEF TextRow
<1> DEFINE n == Len(v)
<1>n. n \in Nat
  OBVIOUS
<1> HIDE DEF n
<1>3. PICK W \in [0 .. n -> Seq(Texts)] : Sums(n, TextRow(v), W)
  BY <1>2, <1>n, SumsExist DEF n
<1>4. TextsOf(v) = FlattenSeq(TextRow(v))
  BY DEF TextsOf, TextRow
<1>5. FlattenSeq(TextRow(v)) = W[n]
  BY <1>2, <1>n, <1>3, FlattenIsSum DEF n
<1> QED
  BY <1>2, <1>3, <1>4, <1>5 DEF n

LEMMA TextsType ==
  ASSUME NEW v \in Seq(Parts)
  PROVE  TextsOf(v) \in Seq(Texts)
<1>1. PICK W \in [0 .. Len(v) -> Seq(Texts)] : TextsOf(v) = W[Len(v)]
  BY TextSums
<1> QED
  BY <1>1

LEMMA NothingAdded == <<>> \o <<>> = <<>>
  OBVIOUS

(* A value without text.                                                   *)
LEMMA NoTexts ==
  ASSUME NEW v \in Seq(Parts), \A j \in 1 .. Len(v) : v[j] \notin Texts
  PROVE  TextsOf(v) = <<>>
<1> DEFINE W == [i \in 0 .. Len(v) |-> <<>>]
           n == Len(v)
<1>1. \A i \in 1 .. n : TextRow(v)[i] = <<>>
  BY DEF TextRow, TextPart
<1>2. W[0] = <<>> /\ \A i \in 1 .. n : W[i] = <<>> /\ W[i - 1] = <<>>
  OBVIOUS
<1>3. W \in [0 .. n -> Seq(Texts)] /\ W[n] = <<>> /\ n \in Nat
  OBVIOUS
<1> HIDE DEF W
<1>4. Sums(n, TextRow(v), W)
  <2>1. \A i \in 1 .. n : W[i] = W[i - 1] \o TextRow(v)[i]
    BY <1>1, <1>2, NothingAdded, Zenon
  <2> QED
    BY <1>2, <2>1 DEF Sums
<1>5. TextRow(v) \in [1 .. n -> Seq(Texts)]
  BY TextSums
<1> HIDE DEF n
<1>6. FlattenSeq(TextRow(v)) = W[n]
  BY <1>3, <1>4, <1>5, FlattenIsSum
<1>7. TextsOf(v) = FlattenSeq(TextRow(v))
  BY DEF TextsOf, TextRow
<1> QED
  BY <1>3, <1>6, <1>7

LEMMA NothingHasNoTexts == TextsOf(<<>>) = <<>>
<1>1. PICK u : u = <<>>
  OBVIOUS
<1>2. u \in Seq(Parts) /\ Len(u) = 0
  BY <1>1
<1>3. \A j \in 1 .. Len(u) : u[j] \notin Texts
  BY <1>2
<1>4. TextsOf(u) = <<>>
  BY <1>2, <1>3, NoTexts
<1> QED
  BY <1>1, <1>4

LEMMA TextsOfOne ==
  ASSUME NEW x \in Parts
  PROVE  TextsOf(<<x>>) = TextPart(x)
<1>1. <<x>> \in Seq(Parts) /\ Len(<<x>>) = 1 /\ <<x>>[1] = x
  OBVIOUS
<1>2. PICK W \in [0 .. 1 -> Seq(Texts)] : Sums(1, TextRow(<<x>>), W) /\ TextsOf(<<x>>) = W[1]
  BY <1>1, TextSums
<1>3. TextRow(<<x>>)[1] = TextPart(x)
  BY <1>1 DEF TextRow
<1>4. PICK o, z : o = 1 /\ z = 0 /\ o \in 1 .. 1 /\ o - 1 = z
  OBVIOUS
<1>5. W[o] = W[z] \o TextRow(<<x>>)[o] /\ W[z] = <<>>
  BY <1>2, <1>4 DEF Sums
<1>6. W[1] = <<>> \o TextPart(x)
  BY <1>3, <1>4, <1>5
<1>7. PICK u \in Seq(Texts) : u = TextPart(x)
  <2>1. TextPart(x) \in Seq(Texts)
    BY DEF TextPart
  <2> QED
    BY <2>1
<1>8. <<>> \o u = u
  BY ConcatEmptySeq, Zenon
<1> QED
  BY <1>2, <1>6, <1>7, <1>8

LEMMA TextsJoin ==
  ASSUME NEW a \in Seq(Texts), NEW b \in Seq(Texts), NEW c \in Seq(Texts)
  PROVE  (a \o b) \o c = a \o (b \o c)
  BY ConcatAssociative

LEMMA TextsConcat ==
  ASSUME NEW s \in Seq(Parts), NEW t \in Seq(Parts)
  PROVE  TextsOf(s \o t) = TextsOf(s) \o TextsOf(t)
<1> DEFINE n == Len(s)
           m == Len(t)
<1>1. PICK r : r = s \o t
  OBVIOUS
<1>2. /\ r \in Seq(Parts) /\ Len(r) = n + m /\ n \in Nat /\ m \in Nat
      /\ \A i \in 1 .. n + m : r[i] = IF i <= n THEN s[i] ELSE t[i - n]
  <2>1. /\ s \o t \in Seq(Parts) /\ Len(s \o t) = Len(s) + Len(t)
        /\ \A i \in 1 .. Len(s) + Len(t) :
             (s \o t)[i] = IF i <= Len(s) THEN s[i] ELSE t[i - Len(s)]
    BY ConcatProperties, Zenon
  <2> QED
    BY <1>1, <2>1
<1>3. PICK U \in [0 .. n -> Seq(Texts)] : Sums(n, TextRow(s), U) /\ TextsOf(s) = U[n]
  BY TextSums
<1>4. PICK V \in [0 .. m -> Seq(Texts)] : Sums(m, TextRow(t), V) /\ TextsOf(t) = V[m]
  BY TextSums
<1>5. /\ TextRow(s) \in [1 .. n -> Seq(Texts)] /\ TextRow(t) \in [1 .. m -> Seq(Texts)]
      /\ TextRow(r) \in [1 .. n + m -> Seq(Texts)]
  BY <1>2, TextSums
<1>6. \A i \in 1 .. n : TextRow(r)[i] = TextRow(s)[i]
  BY <1>2 DEF TextRow
<1>7. \A i \in 1 .. m : TextRow(r)[n + i] = TextRow(t)[i]
  <2> SUFFICES ASSUME NEW i \in 1 .. m PROVE TextRow(r)[n + i] = TextRow(t)[i]
    OBVIOUS
  <2>1. n + i \in 1 .. n + m /\ ~(n + i <= n) /\ (n + i) - n = i
    BY <1>2
  <2>2. r[n + i] = t[i]
    BY <1>2, <2>1
  <2> QED
    BY <1>2, <2>1, <2>2 DEF TextRow
<1> HIDE DEF n, m
<1>8. PICK a : a = U[n] /\ a \in Seq(Texts)
  BY <1>2, <1>3
<1>9. PICK Z : Z = [i \in 0 .. m |-> a \o V[i]]
  OBVIOUS
<1>10. \A i \in 0 .. m : Z[i] = a \o V[i] /\ Z[i] \in Seq(Texts)
  <2> SUFFICES ASSUME NEW i \in 0 .. m PROVE Z[i] = a \o V[i] /\ Z[i] \in Seq(Texts)
    OBVIOUS
  <2>1. PICK b \in Seq(Texts) : b = V[i]
    BY <1>4
  <2>2. a \o b \in Seq(Texts)
    BY <1>8, ConcatProperties, Zenon
  <2> QED
    BY <1>9, <2>1, <2>2
<1>11. PICK W : W = [i \in 0 .. n + m |-> IF i <= n THEN U[i] ELSE Z[i - n]]
  OBVIOUS
<1>12. W \in [0 .. n + m -> Seq(Texts)]
  BY <1>2, <1>3, <1>10, <1>11
<1>13. \A i \in 0 .. n : W[i] = U[i]
  BY <1>2, <1>11
<1>14. \A i \in 0 .. m : W[n + i] = Z[i]
  <2> SUFFICES ASSUME NEW i \in 0 .. m PROVE W[n + i] = Z[i]
    OBVIOUS
  <2>1. CASE i = 0
    <3>1. V[0] = <<>> /\ Z[0] = a \o V[0]
      <4>1. V[0] = <<>>
        BY <1>4 DEF Sums
      <4>2. 0 \in 0 .. m
        BY <1>2
      <4> QED
        BY <1>10, <4>1, <4>2
    <3>2. a \o <<>> = a
      BY <1>8, ConcatEmptySeq, Zenon
    <3>3. W[n] = U[n] /\ n + i = n
      BY <1>2, <1>13, <2>1
    <3> QED
      BY <1>8, <2>1, <3>1, <3>2, <3>3
  <2>2. CASE i # 0
    <3>1. n + i \in 0 .. n + m /\ ~(n + i <= n) /\ (n + i) - n = i
      BY <1>2, <2>2
    <3> QED
      BY <1>11, <3>1
  <2> QED
    BY <2>1, <2>2
<1>15. W[0] = <<>>
  <2>1. U[0] = <<>>
    BY <1>3 DEF Sums
  <2>2. 0 \in 0 .. n
    BY <1>2
  <2> QED
    BY <1>13, <2>1, <2>2
<1>16. ASSUME NEW i \in 1 .. n + m
       PROVE  W[i] = W[i - 1] \o TextRow(r)[i]
  <2>1. CASE i <= n
    <3>1. i \in 1 .. n /\ i \in 0 .. n /\ i - 1 \in 0 .. n
      BY <1>2, <2>1
    <3>2. U[i] = U[i - 1] \o TextRow(s)[i]
      BY <1>3, <3>1 DEF Sums
    <3>3. W[i] = U[i] /\ W[i - 1] = U[i - 1] /\ TextRow(r)[i] = TextRow(s)[i]
      BY <1>6, <1>13, <3>1
    <3> QED
      BY <3>2, <3>3, Zenon
  <2>2. CASE ~(i <= n)
    <3>0. PICK k \in Nat : k = i - n /\ k # 0
      BY <1>2, <2>2
    <3>1. i = n + k /\ k \in 1 .. m /\ k \in 0 .. m /\ k - 1 \in 0 .. m /\ i - 1 = n + (k - 1)
      BY <1>2, <2>2, <3>0
    <3>2. V[k] = V[k - 1] \o TextRow(t)[k]
      BY <1>4, <3>1 DEF Sums
    <3>3. PICK b, c : b = V[k - 1] /\ c = TextRow(t)[k] /\ b \in Seq(Texts) /\ c \in Seq(Texts)
      BY <1>4, <1>5, <3>1
    <3>4. (a \o b) \o c = a \o (b \o c)
      <4>1. a \in Seq(Texts) /\ b \in Seq(Texts) /\ c \in Seq(Texts)
        BY <1>8, <3>3
      <4> QED
        BY <4>1, TextsJoin
    <3>5. W[i] = a \o V[k] /\ W[i - 1] = a \o V[k - 1] /\ TextRow(r)[i] = c
      BY <1>7, <1>10, <1>14, <3>1, <3>3
    <3> QED
      BY <3>2, <3>3, <3>4, <3>5
  <2> QED
    BY <2>1, <2>2
<1>17. Sums(n + m, TextRow(r), W)
  BY <1>15, <1>16 DEF Sums
<1>18. FlattenSeq(TextRow(r)) = W[n + m] /\ n + m \in Nat
  <2>1. n + m \in Nat
    BY <1>2
  <2> QED
    BY <1>5, <1>12, <1>17, <2>1, FlattenIsSum
<1>19. TextsOf(r) = FlattenSeq(TextRow(r))
  BY <1>2 DEF TextsOf, TextRow
<1>20. W[n + m] = a \o V[m]
  <2>1. m \in 0 .. m
    BY <1>2
  <2> QED
    BY <1>10, <1>14, <2>1
<1> QED
  BY <1>1, <1>3, <1>4, <1>8, <1>18, <1>19, <1>20

-----------------------------------------------------------------------------
(* What is written of a value.                                             *)
Clear == Parts \ {"verity"}

LEMMA ClearIsParts ==
  ASSUME NEW v \in Seq(Clear)
  PROVE  v \in Seq(Parts)
<1>1. \A j \in 1 .. Len(v) : v[j] \in Parts
  BY DEF Clear
<1> QED
  BY <1>1

LEMMA KeptPartFacts ==
  ASSUME NEW x \in Parts
  PROVE  KeptPart(x) \in Seq(Clear) /\ TextsOf(KeptPart(x)) = TextPart(x)
<1>1. CASE x = "verity"
  <2> QED
    BY <1>1, NothingHasNoTexts DEF KeptPart, TextPart, Texts
<1>2. CASE x = "binary"
  <2>1. "empty" \in Parts
    BY DEF Parts
  <2>2. TextsOf(<<"empty">>) = TextPart("empty")
    BY <2>1, TextsOfOne
  <2>3. KeptPart(x) = <<"empty">> /\ TextPart(x) = <<>> /\ TextPart("empty") = <<>>
    BY <1>2 DEF KeptPart, TextPart, Texts
  <2>4. "empty" \in Clear
    BY DEF Clear, Parts
  <2> QED
    BY <2>2, <2>3, <2>4
<1>3. CASE x # "verity" /\ x # "binary"
  <2>1. KeptPart(x) = <<x>> /\ x \in Clear
    BY <1>3 DEF KeptPart, Clear
  <2>2. TextsOf(<<x>>) = TextPart(x)
    BY TextsOfOne
  <2> QED
    BY <2>1, <2>2
<1> QED
  BY <1>1, <1>2, <1>3

LEMMA KeptFacts ==
  ASSUME NEW v \in Seq(Parts)
  PROVE  Kept(v) \in Seq(Clear) /\ TextsOf(Kept(v)) = TextsOf(v)
<1> DEFINE n == Len(v)
           K == [j \in 1 .. n |-> KeptPart(v[j])]
<1>0. n \in Nat /\ \A j \in 1 .. n : v[j] \in Parts
  OBVIOUS
<1>1. K \in [1 .. n -> Seq(Clear)] /\ \A j \in 1 .. n : K[j] = KeptPart(v[j])
  BY <1>0, KeptPartFacts
<1>2. Kept(v) = FlattenSeq(K)
  BY DEF Kept
<1> HIDE DEF K
<1>3. PICK U \in [0 .. n -> Seq(Texts)] : Sums(n, TextRow(v), U) /\ TextsOf(v) = U[n]
  BY TextSums
<1>4. \A j \in 1 .. n : TextRow(v)[j] = TextPart(v[j])
  BY DEF TextRow
<1> HIDE DEF n
<1>5. PICK W \in [0 .. n -> Seq(Clear)] : Sums(n, K, W)
  BY <1>0, <1>1, SumsExist
<1>6. Kept(v) = W[n]
  BY <1>0, <1>1, <1>2, <1>5, FlattenIsSum
<1> DEFINE D == {i \in 0 .. n : TextsOf(W[i]) # U[i]}
<1>7. D = {}
  <2> SUFFICES ASSUME D # {} PROVE FALSE
    OBVIOUS
  <2>1. PICK x \in D : \A y \in D : x <= y
    <3>1. D \subseteq Nat
      OBVIOUS
    <3> HIDE DEF D
    <3> QED
      BY <3>1, LeastNumber
  <2>2. x \in 0 .. n /\ TextsOf(W[x]) # U[x]
    BY <2>1
  <2>3. CASE x = 0
    <3>1. W[0] = <<>> /\ U[0] = <<>>
      BY <1>3, <1>5 DEF Sums
    <3> QED
      BY <2>2, <2>3, <3>1, NothingHasNoTexts
  <2>4. CASE x # 0
    <3>1. PICK q : q = x - 1 /\ q \in 0 .. n /\ ~(x <= q) /\ x \in 1 .. n
      BY <1>0, <2>2, <2>4
    <3>2. TextsOf(W[q]) = U[q]
      BY <2>1, <3>1
    <3>3. W[x] = W[q] \o K[x] /\ U[x] = U[q] \o TextRow(v)[x]
      BY <1>3, <1>5, <3>1 DEF Sums
    <3>4. PICK a, b : a = W[q] /\ b = K[x] /\ a \in Seq(Clear) /\ b \in Seq(Clear)
      BY <1>1, <1>5, <3>1
    <3>5. a \in Seq(Parts) /\ b \in Seq(Parts)
      BY <3>4, ClearIsParts
    <3>6. TextsOf(a \o b) = TextsOf(a) \o TextsOf(b)
      BY <3>5, TextsConcat
    <3>7. TextsOf(b) = TextRow(v)[x]
      <4>1. v[x] \in Parts /\ b = KeptPart(v[x]) /\ TextRow(v)[x] = TextPart(v[x])
        BY <1>0, <1>1, <1>4, <3>1, <3>4
      <4> QED
        BY <4>1, KeptPartFacts
    <3> QED
      BY <2>2, <3>2, <3>3, <3>4, <3>6, <3>7
  <2> QED
    BY <2>3, <2>4
<1>8. n \in 0 .. n
  BY <1>0
<1>9. TextsOf(W[n]) = U[n] /\ W[n] \in Seq(Clear)
  BY <1>5, <1>7, <1>8
<1> QED
  BY <1>3, <1>6, <1>9

LEMMA RewrittenFacts ==
  ASSUME NEW v \in Seq(Parts)
  PROVE  Rewritten(v) \in Seq(Clear) /\ TextsOf(Rewritten(v)) = TextsOf(v)
<1> DEFINE k == Kept(v)
           I == {j \in 1 .. Len(k) : k[j] # "empty"}
           first == SelectInSeq(k, LAMBDA x : x # "empty")
           new == IF first = 0 THEN <<>> ELSE SubSeq(k, first, Len(k))
<1>1. k \in Seq(Clear) /\ k \in Seq(Parts) /\ TextsOf(k) = TextsOf(v)
  BY KeptFacts, ClearIsParts
<1>2. "zero" \in Clear /\ "zero" \in Parts /\ "empty" \in Parts
  BY DEF Clear, Parts
<1>3. /\ <<>> \in Seq(Parts) /\ <<"zero">> \in Seq(Clear) /\ <<"empty">> \in Seq(Parts)
      /\ <<>> \in Seq(Clear)
      /\ TextsOf(<<>>) = <<>> /\ TextsOf(<<"zero">>) = <<>> /\ TextsOf(<<"empty">>) = <<>>
  <2>2. TextsOf(<<>>) = <<>>
    BY NothingHasNoTexts
  <2>3. TextsOf(<<"zero">>) = <<>> /\ TextsOf(<<"empty">>) = <<>>
    BY <1>2, TextsOfOne DEF TextPart, Texts
  <2> QED
    BY <1>2, <2>2, <2>3
<1>4. /\ first = 0 => \A j \in 1 .. Len(k) : k[j] = "empty"
      /\ first # 0 => first \in 1 .. Len(k) /\ \A j \in 1 .. first - 1 : k[j] = "empty"
  <2>1. first = IF I # {} THEN Min(I) ELSE 0
    BY DEF SelectInSeq
  <2>2. Len(k) \in Nat /\ I \subseteq 1 .. Len(k)
    BY <1>1
  <2>3. CASE I = {}
    BY <2>1, <2>3
  <2>4. CASE I # {}
    <3>1. \E x \in I : \A y \in I : x <= y
      <4>1. I \subseteq Nat
        BY <2>2
      <4> HIDE DEF I
      <4> QED
        BY <2>4, <4>1, LeastNumber
    <3>2. Min(I) \in I /\ \A y \in I : Min(I) <= y
      <4> HIDE DEF I
      <4> QED
        BY <3>1 DEF Min
    <3>3. first = Min(I)
      BY <2>1, <2>4
    <3> HIDE DEF first, k
    <3>0. PICK m, n : m = first /\ n = Len(k) /\ n \in Nat /\ m \in 1 .. n
      BY <2>2, <3>2, <3>3
    <3>4. first \in 1 .. Len(k) /\ \A j \in 1 .. first - 1 : j \in 1 .. Len(k) /\ ~(first <= j)
      BY <3>0
    <3> QED
      BY <2>2, <3>2, <3>3, <3>4
  <2> QED
    BY <2>3, <2>4
<1> HIDE DEF first, k
<1>5. new \in Seq(Clear) /\ new \in Seq(Parts) /\ TextsOf(new) = TextsOf(k)
  <2>1. CASE first = 0
    <3>1. \A j \in 1 .. Len(k) : k[j] \notin Texts
      BY <1>4, <2>1 DEF Texts
    <3>2. TextsOf(k) = <<>>
      BY <1>1, <3>1, NoTexts
    <3> QED
      BY <1>3, <2>1, <3>2
  <2>2. CASE first # 0
    <3>1. PICK n : n = Len(k) /\ n \in Nat /\ first \in 1 .. n
      BY <1>1, <1>4, <2>2
    <3>2. PICK f : f = SubSeq(k, 1, first - 1)
      OBVIOUS
    <3>3. PICK g : g = SubSeq(k, first, n)
      OBVIOUS
    <3>4. f \in Seq(Parts) /\ Len(f) = first - 1 /\ \A j \in 1 .. first - 1 : f[j] = "empty"
      <4>1. first - 1 \in Nat /\ first - 1 <= n
        BY <3>1
      <4>2. Len(f) = first - 1 /\ \A j \in 1 .. first - 1 : f[j] = k[j]
        BY <1>1, <3>1, <3>2, <4>1
      <4>3. \A j \in 1 .. first - 1 : f[j] = "empty"
        BY <1>4, <2>2, <4>2
      <4>4. f \in Seq(Parts)
        BY <1>1, <3>1, <3>2, <4>1
      <4> QED
        BY <4>2, <4>3, <4>4
    <3>5. g \in Seq(Clear) /\ g \in Seq(Parts)
      <4>1. g \in Seq(Clear)
        BY <1>1, <3>1, <3>3
      <4> QED
        BY <4>1, ClearIsParts
    <3>6. k = f \o g
      <4>1. PICK r \in Seq(Parts) : r = k
        BY <1>1
      <4>2. PICK m : m = first /\ m \in 1 .. n
        BY <3>1
      <4>3. f = SubSeq(r, 1, m - 1) /\ g = SubSeq(r, m, n) /\ n = Len(r)
        BY <3>1, <3>2, <3>3, <4>1, <4>2
      <4>4. PICK q : q = m - 1 /\ q \in 1 - 1 .. Len(r) /\ n \in q .. Len(r) /\ 1 \in 1 .. Len(r) + 1
                    /\ m = q + 1
        BY <3>1, <4>2, <4>3
      <4>5. SubSeq(r, 1, q) \o SubSeq(r, q + 1, n) = SubSeq(r, 1, n)
        BY <4>1, <4>4, ConcatAdjacentSubSeq
      <4>6. SubSeq(r, 1, n) = r
        BY <4>1, <4>3, SubSeqFull
      <4> QED
        BY <4>1, <4>3, <4>4, <4>5, <4>6
    <3>7. TextsOf(k) = TextsOf(f) \o TextsOf(g)
      BY <3>4, <3>5, <3>6, TextsConcat
    <3>8. TextsOf(f) = <<>>
      <4>1. \A j \in 1 .. Len(f) : f[j] \notin Texts
        BY <3>4 DEF Texts
      <4> QED
        BY <3>4, <4>1, NoTexts
    <3>9. <<>> \o TextsOf(g) = TextsOf(g)
      <4>1. PICK u \in Seq(Texts) : u = TextsOf(g)
        BY <3>5, TextsType
      <4>2. <<>> \o u = u
        BY ConcatEmptySeq, Zenon
      <4> QED
        BY <4>1, <4>2
    <3>10. new = g
      BY <2>2, <3>1, <3>3
    <3> QED
      BY <3>5, <3>7, <3>8, <3>9, <3>10
  <2> QED
    BY <2>1, <2>2
<1>6. Rewritten(v) = IF new = v THEN v
                     ELSE IF new = <<>> THEN <<"zero">>
                     ELSE IF Last(new) = "empty" THEN Front(new) \o <<"zero">>
                     ELSE new
  BY DEF Rewritten, first, k
<1> HIDE DEF new
<1>7. CASE new = v
  BY <1>1, <1>5, <1>6, <1>7
<1>8. CASE new # v /\ new = <<>>
  BY <1>1, <1>3, <1>5, <1>6, <1>8
<1>9. CASE new # v /\ new # <<>> /\ Last(new) = "empty"
  <2>1. PICK n : n = Len(new) /\ n \in Nat /\ n # 0 /\ new[n] = "empty"
    BY <1>5, <1>9 DEF Last
  <2>2. PICK f : f = Front(new) /\ f \in Seq(Clear)
    <3>1. Front(new) = SubSeq(new, 1, n - 1)
      BY <2>1 DEF Front
    <3>2. SubSeq(new, 1, n - 1) \in Seq(Clear)
      BY <1>5, <2>1
    <3> QED
      BY <3>1, <3>2
  <2>3. f \in Seq(Parts)
    BY <2>2, ClearIsParts
  <2>4. new = f \o <<"empty">>
    <3>1. f = SubSeq(new, 1, n - 1)
      BY <2>1, <2>2 DEF Front
    <3> QED
      BY <1>5, <2>1, <3>1
  <2>5. TextsOf(new) = TextsOf(f) \o <<>>
    BY <1>3, <2>3, <2>4, TextsConcat
  <2>6. TextsOf(f \o <<"zero">>) = TextsOf(f) \o <<>>
    BY <1>3, <2>3, TextsConcat, ClearIsParts
  <2>7. f \o <<"zero">> \in Seq(Clear)
    BY <1>3, <2>2
  <2>8. Rewritten(v) = f \o <<"zero">>
    BY <1>6, <1>9, <2>2
  <2> QED
    BY <1>1, <1>5, <2>5, <2>6, <2>7, <2>8
<1>10. CASE new # v /\ new # <<>> /\ Last(new) # "empty"
  BY <1>1, <1>5, <1>6, <1>10
<1> QED
  BY <1>7, <1>8, <1>9, <1>10

(*************************************************************************)
(* dtb-patch: what a step changes                                        *)
(*************************************************************************)
-----------------------------------------------------------------------------
(* A file of trees.                                                        *)
Structure == UNION {[D -> Token] : D \in SUBSET Nat}
TreeType == Tree(Structure)
TreesAt == UNION {[D -> TreeType] : D \in SUBSET Nat}
FileType == [len : Nat, trees : TreesAt]

(* The copy is what the file is, as long as the command is not at work.    *)
DataInv ==
  /\ data \in FileType /\ disk \in FileType
  /\ dpc = "idle" /\ whole => disk = data

LEMMA StructureFacts ==
  ASSUME NEW ks \in Structure
  PROVE  /\ DOMAIN ks \subseteq Nat
         /\ \A o \in DOMAIN ks : ks[o] \in Token
         /\ ks \in [DOMAIN ks -> Token]
<1>1. PICK D \in SUBSET Nat : ks \in [D -> Token]
  BY DEF Structure
<1> QED
  BY <1>1

LEMMA TreesFacts ==
  ASSUME NEW ts \in TreesAt
  PROVE  /\ DOMAIN ts \subseteq Nat
         /\ \A p \in DOMAIN ts : ts[p] \in TreeType
         /\ ts \in [DOMAIN ts -> TreeType]
<1>1. PICK D \in SUBSET Nat : ts \in [D -> TreeType]
  BY DEF TreesAt
<1> QED
  BY <1>1

LEMMA TokenFacts ==
  ASSUME NEW t \in Token, NEW v \in Seq(Parts)
  PROVE  /\ [t EXCEPT !.value = v] \in Token /\ t.value \in Seq(Parts)
         /\ [t EXCEPT !.value = v].value = v
         /\ v = t.value => [t EXCEPT !.value = v] = t
  BY DEF Token

LEMMA FilesTyped ==
  ASSUME NEW f \in Files \cup Debris
  PROVE  f \in FileType
<1>1. /\ f \in [len : Nat, trees : [DOMAIN f.trees -> Range(f.trees)]]
      /\ \A p \in DOMAIN f.trees :
           /\ p \in Nat
           /\ f.trees[p] \in Tree([DOMAIN f.trees[p].toks -> Token])
           /\ DOMAIN f.trees[p].toks \subseteq Nat
  BY FilesAssumption DEF FilesOK
<1>2. ASSUME NEW p \in DOMAIN f.trees
      PROVE  f.trees[p] \in TreeType
  <2>1. PICK D, t : /\ D = DOMAIN f.trees[p].toks /\ t = f.trees[p]
                    /\ D \in SUBSET Nat /\ t \in Tree([D -> Token])
    BY <1>1
  <2>2. [D -> Token] \in {[E -> Token] : E \in SUBSET Nat}
    BY <2>1
  <2>3. [D -> Token] \subseteq Structure
    BY <2>2 DEF Structure
  <2>4. t \in Tree(Structure)
    BY <2>1, <2>3 DEF Tree
  <2> QED
    BY <2>1, <2>4 DEF TreeType
<1>3. PICK D, ts : /\ D = DOMAIN f.trees /\ ts = f.trees /\ D \in SUBSET Nat
                   /\ ts \in [D -> TreeType]
  <2>1. PICK D, ts : D = DOMAIN f.trees /\ ts = f.trees
    OBVIOUS
  <2>2. ts \in [D -> Range(f.trees)]
    BY <1>1, <2>1
  <2>3. \A p \in D : p \in Nat /\ ts[p] \in TreeType
    BY <1>1, <1>2, <2>1
  <2> QED
    BY <2>1, <2>2, <2>3
<1>4. ts \in TreesAt
  BY <1>3 DEF TreesAt
<1> QED
  BY <1>1, <1>3, <1>4 DEF FileType

(* A value is put into a token, which leaves every other token alone; and  *)
(* nothing is changed when the value is there.                             *)
LEMMA StoredTyped ==
  ASSUME data \in FileType, pos \in DOMAIN data.trees, so \in DOMAIN data.trees[pos].toks,
         NEW v \in Seq(Parts), NEW f, f = Stored(v)
  PROVE  /\ f \in FileType
         /\ v = data.trees[pos].toks[so].value => f = data
         /\ \A p \in DOMAIN data.trees : \A o \in DOMAIN data.trees[p].toks :
              f.trees[p].toks[o] =
                IF p = pos /\ o = so THEN [data.trees[p].toks[o] EXCEPT !.value = v]
                ELSE data.trees[p].toks[o]
<1> DEFINE k == [data.trees[pos].toks[so] EXCEPT !.value = v]
           ks == [data.trees[pos].toks EXCEPT ![so] = k]
           t == [data.trees[pos] EXCEPT !.toks = ks]
           ts == [data.trees EXCEPT ![pos] = t]
<1>1. f = [data EXCEPT !.trees = ts]
  BY DEF Stored
<1>2. /\ data.len \in Nat /\ data.trees \in TreesAt /\ data.trees[pos] \in TreeType
      /\ data \in [len : Nat, trees : TreesAt]
      /\ data.trees \in [DOMAIN data.trees -> TreeType]
      /\ DOMAIN data.trees \in SUBSET Nat
  <2>1. data \in [len : Nat, trees : TreesAt]
    BY DEF FileType
  <2>2. data.len \in Nat /\ data.trees \in TreesAt
    BY <2>1
  <2> QED
    BY <2>1, <2>2, TreesFacts
<1>3. /\ data.trees[pos].toks \in Structure
      /\ data.trees[pos] \in [total : Nat, offStruct : Nat, toks : Structure]
  BY <1>2 DEF TreeType, Tree
<1>4. /\ data.trees[pos].toks[so] \in Token
      /\ data.trees[pos].toks \in [DOMAIN data.trees[pos].toks -> Token]
      /\ DOMAIN data.trees[pos].toks \in SUBSET Nat
  BY <1>3, StructureFacts
<1>5. k \in Token /\ (v = data.trees[pos].toks[so].value => k = data.trees[pos].toks[so])
  BY <1>4, TokenFacts
<1>6. k = [data.trees[pos].toks[so] EXCEPT !.value = v]
  OBVIOUS
<1> HIDE DEF k
<1>7. /\ ks \in [DOMAIN data.trees[pos].toks -> Token] /\ ks[so] = k
      /\ \A o \in DOMAIN data.trees[pos].toks : o # so => ks[o] = data.trees[pos].toks[o]
      /\ k = data.trees[pos].toks[so] => ks = data.trees[pos].toks
  BY <1>4, <1>5
<1>8. ks \in Structure
  BY <1>4, <1>7 DEF Structure
<1> HIDE DEF ks
<1>9. /\ t \in TreeType /\ t.toks = ks
      /\ ks = data.trees[pos].toks => t = data.trees[pos]
  BY <1>3, <1>8 DEF TreeType, Tree
<1> HIDE DEF t
<1>10. /\ ts \in [DOMAIN data.trees -> TreeType] /\ ts[pos] = t
       /\ \A p \in DOMAIN data.trees : p # pos => ts[p] = data.trees[p]
       /\ t = data.trees[pos] => ts = data.trees
  BY <1>2, <1>9
<1>11. ts \in TreesAt
  BY <1>2, <1>10 DEF TreesAt
<1> HIDE DEF ts
<1>12. /\ f \in FileType /\ f.trees = ts
       /\ ts = data.trees => f = data
  BY <1>1, <1>2, <1>11 DEF FileType
<1>13. v = data.trees[pos].toks[so].value => f = data
  BY <1>5, <1>7, <1>9, <1>10, <1>12
<1>14. ASSUME NEW p \in DOMAIN data.trees, NEW o \in DOMAIN data.trees[p].toks
       PROVE  f.trees[p].toks[o] =
                IF p = pos /\ o = so THEN [data.trees[p].toks[o] EXCEPT !.value = v]
                ELSE data.trees[p].toks[o]
  <2>1. CASE p = pos /\ o = so
    BY <1>6, <1>7, <1>9, <1>10, <1>12, <2>1
  <2>2. CASE p = pos /\ o # so
    BY <1>7, <1>9, <1>10, <1>12, <2>2
  <2>3. CASE p # pos
    BY <1>10, <1>12, <2>3
  <2> QED
    BY <2>1, <2>2, <2>3
<1> QED
  BY <1>12, <1>13, <1>14

LEMMA StoredPlace ==
  ASSUME data \in FileType, pos \in DOMAIN data.trees, so \in DOMAIN data.trees[pos].toks,
         NEW v \in Seq(Parts),
         NEW p \in DOMAIN data.trees, NEW o \in DOMAIN data.trees[p].toks
  PROVE  Stored(v).trees[p].toks[o] =
           IF p = pos /\ o = so THEN [data.trees[p].toks[o] EXCEPT !.value = v]
           ELSE data.trees[p].toks[o]
<1>1. PICK f : f = Stored(v)
  OBVIOUS
<1>2. f.trees[p].toks[o] =
        IF p = pos /\ o = so THEN [data.trees[p].toks[o] EXCEPT !.value = v]
        ELSE data.trees[p].toks[o]
  BY <1>1, StoredTyped
<1> QED
  BY <1>1, <1>2

(* The token of a property, and what the walks store there.                *)
LEMMA PropTyped ==
  ASSUME DtbInv, DataInv, AtProp
  PROVE  /\ dpc = "walk" /\ pos \in DOMAIN data.trees /\ so \in DOMAIN data.trees[pos].toks
         /\ tok = data.trees[pos].toks[so] /\ tok \in Token /\ tok.value \in Seq(Parts)
         /\ Rewritten(tok.value) \in Seq(Parts) /\ <<"zero">> \in Seq(Parts)
<1>1. /\ dpc = "walk" /\ so \in DOMAIN tree.toks /\ pos \in DOMAIN data.trees
  BY PropFacts
<1>2. tree = data.trees[pos] /\ tok = data.trees[pos].toks[so]
  BY DEF tree, tok
<1>3. data.trees \in TreesAt
  BY DEF DataInv, FileType
<1>4. data.trees[pos] \in TreeType
  BY <1>1, <1>3, TreesFacts
<1>5. data.trees[pos].toks \in Structure
  BY <1>4 DEF TreeType, Tree
<1>6. tok \in Token
  BY <1>1, <1>2, <1>5, StructureFacts
<1>7. tok.value \in Seq(Parts)
  BY <1>6 DEF Token
<1>8. Rewritten(tok.value) \in Seq(Parts)
  BY <1>7, RewrittenFacts, ClearIsParts
<1>9. "zero" \in Parts
  BY DEF Parts
<1> QED
  BY <1>1, <1>2, <1>6, <1>7, <1>8, <1>9

LEMMA DataInit == Init => DataInv
  BY FilesTyped DEF Init, DataInv

LEMMA DataStep == DtbInv /\ DataInv /\ [Next]_vars => DataInv'
<1> SUFFICES ASSUME DtbInv, DataInv, [Next]_vars
             PROVE  DataInv'
  OBVIOUS
<1>1. CASE Call
  <2>1. dpc' \in {"scan", "write"} /\ data' = disk /\ disk' = disk
    BY <1>1 DEF Call, StartPass, StartWrite
  <2> QED
    BY <2>1 DEF DataInv
<1>2. CASE SkipWord \/ EnterTree \/ StopWalk \/ WalkNode \/ PassDone \/ TagOutside \/ PropOutside
  <2>1. /\ UNCHANGED <<data, disk>>
        /\ dpc' # "idle"
    <3>1. CASE SkipWord
      BY <3>1 DEF SkipWord
    <3>2. CASE EnterTree
      BY <3>2 DEF EnterTree
    <3>3. CASE StopWalk
      BY <3>3 DEF StopWalk, LeaveTree
    <3>4. CASE WalkNode
      BY <3>4 DEF WalkNode
    <3>5. CASE PassDone
      BY <3>5 DEF PassDone, StartPass, StartWrite
    <3>6. CASE TagOutside
      BY <3>6 DEF TagOutside, Panic
    <3>7. CASE PropOutside
      BY <3>7 DEF PropOutside, Panic
    <3> QED
      BY <1>2, <3>1, <3>2, <3>3, <3>4, <3>5, <3>6, <3>7
  <2> QED
    BY <2>1 DEF DataInv
<1>3. CASE VerityProp \/ InitramfsProp
  <2>1. /\ AtProp /\ ToNextToken
        /\ \/ UNCHANGED data
           \/ \E v \in {Rewritten(tok.value), <<"zero">>} :
                data' = Stored(v) \/ data' \in Debris
    BY <1>3 DEF VerityProp, InitramfsProp, Store
  <2>2. dpc' = "walk" /\ disk' = disk
    BY <2>1, PropTyped DEF ToNextToken
  <2>3. data' \in FileType
    BY <2>1, PropTyped, StoredTyped, FilesTyped DEF DataInv
  <2> QED
    BY <2>2, <2>3 DEF DataInv
<1>4. CASE WriteFile
  BY <1>4 DEF WriteFile, WriteBack, DataInv
<1>5. CASE UNCHANGED vars
  BY <1>5 DEF vars, DataInv
<1> QED
  BY <1>1, <1>2, <1>3, <1>4, <1>5 DEF Next, WalkStep

LEMMA DataAlways == Spec => []DataInv
  BY DtbAlways, DataInit, DataStep, PTL DEF Spec
-----------------------------------------------------------------------------
(* What a step may do to a token.                                          *)
TokenKept(old, new) ==
  /\ [new EXCEPT !.value = old.value] = old
  /\ CASE old.name = "fstab" -> TextsOf(new.value) = TextsOf(old.value)
       [] old.name = "linux,initrd" /\ old.size \in {4, 8} ->
            new.value \in {old.value, <<"zero">>}
       [] OTHER -> new.value = old.value

LEMMA KeptAsItIs ==
  ASSUME NEW t \in Token
  PROVE  TokenKept(t, t)
  BY DEF TokenKept, Token

LEMMA KeptWithNewValue ==
  ASSUME NEW t \in Token, NEW v \in Seq(Parts),
         \/ t.name = "fstab" /\ TextsOf(v) = TextsOf(t.value)
         \/ t.name = "linux,initrd" /\ t.size \in {4, 8} /\ v = <<"zero">>
  PROVE  TokenKept(t, [t EXCEPT !.value = v])
<1>1. PICK u : u = [t EXCEPT !.value = v]
  OBVIOUS
<1>2. u.value = v /\ [u EXCEPT !.value = t.value] = t
  BY <1>1 DEF Token
<1>3. TokenKept(t, u)
  BY <1>2 DEF TokenKept
<1> QED
  BY <1>1, <1>3

(* A sound tree's value is apart from the rest of the tree, and from every *)
(* sound tree that lies beside it.                                         *)
LEMMA SoundApart ==
  ASSUME DtbInv, AtProp, Sound(tree), NEW p \in DOMAIN data.trees,
         p = pos \/ (Sound(data.trees[p]) /\ Beside(p, pos))
  PROVE  p \notin Hit
<1> DEFINE len == TokenLen(tok)
           t == data.trees[p]
<1>1. /\ pos \in Nat /\ so \in Nat /\ tree.offStruct \in Nat /\ tree.total \in Nat
      /\ so \in DOMAIN tree.toks /\ TokenForm(tok) /\ tok.size \in Nat
      /\ len \in Nat /\ len >= 12 + tok.size
      /\ ValueAt = pos + tree.offStruct + so + 12
      /\ tree = data.trees[pos]
  <2>1. dpc = "walk" /\ so \in DOMAIN tree.toks /\ tok.tag = "prop"
    BY PropFacts
  <2>2. /\ pos \in Nat /\ tree.offStruct \in Nat /\ tree.total \in Nat
        /\ so \in Nat /\ TokenForm(tok)
    BY <2>1, TreeFacts DEF tok
  <2> QED
    BY <2>1, <2>2, TokenLenFacts DEF TokenForm, ValueAt, tree
<1>2. /\ p \in Nat /\ t.total \in Nat /\ t.offStruct \in Nat
      /\ \A o \in DOMAIN t.toks :
           /\ o \in Nat /\ TokenLen(t.toks[o]) \in Nat
           /\ t.toks[o].nameAt \in Nat /\ t.toks[o].nameLen \in Nat
  <2>1. p \in Nat /\ TreeForm(t)
    BY DEF DtbInv, WalkTypes, FileForm
  <2>2. \A o \in DOMAIN t.toks : o \in Nat /\ TokenForm(t.toks[o])
    BY <2>1 DEF TreeForm
  <2> QED
    BY <2>1, <2>2, TokenLenFacts DEF TreeForm, TokenForm
<1>3. /\ Sound(t) /\ 40 <= t.offStruct /\ 0 \in DOMAIN t.toks
      /\ \A o \in DOMAIN t.toks :
           /\ t.offStruct + o + TokenLen(t.toks[o]) <= t.total
           /\ t.toks[o].tag = "prop" => t.toks[o].nameAt + t.toks[o].nameLen <= t.total
  BY <1>1 DEF Sound
<1>4. /\ 40 <= tree.offStruct /\ tree.offStruct + so + len <= tree.total
      /\ \A o \in DOMAIN tree.toks :
           /\ so < o => so + len <= o
           /\ o < so => o + TokenLen(tree.toks[o]) <= so
           /\ tree.toks[o].tag = "prop" =>
                Disjoint(tree.toks[o].nameAt, tree.toks[o].nameLen, tree.offStruct + so, len)
  <2>1. /\ 40 <= tree.offStruct /\ tree.offStruct + so + len <= tree.total
        /\ \A o \in DOMAIN tree.toks : so < o => so + len <= o
    BY <1>1 DEF Sound, tok
  <2>2. ASSUME NEW o \in DOMAIN tree.toks
        PROVE  /\ o < so => o + TokenLen(tree.toks[o]) <= so
               /\ tree.toks[o].tag = "prop" =>
                    Disjoint(tree.toks[o].nameAt, tree.toks[o].nameLen, tree.offStruct + so, len)
    BY <1>1, <2>2 DEF Sound, tok
  <2> QED
    BY <2>1, <2>2
<1> HIDE DEF len
<1>5. CASE p = pos
  <2>1. HeaderApart(p)
    BY <1>1, <1>2, <1>4, <1>5 DEF HeaderApart, Apart, Disjoint
  <2>2. ASSUME NEW o \in DOMAIN t.toks
        PROVE  TokenApart(p, o)
    <3>1. o \in DOMAIN tree.toks /\ t = tree
      BY <1>1, <1>5
    <3>2. ~(p = pos /\ o = so) => Apart(p + t.offStruct + o, TokenLen(t.toks[o]))
      BY <1>1, <1>2, <1>4, <1>5, <3>1 DEF Apart, Disjoint
    <3>3. t.toks[o].tag = "prop" => Apart(p + t.toks[o].nameAt, t.toks[o].nameLen)
      BY <1>1, <1>2, <1>4, <1>5, <3>1 DEF Apart, Disjoint
    <3> QED
      BY <3>2, <3>3 DEF TokenApart
  <2> QED
    BY <2>1, <2>2 DEF TreeApart, Hit
<1>6. CASE p # pos
  <2>1. p + t.total <= pos \/ pos + tree.total <= p
    BY <1>1, <1>6 DEF Beside, Disjoint
  <2>2. t.total >= 40
    BY <1>2, <1>3
  <2>3. HeaderApart(p)
    BY <1>1, <1>2, <1>4, <2>1, <2>2 DEF HeaderApart, Apart, Disjoint
  <2>4. ASSUME NEW o \in DOMAIN t.toks
        PROVE  TokenApart(p, o)
    <3>1. Apart(p + t.offStruct + o, TokenLen(t.toks[o]))
      BY <1>1, <1>2, <1>3, <1>4, <2>1 DEF Apart, Disjoint
    <3>2. ASSUME t.toks[o].tag = "prop"
          PROVE  Apart(p + t.toks[o].nameAt, t.toks[o].nameLen)
      <4>1. /\ t.toks[o].nameAt \in Nat /\ t.toks[o].nameLen \in Nat
            /\ t.toks[o].nameAt + t.toks[o].nameLen <= t.total
        BY <1>2, <1>3, <3>2
      <4>2. /\ ValueAt \in Nat /\ pos <= ValueAt
            /\ ValueAt + tok.size <= pos + tree.total
        BY <1>1, <1>4
      <4> QED
        BY <1>1, <1>2, <2>1, <4>1, <4>2 DEF Apart, Disjoint
    <3> QED
      BY <3>1, <3>2 DEF TokenApart
  <2> QED
    BY <2>3, <2>4 DEF TreeApart, Hit
<1> QED
  BY <1>5, <1>6

(* A step that changes the file stores one of two values in the property at*)
(* which the walk is.                                                      *)
LEMMA OnlyStores ==
  ASSUME DtbInv, DataInv, [Next]_vars, data' # data
  PROVE  /\ AtProp
         /\ \E v \in Seq(Parts) :
              /\ Store(v)
              /\ \/ tok.name = "fstab" /\ TextsOf(v) = TextsOf(tok.value)
                 \/ tok.name = "linux,initrd" /\ tok.size \in {4, 8} /\ v = <<"zero">>
<1>1. CASE Call
  BY <1>1 DEF Call, DataInv
<1>2. CASE VerityProp
  <2>1. AtProp /\ tok.name = "fstab" /\ Store(Rewritten(tok.value))
    BY <1>2 DEF VerityProp
  <2>2. /\ Rewritten(tok.value) \in Seq(Parts)
        /\ TextsOf(Rewritten(tok.value)) = TextsOf(tok.value)
    BY <2>1, PropTyped, RewrittenFacts
  <2> QED
    BY <2>1, <2>2
<1>3. CASE InitramfsProp
  <2>1. AtProp /\ tok.name = "linux,initrd" /\ tok.size \in {4, 8} /\ Store(<<"zero">>)
    BY <1>3 DEF InitramfsProp, InitrdBounds
  <2>2. <<"zero">> \in Seq(Parts)
    BY <2>1, PropTyped
  <2> QED
    BY <2>1, <2>2
<1>4. CASE ~(Call \/ VerityProp \/ InitramfsProp)
  BY <1>4 DEF Next, WalkStep, SkipWord, EnterTree, StopWalk, LeaveTree, WalkNode, PassDone,
              TagOutside, PropOutside, Panic, WriteFile, vars
<1> QED
  BY <1>1, <1>2, <1>3, <1>4

LEMMA TokensKept ==
  ASSUME DtbInv, DataInv, [Next]_vars, data' # data,
         NEW p \in DOMAIN data.trees, NEW o \in DOMAIN data.trees[p].toks,
         HeaderApart(p), TokenApart(p, o)
  PROVE  TokenKept(data.trees[p].toks[o], data'.trees[p].toks[o])
<1>1. data.trees[p].toks[o] \in Token
  <2>1. data.trees \in TreesAt
    BY DEF DataInv, FileType
  <2>2. data.trees[p] \in TreeType
    BY <2>1, TreesFacts
  <2>3. data.trees[p].toks \in Structure
    BY <2>2 DEF TreeType, Tree
  <2> QED
    BY <2>3, StructureFacts
<1>2. AtProp
  BY OnlyStores
<1>3. PICK v \in Seq(Parts) :
        /\ Store(v)
        /\ \/ tok.name = "fstab" /\ TextsOf(v) = TextsOf(tok.value)
           \/ tok.name = "linux,initrd" /\ tok.size \in {4, 8} /\ v = <<"zero">>
  BY OnlyStores
<1>4. /\ pos \in DOMAIN data.trees /\ so \in DOMAIN data.trees[pos].toks
      /\ tok = data.trees[pos].toks[so] /\ data \in FileType /\ FileForm(data)
  BY <1>2, PropTyped DEF DataInv, DtbInv, WalkTypes
<1>5. Stored(v).trees[p].toks[o] =
        IF p = pos /\ o = so THEN [data.trees[p].toks[o] EXCEPT !.value = v]
        ELSE data.trees[p].toks[o]
  <2>1. /\ v \in Seq(Parts)
        /\ data \in FileType /\ pos \in DOMAIN data.trees /\ so \in DOMAIN data.trees[pos].toks
    BY <1>4
  <2> QED
    BY <2>1, StoredPlace
<1>6. data'.trees[p].toks[o] = Stored(v).trees[p].toks[o]
  <2>1. CASE data' = Stored(v)
    BY <2>1
  <2>2. CASE SameElsewhere(data', Stored(v))
    <3>1. p \in DOMAIN Stored(v).trees /\ o \in DOMAIN Stored(v).trees[p].toks
      BY <1>4, StoredFacts
    <3> QED
      BY <2>2, <3>1 DEF SameElsewhere
  <2> QED
    BY <1>3, <2>1, <2>2 DEF Store
<1>7. CASE p = pos /\ o = so
  <2>1. tok = data.trees[p].toks[o] /\ data'.trees[p].toks[o] = [tok EXCEPT !.value = v]
    BY <1>4, <1>5, <1>6, <1>7
  <2>2. tok \in Token
    BY <1>1, <2>1
  <2>3. TokenKept(tok, [tok EXCEPT !.value = v])
    BY <1>3, <2>2, KeptWithNewValue
  <2> QED
    BY <2>1, <2>3
<1>8. CASE ~(p = pos /\ o = so)
  BY <1>1, <1>5, <1>6, <1>8, KeptAsItIs
<1> QED
  BY <1>7, <1>8

(* OnlyVerityLost for every file: whatever the walks of dtb.rs rewrite, and*)
(* in whatever tree, the texts of an fstab stay in their order and every   *)
(* other property keeps its value, but for the bounds of the initrd and    *)
(* what the value lies over; and a sound tree's values lie over nothing.   *)
THEOREM DtbOnlyVerityLost == Spec => OnlyVerityLost
<1>1. DtbInv /\ DataInv /\ [Next]_vars =>
        (data' # data =>
           /\ \A p \in DOMAIN data.trees : \A o \in DOMAIN data.trees[p].toks :
                HeaderApart(p) /\ TokenApart(p, o) =>
                  LET old == data.trees[p].toks[o]  new == data'.trees[p].toks[o] IN
                  /\ [new EXCEPT !.value = old.value] = old
                  /\ CASE old.name = "fstab" -> TextsOf(new.value) = TextsOf(old.value)
                       [] old.name = "linux,initrd" /\ old.size \in {4, 8} ->
                            new.value \in {old.value, <<"zero">>}
                       [] OTHER -> new.value = old.value
           /\ Sound(tree) =>
                \A p \in DOMAIN data.trees :
                  p = pos \/ (Sound(data.trees[p]) /\ Beside(p, pos)) => p \notin Hit)
  <2> SUFFICES ASSUME DtbInv, DataInv, [Next]_vars, data' # data
               PROVE  /\ \A p \in DOMAIN data.trees : \A o \in DOMAIN data.trees[p].toks :
                           HeaderApart(p) /\ TokenApart(p, o) =>
                             TokenKept(data.trees[p].toks[o], data'.trees[p].toks[o])
                      /\ Sound(tree) =>
                           \A p \in DOMAIN data.trees :
                             p = pos \/ (Sound(data.trees[p]) /\ Beside(p, pos)) => p \notin Hit
    BY DEF TokenKept
  <2>1. AtProp
    BY OnlyStores
  <2> QED
    BY <2>1, TokensKept, SoundApart
<1> QED
  BY <1>1, DtbAlways, DataAlways, PTL DEF Spec, OnlyVerityLost

(*************************************************************************)
(* dtb-patch: the second call                                            *)
(*************************************************************************)
-----------------------------------------------------------------------------
(* Where a walk goes depends on the form of the file alone, which no walk  *)
(* changes.  So the second call takes the way of the first one, and finds  *)
(* nothing to do at any of its places.  A place is an offset at which the  *)
(* scan looks for a tree, or a tree and an offset of its structure.        *)
Advances(t, s) ==
  s + 12 <= t.offStruct /\ s \in DOMAIN t.toks /\ t.toks[s].tag \in {"begin", "end", "prop"}

IsTree(f, p) ==
  p \in DOMAIN f.trees /\ f.trees[p].total <= f.len - p /\ f.trees[p].total > 72

(* The place behind this one is in C. *)
Onward(f, C, w, p, s) ==
  /\ w = "scan" /\ p + 40 <= f.len =>
       IF IsTree(f, p) THEN <<"walk", p, 0>> \in C ELSE <<"scan", p + 4, 0>> \in C
  /\ w = "walk" =>
       IF Advances(f.trees[p], s) THEN <<"walk", p, s + TokenLen(f.trees[p].toks[s])>> \in C
       ELSE <<"scan", p + RoundUp(f.trees[p].total), 0>> \in C

(* The walk q has nothing to change at this place. *)
NothingAt(f, q, w, p, s) ==
  w = "walk" /\ Advances(f.trees[p], s) /\ f.trees[p].toks[s].tag = "prop" =>
    LET t == f.trees[p].toks[s] IN
    IF q = "verity"
    THEN t.name = "fstab" /\ Len(t.value) > 1 => ~Contains(t.value, "verity")
    ELSE t.name = "linux,initrd" /\ t.size \in {4, 8} => t.value = <<"zero">>

(* C has the places of the walk, from the first one on to those of E. *)
Way(f, q, C, E) ==
  /\ <<"scan", 0, 0>> \in C
  /\ \A w, p, s : <<w, p, s>> \in C => (w = "walk" => p \in DOMAIN f.trees)
  /\ \A w, p, s : <<w, p, s>> \in C /\ <<w, p, s>> \notin E =>
       Onward(f, C, w, p, s) /\ NothingAt(f, q, w, p, s)

NothingLeft(f, q) == \E C : Way(f, q, C, {})

-----------------------------------------------------------------------------
Walking == dpc \in {"scan", "walk"}
HereSo == IF dpc = "walk" THEN so ELSE 0
Here == <<dpc, pos, HereSo>>

FirstCall ==
  calls = 1 =>
    /\ Walking =>
         /\ \E C : Here \in C /\ Way(data, pass, C, {Here})
         /\ pass = "initramfs" /\ "verity" \in flags => NothingLeft(data, "verity")
    /\ dpc = "write" \/ (dpc = "idle" /\ whole) => \A q \in flags : NothingLeft(data, q)

SecondCall ==
  calls = 2 /\ dpc \in {"scan", "walk", "write"} =>
    /\ data = disk
    /\ \A q \in flags : NothingLeft(data, q)
    /\ Walking =>
         /\ \E C : Here \in C /\ Way(data, pass, C, {})
         /\ pass = "verity" => modified = FALSE

AgainInv ==
  /\ calls \in {0, 1, 2} /\ (calls = 0 => dpc = "idle")
  /\ Walking => pass \in flags
  /\ FirstCall /\ SecondCall

-----------------------------------------------------------------------------
(* Nothing but values differs.                                             *)
SameShape(f, g) ==
  /\ g.len = f.len /\ DOMAIN g.trees = DOMAIN f.trees
  /\ \A p \in DOMAIN f.trees :
       /\ g.trees[p].total = f.trees[p].total
       /\ g.trees[p].offStruct = f.trees[p].offStruct
       /\ DOMAIN g.trees[p].toks = DOMAIN f.trees[p].toks
       /\ \A o \in DOMAIN f.trees[p].toks :
            /\ g.trees[p].toks[o].tag = f.trees[p].toks[o].tag
            /\ g.trees[p].toks[o].size = f.trees[p].toks[o].size
            /\ g.trees[p].toks[o].name = f.trees[p].toks[o].name

LEMMA SameShapeAlways ==
  ASSUME NEW f
  PROVE  SameShape(f, f)
  BY DEF SameShape

LEMMA AdvancesKept ==
  ASSUME NEW f, NEW g, SameShape(f, g), NEW p \in DOMAIN f.trees, NEW s
  PROVE  /\ Advances(g.trees[p], s) <=> Advances(f.trees[p], s)
         /\ Advances(f.trees[p], s) =>
              TokenLen(g.trees[p].toks[s]) = TokenLen(f.trees[p].toks[s])
  BY DEF SameShape, Advances, TokenLen

LEMMA OnwardKept ==
  ASSUME NEW f, NEW g, SameShape(f, g), NEW C, NEW K, C \subseteq K,
         NEW w, NEW p, NEW s, w = "walk" => p \in DOMAIN f.trees,
         Onward(f, C, w, p, s)
  PROVE  Onward(g, K, w, p, s)
<1>1. CASE w = "walk"
  <2>1. p \in DOMAIN f.trees
    BY <1>1
  <2>2. /\ Advances(g.trees[p], s) <=> Advances(f.trees[p], s)
        /\ Advances(f.trees[p], s) =>
              TokenLen(g.trees[p].toks[s]) = TokenLen(f.trees[p].toks[s])
    BY <2>1, AdvancesKept
  <2>3. g.trees[p].total = f.trees[p].total
    BY <2>1 DEF SameShape
  <2> QED
    BY <1>1, <2>2, <2>3 DEF Onward
<1>2. CASE w # "walk"
  <2>1. g.len = f.len /\ (IsTree(g, p) <=> IsTree(f, p))
    BY DEF SameShape, IsTree
  <2> QED
    BY <1>2, <2>1 DEF Onward
<1> QED
  BY <1>1, <1>2

LEMMA NothingKept ==
  ASSUME NEW f, NEW g, SameShape(f, g), NEW q, NEW w, NEW p, NEW s,
         w = "walk" => p \in DOMAIN f.trees,
         w = "walk" /\ s \in DOMAIN f.trees[p].toks =>
           g.trees[p].toks[s].value = f.trees[p].toks[s].value,
         NothingAt(f, q, w, p, s)
  PROVE  NothingAt(g, q, w, p, s)
<1>1. SUFFICES ASSUME w = "walk", Advances(g.trees[p], s)
               PROVE  NothingAt(g, q, w, p, s)
  BY DEF NothingAt
<1>2. p \in DOMAIN f.trees /\ Advances(f.trees[p], s)
  BY <1>1, AdvancesKept
<1>3. s \in DOMAIN f.trees[p].toks
  BY <1>2 DEF Advances
<1>4. /\ g.trees[p].toks[s].tag = f.trees[p].toks[s].tag
      /\ g.trees[p].toks[s].size = f.trees[p].toks[s].size
      /\ g.trees[p].toks[s].name = f.trees[p].toks[s].name
      /\ g.trees[p].toks[s].value = f.trees[p].toks[s].value
  BY <1>1, <1>2, <1>3 DEF SameShape
<1> QED
  BY <1>1, <1>2, <1>4 DEF NothingAt

(* The way grows by the next place, when there is nothing left to do here. *)
LEMMA WayGrows ==
  ASSUME NEW f, NEW g, SameShape(f, g), NEW q, NEW C,
         NEW w0, NEW p0, NEW s0, <<w0, p0, s0>> \in C, Way(f, q, C, {<<w0, p0, s0>>}),
         NEW w1, NEW p1, NEW s1, w1 = "walk" => p1 \in DOMAIN f.trees,
         \A w, p, s : <<w, p, s>> \in C /\ <<w, p, s>> # <<w0, p0, s0>>
                      /\ NothingAt(f, q, w, p, s) => NothingAt(g, q, w, p, s),
         NothingAt(g, q, w0, p0, s0),
         Onward(f, C \cup {<<w1, p1, s1>>}, w0, p0, s0)
  PROVE  Way(g, q, C \cup {<<w1, p1, s1>>}, {<<w1, p1, s1>>})
<1>1. PICK K : K = C \cup {<<w1, p1, s1>>}
  OBVIOUS
<1>2. <<"scan", 0, 0>> \in K /\ DOMAIN g.trees = DOMAIN f.trees /\ C \subseteq K
  BY <1>1 DEF Way, SameShape
<1>3. ASSUME NEW w, NEW p, NEW s, <<w, p, s>> \in K, w = "walk"
      PROVE  p \in DOMAIN g.trees
  BY <1>1, <1>2, <1>3 DEF Way
<1>4. ASSUME NEW w, NEW p, NEW s, <<w, p, s>> \in K, <<w, p, s>> \notin {<<w1, p1, s1>>}
      PROVE  Onward(g, K, w, p, s) /\ NothingAt(g, q, w, p, s)
  <2>1. <<w, p, s>> \in C /\ (w = "walk" => p \in DOMAIN f.trees)
    BY <1>1, <1>2, <1>3, <1>4
  <2>2. CASE <<w, p, s>> = <<w0, p0, s0>>
    <3>1. w = w0 /\ p = p0 /\ s = s0
      BY <2>2
    <3>2. Onward(f, K, w, p, s)
      BY <1>1, <3>1
    <3>3. Onward(g, K, w, p, s)
      BY <2>1, <3>2, OnwardKept
    <3> QED
      BY <3>1, <3>3
  <2>3. CASE <<w, p, s>> # <<w0, p0, s0>>
    <3>1. Onward(f, C, w, p, s) /\ NothingAt(f, q, w, p, s)
      BY <2>1, <2>3 DEF Way
    <3>2. Onward(g, K, w, p, s)
      BY <1>2, <2>1, <3>1, OnwardKept
    <3> QED
      BY <2>1, <2>3, <3>1, <3>2
  <2> QED
    BY <2>2, <2>3
<1>5. Way(g, q, K, {<<w1, p1, s1>>})
  BY <1>2, <1>3, <1>4 DEF Way
<1> QED
  BY <1>1, <1>5

LEMMA WayStays ==
  ASSUME NEW f, NEW g, SameShape(f, g), NEW q, NothingLeft(f, q),
         \A w, p, s : (w = "walk" => p \in DOMAIN f.trees) /\ NothingAt(f, q, w, p, s) =>
                        NothingAt(g, q, w, p, s)
  PROVE  NothingLeft(g, q)
<1>1. PICK C : Way(f, q, C, {})
  BY DEF NothingLeft
<1>2. <<"scan", 0, 0>> \in C /\ DOMAIN g.trees = DOMAIN f.trees
  BY <1>1 DEF Way, SameShape
<1>3. ASSUME NEW w, NEW p, NEW s, <<w, p, s>> \in C
      PROVE  /\ w = "walk" => p \in DOMAIN f.trees
             /\ Onward(g, C, w, p, s) /\ NothingAt(g, q, w, p, s)
  <2>1. /\ w = "walk" => p \in DOMAIN f.trees
        /\ Onward(f, C, w, p, s) /\ NothingAt(f, q, w, p, s)
    BY <1>1, <1>3 DEF Way
  <2>2. Onward(g, C, w, p, s)
    BY <2>1, OnwardKept
  <2> QED
    BY <2>1, <2>2
<1>4. Way(g, q, C, {})
  BY <1>2, <1>3 DEF Way
<1> QED
  BY <1>4 DEF NothingLeft

(* The way of a walk that begins.                                          *)
LEMMA WayBegins ==
  ASSUME NEW f, NEW q
  PROVE  Way(f, q, {<<"scan", 0, 0>>}, {<<"scan", 0, 0>>})
  BY DEF Way

-----------------------------------------------------------------------------
(* A step of a walk, from one place to the next.                           *)
LEMMA WalkMoves ==
  ASSUME AgainInv, Walking, Walking', UNCHANGED <<disk, flags, calls, pass>>,
         SameShape(data, data'), dpc' = "walk" => pos' \in DOMAIN data.trees,
         \A C : Onward(data, C, dpc, pos, HereSo) <=> Here' \in C,
         NothingAt(data', pass, dpc, pos, HereSo),
         \A w, p, s : /\ <<w, p, s>> # Here /\ (w = "walk" => p \in DOMAIN data.trees)
                      /\ NothingAt(data, pass, w, p, s)
                      => NothingAt(data', pass, w, p, s),
         pass = "initramfs" =>
           \A w, p, s : (w = "walk" => p \in DOMAIN data.trees)
                        /\ NothingAt(data, "verity", w, p, s)
                        => NothingAt(data', "verity", w, p, s),
         calls = 2 => data' = data /\ (pass = "verity" => modified' = FALSE)
  PROVE  AgainInv'
<1>1. PICK g, w1, p1, s1 : g = data' /\ w1 = dpc' /\ p1 = pos' /\ s1 = HereSo'
  OBVIOUS
<1>2. Here' = <<w1, p1, s1>>
  BY <1>1 DEF Here
<1>3. calls' = calls /\ disk' = disk /\ flags' = flags /\ pass' = pass /\ calls \in {1, 2}
  BY DEF AgainInv, Walking
<1>4. dpc' \in {"scan", "walk"} /\ dpc \in {"scan", "walk"}
  BY DEF Walking
<1>5. CASE calls = 1
  <2>1. PICK C : Here \in C /\ Way(data, pass, C, {Here})
    BY <1>5 DEF AgainInv, FirstCall
  <2>2. PICK K : K = C \cup {<<w1, p1, s1>>}
    OBVIOUS
  <2>3. Onward(data, K, dpc, pos, HereSo)
    BY <1>2, <2>2
  <2>4. \A w, p, s : <<w, p, s>> \in C /\ <<w, p, s>> # Here
                     /\ NothingAt(data, pass, w, p, s) => NothingAt(g, pass, w, p, s)
    BY <1>1, <2>1 DEF Way
  <2>5. /\ SameShape(data, g) /\ (w1 = "walk" => p1 \in DOMAIN data.trees)
        /\ NothingAt(g, pass, dpc, pos, HereSo)
    BY <1>1
  <2>6. /\ <<dpc, pos, HereSo>> \in C /\ Way(data, pass, C, {<<dpc, pos, HereSo>>})
        /\ \A w, p, s : <<w, p, s>> \in C /\ <<w, p, s>> # <<dpc, pos, HereSo>>
                        /\ NothingAt(data, pass, w, p, s) => NothingAt(g, pass, w, p, s)
    BY <2>1, <2>4 DEF Here
  <2>7. Way(g, pass, C \cup {<<w1, p1, s1>>}, {<<w1, p1, s1>>})
    <3> HIDE DEF HereSo
    <3> QED
      BY <2>2, <2>3, <2>5, <2>6, WayGrows
  <2>8. \E D : Here' \in D /\ Way(data', pass', D, {Here'})
    BY <1>1, <1>2, <1>3, <2>7
  <2>9. pass' = "initramfs" /\ "verity" \in flags' => NothingLeft(data', "verity")
    <3> SUFFICES ASSUME pass = "initramfs", "verity" \in flags
                 PROVE  NothingLeft(g, "verity")
      BY <1>1, <1>3
    <3>1. NothingLeft(data, "verity")
      BY <1>5 DEF AgainInv, FirstCall
    <3>2. \A w, p, s : (w = "walk" => p \in DOMAIN data.trees)
                       /\ NothingAt(data, "verity", w, p, s) => NothingAt(g, "verity", w, p, s)
      BY <1>1
    <3> QED
      BY <2>5, <3>1, <3>2, WayStays
  <2>10. FirstCall'
    BY <1>4, <2>8, <2>9 DEF FirstCall
  <2>11. SecondCall'
    BY <1>3, <1>5 DEF SecondCall
  <2> QED
    BY <1>3, <1>5, <2>10, <2>11 DEF AgainInv, Walking
<1>6. CASE calls = 2
  <2>1. /\ data = disk /\ \A q \in flags : NothingLeft(data, q)
    BY <1>4, <1>6 DEF AgainInv, SecondCall
  <2>2. PICK C : Here \in C /\ Way(data, pass, C, {})
    BY <1>4, <1>6 DEF AgainInv, SecondCall
  <2>3. Onward(data, C, dpc, pos, HereSo)
    BY <2>2 DEF Way, Here
  <2>4. Here' \in C
    BY <2>3
  <2>5. data' = data /\ (pass' = "verity" => modified' = FALSE)
    BY <1>3, <1>6
  <2>6. \E D : Here' \in D /\ Way(data', pass', D, {})
    BY <1>3, <2>2, <2>4, <2>5
  <2>7. SecondCall'
    BY <1>3, <2>1, <2>5, <2>6 DEF SecondCall
  <2>8. FirstCall'
    BY <1>3, <1>6 DEF FirstCall
  <2> QED
    BY <1>3, <1>6, <2>7, <2>8 DEF AgainInv, Walking
<1> QED
  BY <1>3, <1>5, <1>6

(* A step that changes nothing in the file. *)
LEMMA WalkMovesOn ==
  ASSUME AgainInv, Walking, Walking', UNCHANGED <<disk, data, flags, calls, pass, modified>>,
         dpc' = "walk" => pos' \in DOMAIN data.trees,
         \A C : Onward(data, C, dpc, pos, HereSo) <=> Here' \in C,
         NothingAt(data, pass, dpc, pos, HereSo)
  PROVE  AgainInv'
<1>1. SameShape(data, data') /\ NothingAt(data', pass, dpc, pos, HereSo)
  BY SameShapeAlways
<1>2. calls = 2 => data' = data /\ (pass = "verity" => modified' = FALSE)
  BY DEF AgainInv, SecondCall, Walking
<1>3. \A q, w, p, s : NothingAt(data, q, w, p, s) => NothingAt(data', q, w, p, s)
  OBVIOUS
<1> QED
  BY <1>1, <1>2, <1>3, WalkMoves

LEMMA AgainSkipWord ==
  ASSUME AgainInv, SkipWord
  PROVE  AgainInv'
<1>1. /\ dpc = "scan" /\ Room /\ ~Accepts /\ dpc' = "scan" /\ pos' = pos + 4
      /\ UNCHANGED <<disk, data, flags, calls, pass, modified>>
  BY DEF SkipWord, NextWord
<1>2. HereSo = 0 /\ Here' = <<"scan", pos + 4, 0>>
  BY <1>1 DEF HereSo, Here
<1>3. ASSUME NEW C
      PROVE  Onward(data, C, dpc, pos, HereSo) <=> Here' \in C
  BY <1>1, <1>2 DEF Onward, IsTree, Room, Accepts
<1>4. NothingAt(data, pass, dpc, pos, HereSo) /\ Walking /\ Walking'
  BY <1>1 DEF NothingAt, Walking
<1> QED
  BY <1>1, <1>3, <1>4, WalkMovesOn

LEMMA AgainEnterTree ==
  ASSUME AgainInv, EnterTree
  PROVE  AgainInv'
<1>1. /\ dpc = "scan" /\ Room /\ Accepts /\ dpc' = "walk" /\ pos' = pos /\ so' = 0
      /\ UNCHANGED <<disk, data, flags, calls, pass, modified>>
  BY DEF EnterTree
<1>2. HereSo = 0 /\ Here' = <<"walk", pos, 0>> /\ pos \in DOMAIN data.trees
  BY <1>1 DEF HereSo, Here, Accepts
<1>3. ASSUME NEW C
      PROVE  Onward(data, C, dpc, pos, HereSo) <=> Here' \in C
  BY <1>1, <1>2 DEF Onward, IsTree, Room, Accepts
<1>4. NothingAt(data, pass, dpc, pos, HereSo) /\ Walking /\ Walking'
  BY <1>1 DEF NothingAt, Walking
<1> QED
  BY <1>1, <1>2, <1>3, <1>4, WalkMovesOn

LEMMA AgainStopWalk ==
  ASSUME AgainInv, StopWalk
  PROVE  AgainInv'
<1>1. /\ dpc = "walk" /\ dpc' = "scan" /\ pos' = pos + RoundUp(tree.total)
      /\ UNCHANGED <<disk, data, flags, calls, pass, modified>>
      /\ ~MoreTokens \/ ~(IsToken("begin") \/ IsToken("end") \/ IsToken("prop"))
  BY DEF StopWalk, LeaveTree, BehindTree
<1>2. HereSo = so /\ Here' = <<"scan", pos + RoundUp(tree.total), 0>>
  BY <1>1 DEF HereSo, Here
<1>3. ~Advances(data.trees[pos], so)
  BY <1>1 DEF Advances, MoreTokens, IsToken, tree
<1>4. ASSUME NEW C
      PROVE  Onward(data, C, dpc, pos, HereSo) <=> Here' \in C
  BY <1>1, <1>2, <1>3 DEF Onward, tree
<1>5. NothingAt(data, pass, dpc, pos, HereSo) /\ Walking /\ Walking'
  BY <1>1, <1>2, <1>3 DEF NothingAt, Walking
<1> QED
  BY <1>1, <1>4, <1>5, WalkMovesOn

LEMMA AgainWalkNode ==
  ASSUME DtbInv, AgainInv, WalkNode
  PROVE  AgainInv'
<1>1. /\ dpc = "walk" /\ dpc' = "walk" /\ pos' = pos /\ so' = so + TokenLen(tok)
      /\ UNCHANGED <<disk, data, flags, calls, pass, modified>>
      /\ MoreTokens /\ so \in DOMAIN tree.toks /\ tok.tag \in {"begin", "end"}
      /\ pos \in DOMAIN data.trees
  BY NodeFacts DEF WalkNode, IsToken, tok
<1>2. HereSo = so /\ Here' = <<"walk", pos, so + TokenLen(tok)>>
  BY <1>1 DEF HereSo, Here
<1>3. Advances(data.trees[pos], so) /\ tok = data.trees[pos].toks[so]
  BY <1>1 DEF Advances, MoreTokens, tok, tree
<1>4. ASSUME NEW C
      PROVE  Onward(data, C, dpc, pos, HereSo) <=> Here' \in C
  BY <1>1, <1>2, <1>3 DEF Onward
<1>5. NothingAt(data, pass, dpc, pos, HereSo) /\ Walking /\ Walking'
  BY <1>1, <1>2, <1>3 DEF NothingAt, Walking
<1> QED
  BY <1>1, <1>4, <1>5, WalkMovesOn

(* A property, changed or not.  What is stored is clean, and changes       *)
(* nothing for the other walk.                                             *)
LEMMA PropMoves ==
  ASSUME DtbInv, DataInv, AgainInv, AtProp, ToNextToken,
         UNCHANGED data \/ \E v \in Seq(Parts) : data' = Stored(v),
         NothingAt(data', pass, "walk", pos, so),
         pass = "initramfs" /\ NothingAt(data, "verity", "walk", pos, so) =>
           NothingAt(data', "verity", "walk", pos, so),
         calls = 2 => data' = data /\ (pass = "verity" => modified' = FALSE)
  PROVE  AgainInv'
<1>1. /\ dpc = "walk" /\ pos \in DOMAIN data.trees /\ so \in DOMAIN data.trees[pos].toks
      /\ tok = data.trees[pos].toks[so] /\ data \in FileType /\ FileForm(data)
      /\ tok.tag = "prop" /\ PropEnd = so + TokenLen(tok)
  BY PropTyped, PropFacts DEF DataInv
<1>2. /\ dpc' = "walk" /\ pos' = pos /\ so' = so + TokenLen(tok)
      /\ UNCHANGED <<disk, flags, calls, pass>> /\ Walking /\ Walking'
  BY <1>1 DEF ToNextToken, Walking
<1>3. HereSo = so /\ Here = <<"walk", pos, so>> /\ Here' = <<"walk", pos, so + TokenLen(tok)>>
  BY <1>1, <1>2 DEF HereSo, Here
<1>4. Advances(data.trees[pos], so)
  BY <1>1 DEF Advances, AtProp, MoreTokens, tree
<1>5. ASSUME NEW C
      PROVE  Onward(data, C, dpc, pos, HereSo) <=> Here' \in C
  BY <1>1, <1>3, <1>4 DEF Onward
<1>6. PICK g : g = data'
  OBVIOUS
<1>7. /\ SameShape(data, g)
      /\ \A p \in DOMAIN data.trees : \A o \in DOMAIN data.trees[p].toks :
           ~(p = pos /\ o = so) => g.trees[p].toks[o].value = data.trees[p].toks[o].value
  <2>1. CASE UNCHANGED data
    BY <1>6, <2>1, SameShapeAlways
  <2>2. CASE \E v \in Seq(Parts) : data' = Stored(v)
    <3>1. PICK v \in Seq(Parts) : data' = Stored(v)
      BY <2>2
    <3>2. /\ data'.len = data.len /\ DOMAIN data'.trees = DOMAIN data.trees
      BY <1>1, <3>1, StoredFacts
    <3>3. ASSUME NEW p \in DOMAIN data.trees
          PROVE  /\ data'.trees[p].total = data.trees[p].total
                 /\ data'.trees[p].offStruct = data.trees[p].offStruct
                 /\ DOMAIN data'.trees[p].toks = DOMAIN data.trees[p].toks
      BY <1>1, <3>1, StoredFacts
    <3>4. ASSUME NEW p \in DOMAIN data.trees, NEW o \in DOMAIN data.trees[p].toks
          PROVE  /\ data'.trees[p].toks[o].tag = data.trees[p].toks[o].tag
                 /\ data'.trees[p].toks[o].size = data.trees[p].toks[o].size
                 /\ data'.trees[p].toks[o].name = data.trees[p].toks[o].name
                 /\ ~(p = pos /\ o = so) =>
                      data'.trees[p].toks[o].value = data.trees[p].toks[o].value
      BY <1>1, <3>1, StoredFacts
    <3> QED
      BY <1>6, <3>2, <3>3, <3>4 DEF SameShape
  <2> QED
    BY <2>1, <2>2
<1>8. ASSUME NEW q, NEW w, NEW p, NEW s, w = "walk" => p \in DOMAIN data.trees,
             ~(w = "walk" /\ p = pos /\ s = so), NothingAt(data, q, w, p, s)
      PROVE  NothingAt(g, q, w, p, s)
  <2>1. w = "walk" /\ s \in DOMAIN data.trees[p].toks =>
          g.trees[p].toks[s].value = data.trees[p].toks[s].value
    BY <1>7, <1>8
  <2> QED
    BY <1>7, <1>8, <2>1, NothingKept
<1>9. \A w, p, s : /\ <<w, p, s>> # Here /\ (w = "walk" => p \in DOMAIN data.trees)
                   /\ NothingAt(data, pass, w, p, s)
                   => NothingAt(g, pass, w, p, s)
  BY <1>3, <1>8
<1>10. pass = "initramfs" =>
         \A w, p, s : (w = "walk" => p \in DOMAIN data.trees)
                      /\ NothingAt(data, "verity", w, p, s)
                      => NothingAt(g, "verity", w, p, s)
  <2> SUFFICES ASSUME pass = "initramfs", NEW w, NEW p, NEW s,
                      w = "walk" => p \in DOMAIN data.trees, NothingAt(data, "verity", w, p, s)
               PROVE  NothingAt(g, "verity", w, p, s)
    OBVIOUS
  <2>1. CASE w = "walk" /\ p = pos /\ s = so
    BY <1>6, <2>1
  <2>2. CASE ~(w = "walk" /\ p = pos /\ s = so)
    BY <1>8, <2>2
  <2> QED
    BY <2>1, <2>2
<1>11. /\ NothingAt(data', pass, dpc, pos, HereSo) /\ SameShape(data, data')
       /\ dpc' = "walk" => pos' \in DOMAIN data.trees
  BY <1>1, <1>2, <1>3, <1>6, <1>7
<1>12. /\ \A w, p, s : /\ <<w, p, s>> # Here /\ (w = "walk" => p \in DOMAIN data.trees)
                       /\ NothingAt(data, pass, w, p, s)
                       => NothingAt(data', pass, w, p, s)
       /\ pass = "initramfs" =>
            \A w, p, s : (w = "walk" => p \in DOMAIN data.trees)
                         /\ NothingAt(data, "verity", w, p, s)
                         => NothingAt(data', "verity", w, p, s)
  BY <1>6, <1>9, <1>10
<1> QED
  BY <1>2, <1>5, <1>11, <1>12, WalkMoves

(* What is stored, and whether anything is left to do there.               *)
LEMMA StoredToken ==
  ASSUME DtbInv, DataInv, AtProp, NEW v \in Seq(Parts), data' = Stored(v)
  PROVE  /\ data'.trees[pos].toks[so].value = v
         /\ data'.trees[pos].toks[so].name = tok.name
         /\ data'.trees[pos].toks[so].size = tok.size
         /\ v = tok.value => data' = data
<1>1. /\ pos \in DOMAIN data.trees /\ so \in DOMAIN data.trees[pos].toks
      /\ tok = data.trees[pos].toks[so] /\ data \in FileType /\ FileForm(data)
  BY PropTyped, PropFacts DEF DataInv
<1>2. v = data.trees[pos].toks[so].value => data' = data
  BY <1>1, StoredTyped
<1> QED
  BY <1>1, <1>2, StoredFacts

(* In the second call there is nothing to do at the place of the walk. *)
LEMMA NothingHere ==
  ASSUME DtbInv, DataInv, AgainInv, AtProp, calls = 2
  PROVE  /\ pass = "verity" => modified = FALSE
         /\ pass = "verity" /\ tok.name = "fstab" /\ Len(tok.value) > 1 =>
              ~Contains(tok.value, "verity")
         /\ pass = "initramfs" /\ tok.name = "linux,initrd" /\ tok.size \in {4, 8} =>
              tok.value = <<"zero">>
<1>1. /\ dpc = "walk" /\ tok = data.trees[pos].toks[so] /\ tok.tag = "prop"
      /\ so \in DOMAIN data.trees[pos].toks
  BY PropTyped, PropFacts
<1>2. Advances(data.trees[pos], so)
  BY <1>1 DEF Advances, AtProp, MoreTokens, tree
<1>3. PICK C : Here \in C /\ Way(data, pass, C, {})
  BY <1>1 DEF AgainInv, SecondCall, Walking
<1>4. Here = <<"walk", pos, so>>
  BY <1>1 DEF Here, HereSo
<1>5. NothingAt(data, pass, "walk", pos, so)
  BY <1>3, <1>4 DEF Way
<1>6. pass = "verity" => modified = FALSE
  BY <1>1 DEF AgainInv, SecondCall, Walking
<1> QED
  BY <1>1, <1>2, <1>5, <1>6 DEF NothingAt

LEMMA AgainVerityProp ==
  ASSUME DtbInv, DataInv, AgainInv, VerityProp, over' = {}
  PROVE  AgainInv'
<1>1. /\ AtProp /\ ToNextToken /\ pass = "verity"
      /\ IF tok.name = "fstab" /\ Len(tok.value) > 1
         THEN /\ modified' = (modified \/ Contains(tok.value, "verity"))
              /\ IF modified' THEN data' = Stored(Rewritten(tok.value)) ELSE UNCHANGED data
         ELSE UNCHANGED <<modified, data>>
  BY DEF VerityProp, Store
<1>2. /\ tok = data.trees[pos].toks[so] /\ tok.value \in Seq(Parts)
      /\ Rewritten(tok.value) \in Seq(Parts)
  BY <1>1, PropTyped
<1>3. UNCHANGED data \/ \E v \in Seq(Parts) : data' = Stored(v)
  BY <1>1, <1>2
<1>4. NothingAt(data', pass, "walk", pos, so)
  <2>1. CASE ~(tok.name = "fstab" /\ Len(tok.value) > 1)
    BY <1>1, <1>2, <2>1 DEF NothingAt
  <2>2. CASE tok.name = "fstab" /\ Len(tok.value) > 1 /\ ~modified'
    <3>1. ~Contains(tok.value, "verity") /\ data' = data
      BY <1>1, <2>2
    <3> QED
      BY <1>1, <1>2, <3>1 DEF NothingAt
  <2>3. CASE tok.name = "fstab" /\ Len(tok.value) > 1 /\ modified'
    <3>1. PICK v \in Seq(Parts) : v = Rewritten(tok.value) /\ data' = Stored(v) /\ v \in Seq(Clear)
      BY <1>1, <1>2, <2>3, RewrittenFacts
    <3>2. ~Contains(v, "verity")
      BY <3>1 DEF Contains, Clear
    <3>3. data'.trees[pos].toks[so].value = v
      BY <1>1, <3>1, StoredToken
    <3> QED
      BY <1>1, <3>2, <3>3 DEF NothingAt
  <2> QED
    BY <2>1, <2>2, <2>3
<1>5. calls = 2 => data' = data /\ (pass = "verity" => modified' = FALSE)
  BY <1>1, NothingHere
<1> QED
  BY <1>1, <1>3, <1>4, <1>5, PropMoves

LEMMA AgainInitramfsProp ==
  ASSUME DtbInv, DataInv, AgainInv, InitramfsProp, over' = {}
  PROVE  AgainInv'
<1>1. /\ AtProp /\ ToNextToken /\ pass = "initramfs"
      /\ IF tok.name = "linux,initrd" /\ tok.size \in {4, 8}
         THEN data' = Stored(<<"zero">>) ELSE UNCHANGED data
  BY DEF InitramfsProp, InitrdBounds, Store
<1>2. /\ tok = data.trees[pos].toks[so] /\ <<"zero">> \in Seq(Parts)
  BY <1>1, PropTyped
<1>3. UNCHANGED data \/ \E v \in Seq(Parts) : data' = Stored(v)
  BY <1>1, <1>2
<1>4. CASE tok.name = "linux,initrd" /\ tok.size \in {4, 8}
  <2>1. PICK v \in Seq(Parts) : v = <<"zero">> /\ data' = Stored(v)
    BY <1>1, <1>2, <1>4
  <2>2. /\ data'.trees[pos].toks[so].value = <<"zero">>
        /\ data'.trees[pos].toks[so].name = "linux,initrd"
        /\ v = tok.value => data' = data
    BY <1>1, <1>4, <2>1, StoredToken
  <2>3. NothingAt(data', pass, "walk", pos, so) /\ NothingAt(data', "verity", "walk", pos, so)
    BY <1>1, <2>2 DEF NothingAt
  <2>4. calls = 2 => data' = data
    BY <1>1, <1>4, <2>1, <2>2, NothingHere
  <2> QED
    BY <1>1, <1>3, <2>3, <2>4, PropMoves
<1>5. CASE ~(tok.name = "linux,initrd" /\ tok.size \in {4, 8})
  <2>1. data' = data
    BY <1>1, <1>5
  <2>2. NothingAt(data', pass, "walk", pos, so)
    BY <1>1, <1>2, <1>5, <2>1 DEF NothingAt
  <2> QED
    BY <1>1, <1>3, <2>1, <2>2, PropMoves
<1> QED
  BY <1>4, <1>5

(* A walk begins.                                                          *)
LEMMA AgainBegins ==
  ASSUME AgainInv, NEW q \in Passes, StartPass(q), UNCHANGED flags, q \in flags,
         q = "initramfs" /\ "verity" \in flags => NothingLeft(data', "verity"),
         calls' \in {1, 2},
         calls' = 2 => data' = disk' /\ \A r \in flags : NothingLeft(data', r)
  PROVE  AgainInv'
<1>1. dpc' = "scan" /\ pass' = q /\ pos' = 0 /\ modified' = FALSE /\ flags' = flags
  BY DEF StartPass
<1>2. Here' = <<"scan", 0, 0>>
  BY <1>1 DEF Here, HereSo
<1>3. Way(data', pass', {Here'}, {Here'})
  BY <1>2, WayBegins
<1>4. FirstCall'
  BY <1>1, <1>3 DEF FirstCall
<1>5. ASSUME calls' = 2
      PROVE  \E C : Here' \in C /\ Way(data', pass', C, {})
  <2>1. PICK C : Way(data', q, C, {})
    BY <1>5 DEF NothingLeft
  <2> QED
    BY <1>1, <1>2, <2>1 DEF Way
<1>6. SecondCall'
  BY <1>1, <1>5 DEF SecondCall
<1> QED
  BY <1>1, <1>4, <1>6 DEF AgainInv, Walking

LEMMA AgainCall ==
  ASSUME DtbInv, DataInv, AgainInv, Call
  PROVE  AgainInv'
<1>1. /\ dpc = "idle" /\ calls < 2 /\ whole /\ calls' = calls + 1 /\ data' = disk
      /\ data = disk /\ UNCHANGED <<disk, flags>>
  BY DEF Call, DataInv
<1>2. calls' \in {1, 2}
  BY <1>1 DEF AgainInv
<1>3. calls' = 2 => \A r \in flags : NothingLeft(data', r)
  <2>1. calls' = 2 => calls = 1
    BY <1>1 DEF AgainInv
  <2> QED
    BY <1>1, <2>1 DEF AgainInv, FirstCall
<1>4. CASE "verity" \in flags
  <2>1. StartPass("verity") /\ "verity" \in Passes
    BY <1>4 DEF Call, Passes
  <2> QED
    BY <1>1, <1>2, <1>3, <1>4, <2>1, AgainBegins
<1>5. CASE "verity" \notin flags /\ "initramfs" \in flags
  <2>1. StartPass("initramfs") /\ "initramfs" \in Passes
    BY <1>5 DEF Call, Passes
  <2> QED
    BY <1>1, <1>2, <1>3, <1>5, <2>1, AgainBegins
<1>6. CASE "verity" \notin flags /\ "initramfs" \notin flags
  <2>1. dpc' = "write"
    BY <1>6 DEF Call, StartWrite
  <2>2. flags = {}
    BY <1>6 DEF DtbInv, WalkTypes, Passes
  <2> QED
    BY <1>1, <1>2, <2>1, <2>2 DEF AgainInv, Walking, FirstCall, SecondCall
<1> QED
  BY <1>4, <1>5, <1>6

LEMMA AgainPassDone ==
  ASSUME DtbInv, AgainInv, PassDone
  PROVE  AgainInv'
<1>1. dpc = "scan" /\ ~Room /\ UNCHANGED <<disk, data, flags, calls>>
  BY DEF PassDone
<1>2. pass \in flags /\ flags \subseteq Passes /\ calls \in {1, 2}
  BY <1>1 DEF DtbInv, WalkTypes, AgainInv, Walking
<1>3. NothingLeft(data, pass)
  <2>1. CASE calls = 1
    <3>1. PICK C : Here \in C /\ Way(data, pass, C, {Here})
      BY <1>1, <2>1 DEF AgainInv, FirstCall, Walking
    <3>2. Here = <<"scan", pos, 0>>
      BY <1>1 DEF Here, HereSo
    <3>3. Onward(data, C, "scan", pos, 0) /\ NothingAt(data, pass, "scan", pos, 0)
      BY <1>1 DEF Onward, NothingAt, Room
    <3>4. ASSUME NEW w, NEW p, NEW s, <<w, p, s>> \in C
          PROVE  Onward(data, C, w, p, s) /\ NothingAt(data, pass, w, p, s)
      <4>1. CASE <<w, p, s>> = Here
        BY <3>2, <3>3, <4>1
      <4>2. CASE <<w, p, s>> # Here
        BY <3>1, <3>4, <4>2 DEF Way
      <4> QED
        BY <4>1, <4>2
    <3>5. Way(data, pass, C, {})
      BY <3>1, <3>4 DEF Way
    <3> QED
      BY <3>5 DEF NothingLeft
  <2>2. CASE calls = 2
    BY <1>1, <1>2, <2>2 DEF AgainInv, SecondCall
  <2> QED
    BY <1>2, <2>1, <2>2
<1>4. calls = 2 => data = disk /\ \A q \in flags : NothingLeft(data, q)
  BY <1>1 DEF AgainInv, SecondCall
<1>5. CASE pass = "verity" /\ "initramfs" \in flags
  <2>1. StartPass("initramfs") /\ "initramfs" \in Passes
    BY <1>5 DEF PassDone, Passes
  <2> QED
    BY <1>1, <1>2, <1>3, <1>4, <1>5, <2>1, AgainBegins
<1>6. CASE ~(pass = "verity" /\ "initramfs" \in flags)
  <2>1. dpc' = "write" /\ pass' = pass
    BY <1>6 DEF PassDone, StartWrite, walkVars
  <2>2. \A q \in flags : NothingLeft(data, q)
    <3>1. CASE calls = 2
      BY <1>4, <3>1
    <3>2. CASE calls = 1 /\ pass = "verity"
      BY <1>2, <1>3, <1>6, <3>2 DEF Passes
    <3>3. CASE calls = 1 /\ pass = "initramfs"
      <4>1. "verity" \in flags => NothingLeft(data, "verity")
        BY <1>1, <3>3 DEF AgainInv, FirstCall, Walking
      <4> QED
        BY <1>2, <1>3, <3>3, <4>1 DEF Passes
    <3> QED
      BY <1>2, <3>1, <3>2, <3>3 DEF Passes
  <2>3. FirstCall' /\ SecondCall'
    BY <1>1, <1>4, <2>1, <2>2 DEF FirstCall, SecondCall, Walking
  <2> QED
    BY <1>1, <1>2, <2>1, <2>3 DEF AgainInv, Walking
<1> QED
  BY <1>5, <1>6

LEMMA AgainWriteFile ==
  ASSUME AgainInv, WriteFile
  PROVE  AgainInv'
<1>1. dpc = "write" /\ dpc' = "idle" /\ UNCHANGED <<data, flags, calls>>
  BY DEF WriteFile
<1>2. calls = 1 => \A q \in flags : NothingLeft(data, q)
  BY <1>1 DEF AgainInv, FirstCall
<1>3. FirstCall' /\ SecondCall'
  BY <1>1, <1>2 DEF FirstCall, SecondCall, Walking
<1> QED
  BY <1>1, <1>3 DEF AgainInv, Walking

LEMMA AgainPanic ==
  ASSUME AgainInv, Panic, dpc = "walk"
  PROVE  AgainInv'
<1>1. dpc' = "panic" /\ UNCHANGED <<disk, data, flags, calls>>
  BY DEF Panic
<1>2. calls \in {1, 2}
  BY DEF AgainInv
<1>3. FirstCall' /\ SecondCall' /\ ~Walking'
  BY <1>1 DEF FirstCall, SecondCall, Walking
<1> QED
  BY <1>1, <1>2, <1>3 DEF AgainInv

LEMMA OverGrows ==
  ASSUME [Next]_vars
  PROVE  over \subseteq over'
  BY DEF Next, WalkStep, Call, SkipWord, EnterTree, StopWalk, LeaveTree, WalkNode, VerityProp,
         InitramfsProp, Store, PassDone, TagOutside, PropOutside, Panic, WriteFile, vars

(* As long as no value lay over something else. *)
UnlessOver == over = {} => AgainInv

LEMMA AgainStep == DtbInv /\ DataInv /\ UnlessOver /\ [Next]_vars => UnlessOver'
<1> SUFFICES ASSUME DtbInv, DataInv, UnlessOver, [Next]_vars, over' = {}
             PROVE  AgainInv'
  BY DEF UnlessOver
<1>a. AgainInv
  BY OverGrows DEF UnlessOver
<1>1. CASE Call
  BY <1>1, <1>a, AgainCall
<1>2. CASE SkipWord
  BY <1>2, <1>a, AgainSkipWord
<1>3. CASE EnterTree
  BY <1>3, <1>a, AgainEnterTree
<1>4. CASE PassDone
  BY <1>4, <1>a, AgainPassDone
<1>5. CASE StopWalk
  BY <1>5, <1>a, AgainStopWalk
<1>6. CASE WalkNode
  BY <1>6, <1>a, AgainWalkNode
<1>7. CASE VerityProp
  BY <1>7, <1>a, AgainVerityProp
<1>8. CASE InitramfsProp
  BY <1>8, <1>a, AgainInitramfsProp
<1>9. CASE TagOutside \/ PropOutside
  <2>1. Panic /\ dpc = "walk"
    BY <1>9 DEF TagOutside, PropOutside, AtProp
  <2> QED
    BY <1>a, <2>1, AgainPanic
<1>10. CASE WriteFile
  BY <1>10, <1>a, AgainWriteFile
<1>11. CASE UNCHANGED vars
  <2>1. /\ UNCHANGED <<data, disk, whole, flags, calls, dpc, pass, modified>> /\ Here' = Here
    BY <1>11 DEF vars, Here, HereSo
  <2>2. FirstCall' /\ SecondCall'
    BY <1>a, <2>1 DEF AgainInv, FirstCall, SecondCall, Walking
  <2> QED
    BY <1>a, <2>1, <2>2 DEF AgainInv, Walking
<1> QED
  BY <1>1, <1>2, <1>3, <1>4, <1>5, <1>6, <1>7, <1>8, <1>9, <1>10, <1>11 DEF Next, WalkStep

LEMMA AgainInit == Init => UnlessOver
  BY DEF Init, UnlessOver, AgainInv, Walking, FirstCall, SecondCall

(* AgainChangesNothing for every file: dtb-patch is idempotent, in sound   *)
(* files and in damaged ones, with either flag and with both, until a value*)
(* has been written over something else.                                   *)
THEOREM DtbAgainChangesNothing == Spec => AgainChangesNothing
<1>1. Spec => []UnlessOver
  BY DtbAlways, DataAlways, AgainInit, AgainStep, PTL DEF Spec
<1>2. UnlessOver /\ [Next]_vars => [calls = 2 /\ over = {} => disk' = disk]_vars
  <2> SUFFICES ASSUME AgainInv, Next, calls = 2
               PROVE  disk' = disk
    BY DEF UnlessOver
  <2>1. CASE WriteFile
    <3>1. dpc = "write" /\ (disk' = data \/ disk' = disk)
      BY <2>1 DEF WriteFile, WriteBack
    <3> QED
      BY <3>1 DEF AgainInv, SecondCall
  <2>2. CASE ~WriteFile
    BY <2>2 DEF Next, WalkStep, Call, SkipWord, EnterTree, StopWalk, LeaveTree, WalkNode,
                VerityProp, InitramfsProp, ToNextToken, PassDone, TagOutside, PropOutside,
                Panic
  <2> QED
    BY <2>1, <2>2
<1> QED
  BY <1>1, <1>2, PTL DEF Spec, AgainChangesNothing

(*************************************************************************)
(* hex-patch                                                             *)
(*************************************************************************)
-----------------------------------------------------------------------------
LEMMA SeqOfSubset ==
  ASSUME NEW A, NEW B, NEW s \in Seq(A), \A k \in 1 .. Len(s) : s[k] \in B
  PROVE  s \in Seq(B)
  OBVIOUS

(* The patterns.                                                           *)

(* A trimmed text is a part of the text.                                   *)
LEMMA TrimmedType ==
  ASSUME NEW text \in Seq(Chars)
  PROVE  Trimmed(text) \in Seq(Chars)
<1> DEFINE a == Cardinality(Leading(text))
           z == Cardinality(Trailing(text))
<1>1. Len(text) \in Nat /\ \A k \in 1 .. Len(text) : text[k] \in Chars
  OBVIOUS
<1>2. IsFiniteSet(1 .. Len(text))
  BY <1>1, FS_Interval
<1>3. Leading(text) \in SUBSET (1 .. Len(text)) /\ Trailing(text) \in SUBSET (1 .. Len(text))
  BY DEF Leading, Trailing
<1>4. a \in Nat /\ z \in Nat
  BY <1>2, <1>3, FS_Subset, FS_CardinalityType
<1> HIDE DEF a, z
<1>5. \A k \in (a + 1) .. (Len(text) - z) : text[k] \in Chars
  BY <1>1, <1>4
<1>6. a + 1 \in Int /\ Len(text) - z \in Int
  BY <1>1, <1>4
<1>7. SubSeq(text, a + 1, Len(text) - z) \in Seq(Chars)
  BY <1>5, <1>6, SubSeqProperties
<1> QED
  BY <1>7 DEF Trimmed, a, z

(* A hexadecimal text is a sequence of bytes.                              *)
LEMMA HexIsBytes ==
  ASSUME NEW text \in Seq(Chars), IsHex(text)
  PROVE  Hex2Byte(text) \in Seq(Bytes)
<1> DEFINE t == Trimmed(text)
           n == Len(t) \div 2
<1>1. t \in Seq(Chars)
  BY TrimmedType
<1> HIDE DEF t
<1>2. n \in Nat
  BY <1>1
<1>3. \A k \in 1 .. n : IsByte(t[2 * k - 1], t[2 * k])
  BY DEF IsHex, t
<1>4. \A c, d : IsByte(c, d) => ByteOf(c, d) \in Bytes
  <2>1. \A d \in Digits : Value[d] \in 0 .. 15
    BY DEF Value, Digits
  <2>2. \A x, y \in 0 .. 15 : x \in 0 .. 255 /\ 16 * x + y \in 0 .. 255
    OBVIOUS
  <2> SUFFICES ASSUME NEW c, NEW d, IsByte(c, d) PROVE ByteOf(c, d) \in 0 .. 255
    BY DEF Bytes
  <2>3. Value[d] \in 0 .. 15 /\ (c # "+" => Value[c] \in 0 .. 15)
    BY <2>1 DEF IsByte
  <2>4. CASE c = "+"
    BY <2>2, <2>3, <2>4 DEF ByteOf
  <2>5. CASE c # "+"
    <3>1. ByteOf(c, d) = 16 * Value[c] + Value[d]
      BY <2>5 DEF ByteOf
    <3>2. Value[c] \in 0 .. 15 /\ Value[d] \in 0 .. 15
      BY <2>3, <2>5
    <3>3. 16 * Value[c] + Value[d] \in 0 .. 255
      BY <2>2, <3>2
    <3> QED
      BY <3>1, <3>3
  <2> QED
    BY <2>4, <2>5
<1> HIDE DEF n
<1>6. \A k \in 1 .. n : ByteOf(t[2 * k - 1], t[2 * k]) \in Bytes
  BY <1>3, <1>4
<1>5. [k \in 1 .. n |-> ByteOf(t[2 * k - 1], t[2 * k])] \in Seq(Bytes)
  BY <1>2, <1>6
<1> QED
  BY <1>5 DEF Hex2Byte, t, n

(* What the search goes by, once the patterns are accepted.                *)
LEMMA PatternBytes ==
  ASSUME HexTypeOK, ~Refused
  PROVE  /\ from \in Seq(Bytes) /\ to \in Seq(Bytes)
         /\ Len(from) \in Nat /\ Len(from) > 0 /\ Len(to) \in Nat
<1>1. fromText \in Seq(Chars) /\ toText \in Seq(Chars)
  BY PatternsAssumption DEF HexTypeOK
<1>2. from \in Seq(Bytes) /\ to \in Seq(Bytes) /\ from # <<>>
  BY <1>1, HexIsBytes DEF Refused, from, to
<1> QED
  BY <1>2

-----------------------------------------------------------------------------
(* The search.                                                             *)

(* The matches end in front of each other and of hpos, and lie inside the  *)
(* data.                                                                   *)
MatchesBehind ==
  \A k \in DOMAIN offsets :
    offsets[k] + Len(from) <= IF k < Len(offsets) THEN offsets[k + 1] ELSE hpos

(* The last match that reached byte b, and what it left there.             *)
Reached(b) == {k \in DOMAIN offsets : offsets[k] < b /\ b <= offsets[k] + Len(to)}
LaidOver ==
  \A b \in DOMAIN disk :
    IF Reached(b) = {} THEN data[b] = disk[b]
    ELSE \E k \in Reached(b) :
           (\A m \in Reached(b) : m <= k) /\ data[b] = to[b - offsets[k]]

HexInv ==
  /\ HexTypeOK
  /\ hpc = "read" => offsets = <<>> /\ hpos = 0 /\ data = disk
  /\ hpc = "search" => ~Refused /\ MatchesBehind /\ LaidOver

(* The copy begins as the file. *)
LEMMA HexBegins == HexInit => HexInv
  BY ContentsAssumption DEF HexInit, HexInv, HexTypeOK

(* Every step keeps the invariant; the match just found is the last one.    *)
LEMMA HexStep ==
  ASSUME HexInv, [HexNext]_hexVars
  PROVE  HexInv'
<1> USE DEF HexInv
<1>0. /\ disk \in Seq(Bytes) /\ data \in Seq(Bytes) /\ Len(data) = Len(disk)
      /\ Len(disk) \in Nat /\ hpos \in 0 .. Len(disk)
      /\ offsets \in Seq(0 .. Len(disk)) /\ Len(offsets) \in Nat
  BY DEF HexTypeOK
<1>1. CASE UNCHANGED hexVars
  <2>1. UNCHANGED <<disk, whole, fromText, toText, hpc, hpos, data, offsets>>
    BY <1>1 DEF hexVars
  <2>2. UNCHANGED <<from, to, Refused>>
    BY <2>1 DEF from, to, Refused
  <2>3. HexTypeOK'
    BY <2>1 DEF HexTypeOK
  <2>4. MatchesBehind' <=> MatchesBehind
    BY <2>1, <2>2 DEF MatchesBehind
  <2>5. LaidOver' <=> LaidOver
    BY <2>1, <2>2 DEF LaidOver, Reached
  <2> QED
    BY <2>1, <2>2, <2>3, <2>4, <2>5
<1>2. CASE ReadPatterns
  <2>1. /\ hpc = "read" /\ hpc' = IF Refused THEN "refused" ELSE "search"
        /\ UNCHANGED <<disk, whole, fromText, toText, hpos, data, offsets>>
    BY <1>2 DEF ReadPatterns
  <2>2. UNCHANGED <<from, to, Refused>>
    BY <2>1 DEF from, to, Refused
  <2>3. HexTypeOK'
    BY <2>1 DEF HexTypeOK
  <2>4. offsets' = <<>> /\ DOMAIN offsets' = {} /\ data' = disk'
    BY <2>1
  <2>5. MatchesBehind' /\ LaidOver'
    BY <2>4 DEF MatchesBehind, LaidOver, Reached
  <2> QED
    BY <2>1, <2>2, <2>3, <2>5
<1>3. CASE NoMatch
  <2>1. HexTypeOK'
    <3>1. hpos' \in 0 .. Len(disk)
      BY <1>0, <1>3, PatternBytes DEF NoMatch, InReach
    <3> QED
      BY <1>3, <3>1 DEF NoMatch, HexTypeOK
  <2>2. /\ UNCHANGED <<from, to, offsets, data, disk, Refused>> /\ hpos' = hpos + 1
        /\ hpc = "search" /\ hpc' = "search"
    BY <1>3 DEF NoMatch, from, to, Refused
  <2>3. LaidOver'
    BY <2>2 DEF LaidOver, Reached
  <2>4. MatchesBehind'
    <3>1. \A k \in DOMAIN offsets : offsets[k] \in Nat
      BY <1>0
    <3> QED
      BY <1>0, <2>2, <3>1, PatternBytes DEF MatchesBehind
  <2> QED
    BY <2>1, <2>2, <2>3, <2>4
<1>4. CASE Match
  <2>1. /\ UNCHANGED <<from, to, disk, Refused>> /\ hpos' = hpos + Len(from)
        /\ offsets' = Append(offsets, hpos)
        /\ data' = [b \in DOMAIN data |-> IF Copied(b) THEN to[b - hpos] ELSE data[b]]
        /\ hpc = "search" /\ hpc' = "search" /\ ~Refused
        /\ hpos + Len(from) <= Len(data)
    BY <1>4 DEF Match, from, to, Refused, AfterMatch, InReach
  <2>2. /\ Len(from) \in Nat /\ Len(from) > 0 /\ Len(to) \in Nat
        /\ \A k \in 1 .. Len(to) : to[k] \in Bytes
    BY <2>1, PatternBytes
  <2>3. /\ offsets' \in Seq(0 .. Len(disk)) /\ Len(offsets') = Len(offsets) + 1
        /\ \A k \in 1 .. Len(offsets) : offsets'[k] = offsets[k]
        /\ offsets'[Len(offsets) + 1] = hpos
    BY <1>0, <2>1, AppendProperties
  <2>4. DOMAIN data = 1 .. Len(disk) /\ DOMAIN disk = 1 .. Len(disk)
        /\ DOMAIN offsets = 1 .. Len(offsets) /\ DOMAIN offsets' = 1 .. (Len(offsets) + 1)
    BY <1>0, <2>3
  <2>5. HexTypeOK'
    <3>1. \A b \in 1 .. Len(disk) : data'[b] \in Bytes
      <4> SUFFICES ASSUME NEW b \in 1 .. Len(disk) PROVE data'[b] \in Bytes
        OBVIOUS
      <4>1. data'[b] = IF Copied(b) THEN to[b - hpos] ELSE data[b]
        BY <2>1, <2>4
      <4>2. data[b] \in Bytes
        BY <1>0
      <4>3. Copied(b) => b - hpos \in 1 .. Len(to)
        BY <1>0, <2>2 DEF Copied
      <4> QED
        BY <2>2, <4>1, <4>2, <4>3
    <3>2. data' \in Seq(Bytes) /\ Len(data') = Len(disk)
      BY <1>0, <2>1, <2>4, <3>1
    <3> QED
      BY <1>0, <1>4, <2>1, <2>2, <2>3, <3>2 DEF Match, HexTypeOK
  <2>6. MatchesBehind'
    <3> SUFFICES ASSUME NEW k \in 1 .. (Len(offsets) + 1)
                 PROVE  offsets'[k] + Len(from) <=
                          IF k < Len(offsets) + 1 THEN offsets'[k + 1] ELSE hpos'
      BY <2>1, <2>3, <2>4 DEF MatchesBehind
    <3>1. CASE k = Len(offsets) + 1
      BY <1>0, <2>1, <2>3, <3>1
    <3>2. CASE k < Len(offsets)
      <4>1. k \in 1 .. Len(offsets) /\ k + 1 \in 1 .. Len(offsets)
        BY <1>0, <3>2
      <4>2. offsets[k] + Len(from) <= offsets[k + 1]
        BY <2>1, <2>4, <3>2, <4>1 DEF MatchesBehind
      <4>3. k < Len(offsets) + 1
        BY <1>0, <3>2
      <4> QED
        BY <2>3, <4>1, <4>2, <4>3
    <3>3. CASE k = Len(offsets)
      <4>1. offsets[k] + Len(from) <= hpos
        <5>1. k \in DOMAIN offsets /\ ~(k < Len(offsets))
          BY <1>0, <2>4, <3>3
        <5> QED
          BY <2>1, <5>1 DEF MatchesBehind
      <4> QED
        BY <1>0, <2>3, <3>3, <4>1
    <3> QED
      BY <1>0, <3>1, <3>2, <3>3
  <2>7. LaidOver'
    <3> SUFFICES ASSUME NEW b \in 1 .. Len(disk)
                 PROVE  IF Reached(b)' = {} THEN data'[b] = disk[b]
                        ELSE \E k \in Reached(b)' :
                               /\ \A m \in Reached(b)' : m <= k
                               /\ data'[b] = to[b - offsets'[k]]
      BY <2>1, <2>4 DEF LaidOver
    <3> DEFINE last == Len(offsets) + 1
    <3>1. data'[b] = IF Copied(b) THEN to[b - hpos] ELSE data[b]
      BY <2>1, <2>4
    <3>2. Reached(b)' = Reached(b) \cup (IF Copied(b) THEN {last} ELSE {})
      BY <1>0, <2>1, <2>2, <2>3, <2>4 DEF Reached, Copied
    <3>3. Reached(b) \subseteq 1 .. Len(offsets)
      BY <2>4 DEF Reached
    <3>4. CASE Copied(b)
      <4>1. last \in Reached(b)' /\ data'[b] = to[b - offsets'[last]]
        BY <2>3, <3>1, <3>2, <3>4
      <4>2. \A m \in Reached(b)' : m <= last
        BY <1>0, <3>2, <3>3
      <4> QED
        BY <4>1, <4>2
    <3>5. CASE ~Copied(b)
      <4>1. Reached(b)' = Reached(b) /\ data'[b] = data[b]
        BY <3>1, <3>2, <3>5
      <4>2. \A k \in Reached(b) : offsets'[k] = offsets[k]
        BY <2>3, <3>3
      <4>3. IF Reached(b) = {} THEN data[b] = disk[b]
            ELSE \E k \in Reached(b) :
                   (\A m \in Reached(b) : m <= k) /\ data[b] = to[b - offsets[k]]
        BY <2>1, <2>4 DEF LaidOver
      <4>4. CASE Reached(b) = {}
        BY <4>1, <4>3, <4>4
      <4>5. CASE Reached(b) # {}
        <5>1. PICK k \in Reached(b) :
                (\A m \in Reached(b) : m <= k) /\ data[b] = to[b - offsets[k]]
          BY <4>3, <4>5
        <5>2. offsets'[k] = offsets[k]
          BY <4>2
        <5> QED
          BY <4>1, <4>5, <5>1, <5>2
      <4> QED
        BY <4>4, <4>5
    <3> QED
      BY <3>4, <3>5
  <2> QED
    BY <2>1, <2>5, <2>6, <2>7
<1>5. CASE SearchDone
  BY <1>5 DEF SearchDone, HexTypeOK
<1>6. CASE WriteHex
  BY <1>0, <1>6 DEF WriteHex, WriteBack, HexTypeOK
<1> QED
  BY <1>1, <1>2, <1>3, <1>4, <1>5, <1>6 DEF HexNext

(* The search keeps its invariant. *)
THEOREM HexInvariant == HexSpec => []HexInv
<1> QED
  BY HexBegins, HexStep, PTL DEF HexSpec

(* The copy in memory never changes its length, and no position leaves it. *)
THEOREM HexTypes == HexSpec => []HexTypeOK
<1>1. HexInv => HexTypeOK
  BY DEF HexInv
<1> QED
  BY <1>1, HexInvariant, PTL

(* For every file and every two patterns, the search changes what a match  *)
(* reaches and nothing else, and never searches the inside of a match.     *)
THEOREM HexPatchedSoFar == HexSpec => []PatchedSoFar
<1>1. HexInv => PatchedSoFar
  <2> SUFFICES ASSUME HexInv, hpc = "search"
               PROVE  MatchesBehind /\ Promise!Overlaid(disk, offsets, data)
    BY DEF PatchedSoFar, MatchesBehind
  <2>1. ~Refused /\ MatchesBehind /\ LaidOver /\ DOMAIN data = DOMAIN disk
    BY DEF HexInv, HexTypeOK
  <2>2. \A b : Promise!Covering(offsets, b) = Reached(b)
    BY <2>1 DEF Promise!Covering, Reached
  <2>3. Promise!Overlaid(disk, offsets, data)
    BY <2>1, <2>2 DEF Promise!Overlaid, LaidOver
  <2> QED
    BY <2>1, <2>3
<1> QED
  BY <1>1, HexInvariant, PTL

-----------------------------------------------------------------------------
(* The search keeps the promise of HexReplace.                             *)

(* Where the pattern was found, and where it stood in what was read.       *)
Taken == {offsets[k] : k \in DOMAIN offsets}
Stands(p) == \A j \in 1 .. Len(from) : disk[p + j] = from[j]

(* What is left of offset h is decided as IsLeftmost has it.               *)
Decided(h) ==
  \A p \in 0 .. Len(disk) : p < h =>
    (p \in Taken <=> /\ p + Len(from) <= Len(disk) /\ Stands(p)
                     /\ \A q \in Taken : ~(q < p /\ p < q + Len(from)))

(* A replacement that is not longer than the pattern leaves what the search*)
(* has yet to look at.                                                     *)
LeftAhead == \A b \in DOMAIN disk : b > hpos => data[b] = disk[b]

SearchInv ==
  hpc = "search" =>
    /\ \A k \in DOMAIN offsets : offsets[k] + Len(from) <= hpos
    /\ Len(to) <= Len(from) => LeftAhead /\ Decided(hpos)

LEMMA SearchBegins == HexInit => SearchInv
  BY DEF HexInit, SearchInv

LEMMA SearchStep ==
  ASSUME HexInv, SearchInv, [HexNext]_hexVars
  PROVE  SearchInv'
<1>0. /\ disk \in Seq(Bytes) /\ data \in Seq(Bytes) /\ Len(data) = Len(disk)
      /\ Len(disk) \in Nat /\ hpos \in 0 .. Len(disk)
      /\ offsets \in Seq(0 .. Len(disk)) /\ Len(offsets) \in Nat
      /\ \A k \in DOMAIN offsets : offsets[k] \in Nat
      /\ DOMAIN data = 1 .. Len(disk) /\ DOMAIN disk = 1 .. Len(disk)
      /\ DOMAIN offsets = 1 .. Len(offsets)
  BY DEF HexInv, HexTypeOK
<1>1. CASE UNCHANGED hexVars
  <2>1. /\ UNCHANGED <<disk, hpc, hpos, data, offsets, from, to>>
    BY <1>1 DEF hexVars, from, to
  <2> QED
    BY <2>1 DEF SearchInv, LeftAhead, Decided, Taken, Stands
<1>2. CASE ReadPatterns
  <2>1. /\ hpc = "read" /\ UNCHANGED <<disk, hpos, data, offsets, from, to>>
    BY <1>2 DEF ReadPatterns, from, to
  <2>2. offsets' = <<>> /\ DOMAIN offsets' = {} /\ data' = disk' /\ hpos' = 0
    BY <2>1 DEF HexInv
  <2>3. \A p \in 0 .. Len(disk') : ~(p < 0)
    BY <1>0, <2>1
  <2> QED
    BY <2>2, <2>3 DEF SearchInv, LeftAhead, Decided
<1>3. CASE NoMatch
  <2>1. /\ UNCHANGED <<from, to, offsets, data, disk>> /\ hpos' = hpos + 1
        /\ hpc = "search" /\ ~Refused /\ hpos + Len(from) <= Len(disk)
        /\ ~(\A j \in DOMAIN from : data[hpos + j] = from[j])
    BY <1>0, <1>3 DEF NoMatch, from, to, HexInv, InReach, Found
  <2>2. /\ Len(from) \in Nat /\ Len(from) > 0 /\ Len(to) \in Nat
        /\ DOMAIN from = 1 .. Len(from)
    BY <2>1, PatternBytes DEF HexInv
  <2>3. \A k \in DOMAIN offsets : offsets[k] + Len(from) <= hpos
    BY <2>1 DEF SearchInv
  <2>4. \A k \in DOMAIN offsets' : offsets'[k] + Len(from') <= hpos'
    BY <1>0, <2>1, <2>2, <2>3
  <2>5. ASSUME Len(to) <= Len(from)
        PROVE  LeftAhead' /\ Decided(hpos)'
    <3>1. LeftAhead /\ Decided(hpos)
      BY <2>1, <2>5 DEF SearchInv
    <3>2. LeftAhead'
      BY <1>0, <2>1, <3>1 DEF LeftAhead
    <3>3. ~Stands(hpos)
      <4>1. PICK j \in 1 .. Len(from) : data[hpos + j] # from[j]
        BY <2>1, <2>2
      <4>2. hpos + j \in DOMAIN disk /\ hpos + j > hpos
        BY <1>0, <2>1, <2>2, <4>1
      <4>3. data[hpos + j] = disk[hpos + j]
        BY <3>1, <4>2 DEF LeftAhead
      <4> QED
        BY <4>1, <4>3 DEF Stands
    <3>4. hpos \notin Taken
      <4>1. ASSUME NEW k \in DOMAIN offsets
            PROVE  offsets[k] # hpos
        <5>1. offsets[k] + Len(from) <= hpos /\ offsets[k] \in Nat
          BY <1>0, <2>3
        <5> QED
          BY <1>0, <2>2, <5>1
      <4> QED
        BY <4>1 DEF Taken
    <3>5. ASSUME NEW p \in 0 .. Len(disk), p < hpos + 1
          PROVE  p \in Taken <=> /\ p + Len(from) <= Len(disk) /\ Stands(p)
                                 /\ \A q \in Taken : ~(q < p /\ p < q + Len(from))
      <4>1. CASE p < hpos
        BY <3>1, <4>1 DEF Decided
      <4>2. CASE p = hpos
        BY <3>3, <3>4, <4>2
      <4> QED
        BY <1>0, <3>5, <4>1, <4>2
    <3>6. Decided(hpos)'
      BY <2>1, <3>5 DEF Decided, Taken, Stands
    <3> QED
      BY <3>2, <3>6
  <2> QED
    BY <2>1, <2>4, <2>5 DEF SearchInv
<1>4. CASE Match
  <2>1. /\ UNCHANGED <<from, to, disk>> /\ hpos' = hpos + Len(from)
        /\ offsets' = Append(offsets, hpos)
        /\ data' = [b \in DOMAIN data |-> IF Copied(b) THEN to[b - hpos] ELSE data[b]]
        /\ hpc = "search" /\ ~Refused /\ hpos + Len(from) <= Len(disk)
        /\ \A j \in DOMAIN from : data[hpos + j] = from[j]
    BY <1>0, <1>4 DEF Match, from, to, HexInv, InReach, Found, AfterMatch
  <2>2. /\ Len(from) \in Nat /\ Len(from) > 0 /\ Len(to) \in Nat
        /\ DOMAIN from = 1 .. Len(from)
    BY <2>1, PatternBytes DEF HexInv
  <2>3. /\ DOMAIN offsets' = 1 .. (Len(offsets) + 1)
        /\ \A k \in 1 .. Len(offsets) : offsets'[k] = offsets[k]
        /\ offsets'[Len(offsets) + 1] = hpos
    BY <1>0, <2>1, AppendProperties
  <2>4. \A k \in DOMAIN offsets : offsets[k] + Len(from) <= hpos
    BY <2>1 DEF SearchInv
  <2>5. ASSUME NEW k \in DOMAIN offsets'
        PROVE  offsets'[k] + Len(from) <= hpos'
    <3>1. CASE k = Len(offsets) + 1
      BY <1>0, <2>1, <2>2, <2>3, <3>1
    <3>2. CASE k \in 1 .. Len(offsets)
      <4>1. offsets[k] + Len(from) <= hpos /\ offsets[k] \in Nat
        BY <1>0, <2>4, <3>2
      <4>2. offsets'[k] = offsets[k]
        BY <2>3, <3>2
      <4> QED
        BY <1>0, <2>1, <2>2, <4>1, <4>2
    <3> QED
      BY <1>0, <2>3, <2>5, <3>1, <3>2
  <2>6. ASSUME Len(to) <= Len(from)
        PROVE  LeftAhead' /\ Decided(hpos)'
    <3>1. LeftAhead /\ Decided(hpos)
      BY <2>1, <2>6 DEF SearchInv
    <3>2. LeftAhead'
      <4>1. SUFFICES ASSUME NEW b \in 1 .. Len(disk), b > hpos + Len(from)
                     PROVE  data'[b] = disk[b]
        BY <1>0, <2>1 DEF LeftAhead
      <4>2. ~Copied(b) /\ b > hpos
        BY <1>0, <2>2, <2>6, <4>1 DEF Copied
      <4>3. data'[b] = data[b]
        BY <1>0, <2>1, <4>2
      <4> QED
        BY <1>0, <3>1, <4>2, <4>3 DEF LeftAhead
    <3>3. Stands(hpos)
      <4>1. ASSUME NEW j \in 1 .. Len(from)
            PROVE  disk[hpos + j] = from[j]
        <5>1. hpos + j \in DOMAIN disk /\ hpos + j > hpos
          BY <1>0, <2>1, <2>2
        <5>2. data[hpos + j] = disk[hpos + j]
          BY <3>1, <5>1 DEF LeftAhead
        <5>3. data[hpos + j] = from[j]
          BY <2>1, <2>2
        <5> QED
          BY <5>2, <5>3
      <4> QED
        BY <4>1 DEF Stands
    <3>4. Taken' = Taken \cup {hpos}
      <4>1. \A k \in DOMAIN offsets : k \in DOMAIN offsets' /\ offsets'[k] = offsets[k]
        BY <1>0, <2>3
      <4>2. \A k \in DOMAIN offsets' : k \in DOMAIN offsets \/ k = Len(offsets) + 1
        BY <1>0, <2>3
      <4>3. Len(offsets) + 1 \in DOMAIN offsets'
        BY <1>0, <2>3
      <4> QED
        BY <2>3, <4>1, <4>2, <4>3 DEF Taken
    <3>5. \A q \in Taken : q \in Nat /\ q + Len(from) <= hpos
      BY <1>0, <2>4 DEF Taken
    <3>6. ASSUME NEW p \in 0 .. Len(disk), p < hpos + Len(from)
          PROVE  p \in Taken' <=> /\ p + Len(from) <= Len(disk) /\ Stands(p)
                                  /\ \A q \in Taken' : ~(q < p /\ p < q + Len(from))
      <4>1. CASE p < hpos
        <5>1. p \in Taken <=> /\ p + Len(from) <= Len(disk) /\ Stands(p)
                              /\ \A q \in Taken : ~(q < p /\ p < q + Len(from))
          BY <3>1, <4>1 DEF Decided
        <5>2. p # hpos /\ ~(hpos < p)
          BY <1>0, <4>1
        <5> QED
          BY <3>4, <5>1, <5>2
      <4>2. CASE p = hpos
        <5>1. \A q \in Taken' : ~(q < p /\ p < q + Len(from))
          BY <1>0, <2>2, <3>4, <3>5, <4>2
        <5> QED
          BY <2>1, <3>3, <3>4, <4>2, <5>1
      <4>3. CASE p > hpos
        <5>1. hpos \in Taken' /\ hpos < p /\ p < hpos + Len(from)
          BY <3>4, <3>6, <4>3
        <5>2. p \notin Taken'
          <6>1. p \notin Taken
            BY <1>0, <2>2, <3>5, <4>3
          <6> QED
            BY <1>0, <3>4, <4>3, <6>1
        <5> QED
          BY <5>1, <5>2
      <4> QED
        BY <1>0, <4>1, <4>2, <4>3
    <3>7. Decided(hpos)'
      <4>1. \A p : Stands(p)' <=> Stands(p)
        BY <2>1 DEF Stands
      <4> QED
        BY <2>1, <3>6, <4>1 DEF Decided
    <3> QED
      BY <3>2, <3>7
  <2> QED
    BY <2>1, <2>5, <2>6 DEF SearchInv
<1>5. CASE SearchDone
  BY <1>5 DEF SearchDone, SearchInv
<1>6. CASE WriteHex
  BY <1>6 DEF WriteHex, SearchInv
<1> QED
  BY <1>1, <1>2, <1>3, <1>4, <1>5, <1>6 DEF HexNext

(* What the search has done when it ends is what Replace does.             *)
LEMMA SearchKept ==
  ASSUME HexInv, SearchInv, hpc = "search", ~InReach
  PROVE  /\ ~Refused /\ from # <<>>
         /\ offsets \in Seq(0 .. Len(disk) - Len(from))
         /\ \A k \in 1 .. Len(offsets) - 1 : offsets[k] + Len(from) <= offsets[k + 1]
         /\ Promise!Overlaid(disk, offsets, data)
         /\ Len(to) <= Len(from) => Promise!IsLeftmost(disk, Taken)
<1>1. /\ disk \in Seq(Bytes) /\ data \in Seq(Bytes) /\ Len(data) = Len(disk)
      /\ Len(disk) \in Nat /\ hpos \in 0 .. Len(disk)
      /\ offsets \in Seq(0 .. Len(disk)) /\ Len(offsets) \in Nat
      /\ \A k \in DOMAIN offsets : offsets[k] \in Nat
      /\ DOMAIN offsets = 1 .. Len(offsets) /\ DOMAIN data = DOMAIN disk
  BY DEF HexInv, HexTypeOK
<1>2. ~Refused /\ from # <<>> /\ MatchesBehind /\ LaidOver
  BY DEF HexInv, Refused
<1>3. Len(from) \in Nat /\ Len(from) > 0 /\ Len(to) \in Nat
  BY <1>2, PatternBytes DEF HexInv
<1>4. \A k \in DOMAIN offsets : offsets[k] + Len(from) <= hpos
  BY DEF SearchInv
<1>5. offsets \in Seq(0 .. Len(disk) - Len(from))
  <2>1. ASSUME NEW k \in 1 .. Len(offsets)
        PROVE  offsets[k] \in 0 .. Len(disk) - Len(from)
    <3>1. PICK o, f, d : o = offsets[k] /\ f = Len(from) /\ d = Len(disk)
      OBVIOUS
    <3>2. o \in Nat /\ f \in Nat /\ d \in Nat /\ hpos \in 0 .. d /\ o + f <= hpos
      BY <1>1, <1>3, <1>4, <3>1
    <3>3. o \in 0 .. d - f
      BY <3>2
    <3> QED
      BY <3>1, <3>3
  <2>2. PICK s, A, B : /\ s = offsets /\ A = 0 .. Len(disk) /\ B = 0 .. Len(disk) - Len(from)
                       /\ s \in Seq(A)
    BY <1>1
  <2>3. \A k \in 1 .. Len(s) : s[k] \in B
    BY <2>1, <2>2
  <2>4. s \in Seq(B)
    BY <2>2, <2>3, SeqOfSubset
  <2> QED
    BY <2>2, <2>4
<1>6. ASSUME NEW k \in 1 .. Len(offsets) - 1
      PROVE  offsets[k] + Len(from) <= offsets[k + 1]
  <2>1. k \in DOMAIN offsets /\ k < Len(offsets)
    BY <1>1
  <2> QED
    BY <1>2, <2>1 DEF MatchesBehind
<1>7. Promise!Overlaid(disk, offsets, data)
  <2>1. \A b : Promise!Covering(offsets, b) = Reached(b)
    BY <1>2 DEF Promise!Covering, Reached
  <2> QED
    BY <1>1, <1>2, <2>1 DEF Promise!Overlaid, LaidOver
<1>8. ASSUME Len(to) <= Len(from)
      PROVE  Promise!IsLeftmost(disk, Taken)
  <2>1. Decided(hpos)
    BY <1>8 DEF SearchInv
  <2>2. SUFFICES
          ASSUME NEW p \in 0 .. Len(disk)
          PROVE  p \in Taken <=> /\ p + Len(from) <= Len(disk) /\ Stands(p)
                                 /\ \A q \in Taken : ~(q < p /\ p < q + Len(from))
    BY <1>2 DEF Promise!IsLeftmost, Promise!Occurs, Stands
  <2>3. CASE p < hpos
    BY <2>1, <2>3 DEF Decided
  <2>4. CASE ~(p < hpos)
    <3>1. ~(p + Len(from) <= Len(disk))
      BY <1>1, <1>3, <2>4 DEF InReach
    <3>2. p \notin Taken
      <4>1. \A k \in DOMAIN offsets : offsets[k] # p
        BY <1>1, <1>3, <1>4, <2>4
      <4> QED
        BY <4>1 DEF Taken
    <3> QED
      BY <3>1, <3>2
  <2> QED
    BY <2>3, <2>4
<1> QED
  BY <1>2, <1>5, <1>6, <1>7, <1>8

LEMMA PromiseBegins == HexInit /\ HexInv => Promise!Init
<1> SUFFICES ASSUME HexInit, HexInv
             PROVE  Promise!Init
  OBVIOUS
<1>1. hpc = "read" /\ disk \in Seq(Bytes) /\ HexTypeOK
  BY DEF HexInit, HexInv, HexTypeOK
<1>2. ASSUME NEW s \in Seq(Bytes)
      PROVE  s \in Seq(Nat)
  <2>1. Len(s) \in Nat /\ DOMAIN s = 1 .. Len(s) /\ s = [k \in 1 .. Len(s) |-> s[k]]
    OBVIOUS
  <2>2. \A k \in 1 .. Len(s) : s[k] \in Nat
    <3>1. \A k \in 1 .. Len(s) : s[k] \in Bytes
      OBVIOUS
    <3>2. \A b \in Bytes : b \in Nat
      BY DEF Bytes
    <3> QED
      BY <3>1, <3>2
  <2>3. s \in [1 .. Len(s) -> Nat]
    BY <2>1, <2>2
  <2> QED
    BY <2>1, <2>3
<1>3. disk \in Seq(Nat) /\ (~Refused => from \in Seq(Nat) /\ to \in Seq(Nat))
  BY <1>1, <1>2, PatternBytes
<1>4. Searching
  BY <1>1 DEF Searching
<1>5. <<>> \in Seq(Nat)
  OBVIOUS
<1> QED
  BY <1>3, <1>4, <1>5 DEF Promise!Init

LEMMA PromiseStep ==
  ASSUME HexInv, SearchInv, [HexNext]_hexVars
  PROVE  [Promise!Replace]_(Promise!vars)
<1>1. CASE Match \/ NoMatch \/ (ReadPatterns /\ ~Refused)
  <2>1. /\ UNCHANGED <<disk, from, to, Refused>>
        /\ Searching /\ Searching'
    BY <1>1 DEF Match, NoMatch, ReadPatterns, Searching, from, to, Refused
  <2> QED
    BY <2>1 DEF Promise!vars
<1>2. CASE WriteHex \/ UNCHANGED hexVars
  <2>1. /\ UNCHANGED <<data, offsets, from, to, Refused>>
        /\ \/ ~Searching /\ ~Searching'
           \/ UNCHANGED <<disk, Searching>>
    BY <1>2 DEF WriteHex, hexVars, Searching, from, to, Refused
  <2> QED
    BY <2>1 DEF Promise!vars
<1>3. CASE ReadPatterns /\ Refused
  <2>1. /\ UNCHANGED <<disk, from, to, Refused>> /\ Searching /\ ~Searching' /\ Refused
        /\ data' = disk /\ offsets' = <<>>
    BY <1>3 DEF ReadPatterns, Searching, from, to, Refused, HexInv
  <2> QED
    BY <2>1 DEF Promise!Replace
<1>4. CASE SearchDone
  <2>1. /\ UNCHANGED <<disk, data, offsets, from, to, Refused>> /\ Searching /\ ~Searching'
        /\ hpc = "search" /\ ~InReach
    BY <1>4 DEF SearchDone, Searching, from, to, Refused
  <2>2. /\ ~Refused /\ from # <<>>
        /\ offsets \in Seq(0 .. Len(disk) - Len(from))
        /\ Promise!Apart(offsets)
        /\ Promise!Overlaid(disk, offsets, data)
        /\ Len(to) <= Len(from) => Promise!IsLeftmost(disk, Taken)
    BY <2>1, SearchKept DEF Promise!Apart
  <2> QED
    BY <2>1, <2>2 DEF Promise!Replace, Taken
<1> QED
  BY <1>1, <1>2, <1>3, <1>4 DEF HexNext

(* The safety of KeepsPromise for every file and every two patterns: all   *)
(* that hexpatch.rs does to a file is one step of HexReplace.  A           *)
(* replacement that is not longer than the pattern goes to the leftmost    *)
(* occurrences in what was read, to all of them and nowhere else, although *)
(* the loop searches the bytes that it changes.                            *)
THEOREM HexImplementsReplace == HexSpec => Promise!Safe
<1>1. HexInit => HexInv /\ SearchInv /\ Promise!Init
  BY HexBegins, SearchBegins, PromiseBegins
<1>2. HexInv /\ SearchInv /\ [HexNext]_hexVars
      => HexInv' /\ SearchInv' /\ [Promise!Replace]_(Promise!vars)
  BY HexStep, SearchStep, PromiseStep
<1> QED
  BY <1>1, <1>2, PTL DEF HexSpec, Promise!Safe
=============================================================================
