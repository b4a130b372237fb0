----------------------------- MODULE MCDtbPatch -----------------------------
(***************************************************************************)
(* TLC instance of DtbPatch: files of one or two trees, alone, behind one  *)
(* another, with bytes between them and one in another; their properties   *)
(* in front of and behind the limit of the walk, with values that keep,    *)
(* lose and never had verity parts; trees damaged in every field; and      *)
(* values that run over other tokens, names and trees.                     *)
(***************************************************************************)
EXTENDS DtbPatch

Plain(tag, size) == [tag |-> tag, size |-> size, name |-> "other", nameAt |-> 0,
                     nameLen |-> 0, value |-> <<>>]
Prop(name, size, value) ==
  [Plain("prop", size) EXCEPT
     !.name = name, !.value = value, !.nameLen = IF name = "linux,initrd" THEN 17 ELSE 6]
Root == Plain("begin", 0)
End == Plain("end", 0)
Stop == Plain("stop", 0)

(* The structure of a sequence of tokens, laid out as dtc does. *)
Offset(s) == [k \in 1 .. Len(s) |-> FoldLeft(LAMBDA n, t : n + TokenLen(t), 0,
                                             SubSeq(s, 1, k - 1))]
Laid(s) == LET o == Offset(s) IN
  [x \in Range(o) |-> s[CHOOSE k \in DOMAIN s : o[k] = x]]

(* The names of the properties, one behind another from at on. *)
Named(toks, at) ==
  LET name == "fstab" :> 0 @@ "linux,initrd" :> 6 @@ "other" :> 23 IN
  [o \in DOMAIN toks |-> [toks[o] EXCEPT !.nameAt = at + name[toks[o].name]]]

(* A tree with its structure at off and its strings, of n bytes, behind it.*)
TreeOf(s, off, n) ==
  LET end == off + Offset(Append(s, Stop))[Len(s) + 1] IN
  [total |-> end + n, offStruct |-> off, toks |-> Named(Laid(s), end)]

FileOf(n, trees) == [len |-> n, trees |-> trees]
Alone(t) == FileOf(t.total, 0 :> t)

(* t at offset p, u with gap bytes between them, rest bytes at the end. *)
Two(p, t, gap, u, rest) ==
  FileOf(p + t.total + gap + u.total + rest, p :> t @@ (p + t.total + gap) :> u)

-----------------------------------------------------------------------------
Values == {<<"text", "verity">>, <<"verity", "text", "more text">>,
           <<"text", "more text", "verity", "empty">>, <<"verity", "text", "verity">>,
           <<"verity", "binary">>,
           <<"empty", "text", "binary", "text">>, <<"verity">>, <<"text">>}
LaterValues == {<<"empty", "text", "zero">>, <<"empty", "empty">>,
                <<"text", "verity", "more text">>}

Props(v, w, n) ==
  <<Root, Prop("fstab", 9, v), Plain("begin", 3), Prop("linux,initrd", n, <<"text">>),
    Prop("fstab", 6, w), End, Prop("other", 4, <<"verity", "text">>), End, Stop>>

GoodTrees ==
  {TreeOf(Props(v, w, n), off, 32) :
     v \in Values, w \in LaterValues, n \in {4, 6, 8}, off \in {56, 160}}

Small(v) == TreeOf(<<Root, Prop("fstab", 8, v), Plain("nop", 0),
                     Prop("linux,initrd", 8, <<"text">>), End, Stop>>, 72, 32)
SmallTree == Small(<<"text", "verity">>)

Neighbours ==
  {Two(p, Small(v), gap, SmallTree, rest) :
     p \in {0, 4, 6}, v \in Values, gap \in {0, 2, 4, 8}, rest \in {0, 2, 60}}

(* Trees whose length is not a multiple of four, with another behind them. *)
OddNeighbours ==
  {Two(p, [SmallTree EXCEPT !.total = @ + n], gap, SmallTree, 0) :
     p \in {0, 4}, n \in 1 .. 3, gap \in 0 .. 3}

-----------------------------------------------------------------------------
(* Damage: a header's field, a name or a value that leaves the file, a     *)
(* structure without an end, and one that begins far behind its tree.      *)
Damaged ==
  {[SmallTree EXCEPT !.total = n] : n \in {0, 72, 73, 1000}}
  \cup {[SmallTree EXCEPT !.offStruct = n] : n \in {0, 12, 164, 412}}
  \cup {[SmallTree EXCEPT !.toks[o].size = 4000] : o \in {0, 8, 32}}
  \cup {[SmallTree EXCEPT !.toks[8].nameAt = n] : n \in {200, 4000}}
  \cup {TreeOf(<<Root, Prop("linux,initrd", 4, <<"text">>),
                 Prop("linux,initrd", n, <<"text">>)>>, off, 0) :
          n \in {8, 3}, off \in {56, 400}}
  \cup {[SmallTree EXCEPT !.offStruct = 392,
                          !.toks = Named(0 :> Prop("linux,initrd", n, <<"text">>), 132)] :
          n \in {4, 100}}
  \cup {[SmallTree EXCEPT !.offStruct = 392, !.toks = Laid(<<End>>)]}

(* A tree with SmallTree in the value of a property. *)
Outer == TreeOf(<<Root, Prop("fstab", 8, <<"verity", "text">>),
                  Prop("other", SmallTree.total, <<"text">>), End, Stop>>, 56, 32)
Nested(n) == FileOf(Outer.total + SmallTree.total,
  0 :> [Outer EXCEPT !.total = n] @@ 96 :> SmallTree @@ Outer.total :> SmallTree)

DamagedFiles ==
  {Alone(t) : t \in {u \in Damaged : u.total <= 420}}
  \cup {FileOf(n, 0 :> t @@ 224 :> SmallTree) : t \in Damaged, n \in {400, 420, 423}}
  \cup {Nested(n) : n \in {0, 72, 73, 96, Outer.total, 1000}}

-----------------------------------------------------------------------------
(* An fstab that runs over the tokens behind it, and on over the strings   *)
(* and the next tree, and one that holds the name of another property.     *)
Long(n, v) == [Small(v) EXCEPT !.toks[8].size = n]

LongValues == {<<"text", "verity">>, <<"verity", "text">>}

NameInside ==
  LET t == TreeOf(<<Root, Prop("fstab", 28, <<"verity", "text">>),
                    Prop("linux,initrd", 8, <<"text">>), End, Stop>>, 72, 32)
  IN [t EXCEPT !.toks[48].nameAt = 100]

LongFiles ==
  {Alone(Long(40, v)) : v \in LongValues}
  \cup {Two(0, Long(n, v), 0, SmallTree, 0) : n \in {40, 76}, v \in LongValues}
  \cup {Alone(NameInside), Two(0, SmallTree, 4, NameInside, 0)}

(* What is left when nothing is left of what the fstab at o of tree p ran  *)
(* over, and a name in it has become another one.                          *)
Ruined(f, p, o) ==
  LET own == f.trees[p].toks[o]
      Clear(a, m) == Disjoint(a, m, p + f.trees[p].offStruct + o + 12, own.size)
      Renamed(q, k) == [k EXCEPT !.name = IF Clear(q + k.nameAt, k.nameLen) THEN @ ELSE "other"]
      Left(q) == LET t == f.trees[q] IN
        [r \in {x \in DOMAIN t.toks : Clear(q + t.offStruct + x, TokenLen(t.toks[x]))} |->
           Renamed(q, t.toks[r])]
      Written == o :> Renamed(p, [own EXCEPT !.value = Rewritten(@)])
  IN FileOf(f.len,
       [q \in {x \in DOMAIN f.trees : Clear(x, 16)} |->
          [f.trees[q] EXCEPT !.toks = IF q = p THEN Written @@ Left(q) ELSE Left(q)]])

(* The tokens behind the verity part in front, of eight bytes, move up. *)
MovedUp ==
  LET t == Long(40, <<"verity", "text">>)
      moved == [o \in {20, 24, 44, 48} |-> t.toks[o + 8]]
  IN [t EXCEPT !.toks = 0 :> @[0] @@ 8 :> [@[8] EXCEPT !.value = Rewritten(@)] @@ moved]

(* Two trees of one structure: off_dt_struct of the first leads to it. *)
Shared(u) ==
  LET t == [u EXCEPT !.offStruct = @ + u.total,
                     !.toks = [o \in DOMAIN @ |-> [@[o] EXCEPT !.nameAt = @ + u.total]]]
  IN Two(0, t, 0, u, 0)

MCDebris ==
  {Ruined(f, 0, 8) : f \in LongFiles}
  \cup {Ruined(Two(0, Small(<<"text">>), 4, NameInside, 0), SmallTree.total + 4, 8)}
  \cup {Alone(MovedUp), Two(0, MovedUp, 0, SmallTree, 0)}
  \cup {Shared(Small(<<"text">>))}

-----------------------------------------------------------------------------
MCFiles ==
  {Alone(t) : t \in GoodTrees} \cup Neighbours \cup OddNeighbours \cup DamagedFiles
  \cup LongFiles \cup {Shared(SmallTree)}

(* A tree as dtc writes it, whose fstab lies behind the limit. *)
DeepFiles == {Alone(TreeOf(Props(<<"text">>, <<"text", "verity">>, 8), 56, 32))}
=============================================================================
