--------------------------- MODULE BootSignProofs ---------------------------
(***************************************************************************)
(* What cmd_sign leaves in the file, whenever it is cut short and however  *)
(* often it is started again: for every length of the body, of what lies   *)
(* behind it, of an AVB structure and of a signature.                      *)
(***************************************************************************)
EXTENDS BootSign, SequenceTheorems, TLAPS

Cells == [what : Kinds, k : Nat, v : 0 .. MaxEdits]

-----------------------------------------------------------------------------
(* The inductive invariant. *)

(* The first n cells are those of a file that is signed: body, signature   *)
(* of the file's version, zeros.                                           *)
WrittenUpTo(n) ==
  \A i \in 1 .. Len(file) : i <= n =>
    IF i <= BodyLen THEN IsOr(i, Cell("body", i, 0))
    ELSE file[i] = IF i <= SigEnd THEN SigCell(i - BodyLen - 1) ELSE Zero

(* Where a part of a vbmeta is left, so is the rest of it, as far as the   *)
(* file goes, and a footer begins behind it.                               *)
VbmetaLeft ==
  \A i \in 1 .. Len(file) : file[i].what = "vbmeta" =>
    /\ \A j \in i .. Len(file) : file[i].k + (j - i) < AvbLen =>
         IsOr(j, Cell("vbmeta", file[i].k + (j - i), 0))
    /\ \A j \in 1 .. Len(file) : file[j].what = "footer" =>
         i + AvbLen <= j + file[i].k

(* The same for the footer: nothing else is behind a part of it. *)
FooterLeft ==
  \A i \in 1 .. Len(file) : file[i].what = "footer" =>
    \A j \in i .. Len(file) : IsOr(j, Cell("footer", file[i].k + (j - i), 0))

(* Each command begins with the signature again.  What an earlier one left *)
(* behind its position is not told from an old file's.                     *)
WriterInv ==
  /\ cmd # "idle" => ~signed /\ WrittenUpTo(pos - 1)
  /\ cmd = "sig" => pos <= SigEnd + 1
  /\ cmd = "fill" => pos > SigEnd

SignInv ==
  /\ SignTypeOK
  /\ WrittenUpTo(BodyLen)
  /\ WriterInv
  /\ signed => WrittenUpTo(Len(file))
  /\ VbmetaLeft
  /\ FooterLeft

-----------------------------------------------------------------------------
(* A write in the file or directly behind it. *)
LEMMA PutFacts ==
  ASSUME file \in Seq(Cells), NEW i \in 1 .. Len(file) + 1, NEW c \in Cells
  PROVE  /\ Put(i, c) \in Seq(Cells)
         /\ Len(Put(i, c)) = IF i > Len(file) THEN i ELSE Len(file)
         /\ \A j \in 1 .. Len(Put(i, c)) : Put(i, c)[j] = IF j = i THEN c ELSE file[j]
<1> DEFINE n == IF i > Len(file) THEN i ELSE Len(file)
<1>1. Len(file) \in Nat /\ n \in Nat
  BY LenProperties
<1>2. \A j \in 1 .. Len(file) : file[j] \in Cells
  BY ElementOfSeq
<1>3. \A j \in 1 .. n : (IF j = i THEN c ELSE IF j <= Len(file) THEN file[j] ELSE Zero)
                          = IF j = i THEN c ELSE file[j]
  BY <1>1
<1>4. \A j \in 1 .. n : (IF j = i THEN c ELSE file[j]) \in Cells
  BY <1>1, <1>2
<1>5. Put(i, c) = [j \in 1 .. n |-> IF j = i THEN c ELSE file[j]]
  BY <1>3 DEF Put
<1> HIDE DEF n
<1>6. Put(i, c) \in [1 .. n -> Cells]
  BY <1>4, <1>5
<1>7. Put(i, c) \in Seq(Cells) /\ Len(Put(i, c)) = n
  BY <1>1, <1>6
<1> QED
  BY <1>1, <1>5, <1>7 DEF n

LEMMA CellTypes ==
  /\ Zero \in Cells /\ Edited \in Cells
  /\ \A i \in Nat : Cell("body", i, 0) \in Cells
  /\ \A i \in Nat : \A w \in Kinds : Cell(w, i, 0) \in Cells
  /\ SignTypeOK => \A i \in Nat : SigCell(i) \in Cells
  BY LensAssumption DEF Zero, Edited, Cell, Cells, Kinds, SigCell, SignTypeOK

LEMMA CellParts ==
  /\ \A w, i, v : Cell(w, i, v).what = w /\ Cell(w, i, v).k = i
  /\ Zero.what = "zero" /\ Edited.what = "edit"
  BY DEF Cell, Zero, Edited

(* The file as it is built. *)
LEMMA BuiltFile ==
  ASSUME NEW n \in Nat, NEW avb \in BOOLEAN, NEW o \in Nat,
         file = Body \o Behind(n, avb, o), avb => o + 2 * AvbLen <= n
  PROVE  /\ file \in Seq(Cells) /\ Len(file) = BodyLen + n
         /\ WrittenUpTo(BodyLen)
         /\ VbmetaLeft
         /\ FooterLeft
<1>0. BodyLen \in Nat /\ AvbLen \in Nat \ {0} /\ SigSize \in Nat \ {0}
  BY LensAssumption, AvbLenAssumption, SigSizeAssumption
<1>1. Body \in [1 .. BodyLen -> Cells]
  BY <1>0, CellTypes DEF Body
<1>2. Behind(n, avb, o) \in [1 .. n -> Cells]
  <2>1. ASSUME NEW i \in 1 .. n
        PROVE  (IF avb /\ i > n - AvbLen THEN Cell("footer", i - (n - AvbLen) - 1, 0)
                ELSE IF avb /\ i > o /\ i <= o + AvbLen THEN Cell("vbmeta", i - o - 1, 0)
                ELSE Cell("old", 0, 0)) \in Cells
    <3>1. CASE avb /\ i > n - AvbLen
      <4>1. i - (n - AvbLen) - 1 \in Nat
        BY <1>0, <3>1
      <4> QED
        BY <3>1, <4>1, CellTypes DEF Kinds
    <3>2. CASE ~(avb /\ i > n - AvbLen) /\ avb /\ i > o /\ i <= o + AvbLen
      <4>1. i - o - 1 \in Nat
        BY <1>0, <3>2
      <4> QED
        BY <3>2, <4>1, CellTypes DEF Kinds
    <3>3. CASE ~(avb /\ i > n - AvbLen) /\ ~(avb /\ i > o /\ i <= o + AvbLen)
      BY <3>3, CellTypes DEF Kinds
    <3> QED
      BY <3>1, <3>2, <3>3
  <2> QED
    BY <2>1 DEF Behind
<1>3. /\ Body \in Seq(Cells) /\ Len(Body) = BodyLen
      /\ Behind(n, avb, o) \in Seq(Cells) /\ Len(Behind(n, avb, o)) = n
  BY <1>0, <1>1, <1>2
<1>4. /\ file \in Seq(Cells) /\ Len(file) = BodyLen + n
      /\ \A i \in 1 .. BodyLen : file[i] = Body[i]
      /\ \A i \in 1 .. n : file[BodyLen + i] = Behind(n, avb, o)[i]
  <2> DEFINE s == Body
             t == Behind(n, avb, o)
  <2>1. s \in Seq(Cells) /\ Len(s) = BodyLen /\ t \in Seq(Cells) /\ Len(t) = n /\ file = s \o t
    BY <1>3
  <2> HIDE DEF s, t
  <2>2. /\ s \o t \in Seq(Cells) /\ Len(s \o t) = Len(s) + Len(t)
        /\ \A i \in 1 .. Len(s) + Len(t) :
             (s \o t)[i] = IF i <= Len(s) THEN s[i] ELSE t[i - Len(s)]
    BY <2>1, ConcatProperties
  <2>3. \A i \in 1 .. BodyLen : file[i] = s[i]
    BY <1>0, <2>1, <2>2
  <2>4. ASSUME NEW i \in 1 .. n
        PROVE  file[BodyLen + i] = t[i]
    <3>1. BodyLen + i \in 1 .. BodyLen + n /\ ~(BodyLen + i <= BodyLen)
          /\ BodyLen + i - BodyLen = i
      BY <1>0
    <3> QED
      BY <2>1, <2>2, <3>1
  <2> QED
    BY <2>1, <2>2, <2>3, <2>4 DEF s, t
<1>5. \A i \in 1 .. BodyLen : file[i] = Cell("body", i, 0)
  BY <1>4 DEF Body
<1>6. \A i \in 1 .. n : file[BodyLen + i] =
        IF avb /\ i > n - AvbLen THEN Cell("footer", i - (n - AvbLen) - 1, 0)
        ELSE IF avb /\ i > o /\ i <= o + AvbLen THEN Cell("vbmeta", i - o - 1, 0)
        ELSE Cell("old", 0, 0)
  BY <1>4 DEF Behind
<1>a. /\ \A i \in 1 .. BodyLen : file[i].what = "body"
      /\ \A i \in 1 .. n : file[BodyLen + i].what = "footer" => avb /\ i > n - AvbLen
  <2>1. ASSUME NEW i \in 1 .. BodyLen
        PROVE  file[i].what = "body"
    <3>1. Cell("body", i, 0).what = "body"
      BY CellParts
    <3> QED
      BY <1>5, <3>1
  <2>2. ASSUME NEW i \in 1 .. n, ~(avb /\ i > n - AvbLen)
        PROVE  file[BodyLen + i].what \in {"vbmeta", "old"}
    <3>1. /\ Cell("vbmeta", i - o - 1, 0).what = "vbmeta"
          /\ Cell("old", 0, 0).what = "old"
      BY CellParts
    <3>2. \/ file[BodyLen + i] = Cell("vbmeta", i - o - 1, 0)
          \/ file[BodyLen + i] = Cell("old", 0, 0)
      BY <1>6, <2>2
    <3> QED
      BY <3>1, <3>2
  <2> QED
    BY <2>1, <2>2
<1>7. WrittenUpTo(BodyLen)
  BY <1>0, <1>4, <1>5 DEF WrittenUpTo, IsOr
<1>b. ASSUME NEW i \in 1 .. Len(file), file[i].what \in {"vbmeta", "footer"}
      PROVE  avb /\ \E m \in 1 .. n :
               /\ i = BodyLen + m
               /\ file[i] = IF m > n - AvbLen THEN Cell("footer", m - (n - AvbLen) - 1, 0)
                            ELSE Cell("vbmeta", m - o - 1, 0)
               /\ m <= n - AvbLen => m > o /\ m <= o + AvbLen
  <2>1. i > BodyLen
    BY <1>0, <1>4, <1>a, <1>b
  <2> DEFINE m == i - BodyLen
  <2>2. m \in 1 .. n /\ i = BodyLen + m
    BY <1>0, <1>4, <2>1
  <2> HIDE DEF m
  <2>3. Cell("old", 0, 0).what = "old"
    BY CellParts
  <2>5. /\ Cell("vbmeta", m - o - 1, 0).what # "old"
        /\ file[i] = IF avb /\ m > n - AvbLen THEN Cell("footer", m - (n - AvbLen) - 1, 0)
                     ELSE IF avb /\ m > o /\ m <= o + AvbLen THEN Cell("vbmeta", m - o - 1, 0)
                     ELSE Cell("old", 0, 0)
    BY <1>6, <2>2, CellParts
  <2>6. file[i] # Cell("old", 0, 0)
    BY <1>b, <2>3
  <2>4. /\ avb
        /\ file[i] = IF m > n - AvbLen THEN Cell("footer", m - (n - AvbLen) - 1, 0)
                     ELSE Cell("vbmeta", m - o - 1, 0)
        /\ m <= n - AvbLen => m > o /\ m <= o + AvbLen
    BY <1>0, <2>2, <2>5, <2>6
  <2> QED
    BY <2>2, <2>4
<1>8. VbmetaLeft
  <2> SUFFICES ASSUME NEW i \in 1 .. Len(file), file[i].what = "vbmeta"
               PROVE  /\ \A j \in i .. Len(file) : file[i].k + (j - i) < AvbLen =>
                           IsOr(j, Cell("vbmeta", file[i].k + (j - i), 0))
                      /\ \A j \in 1 .. Len(file) : file[j].what = "footer" =>
                           i + AvbLen <= j + file[i].k
    BY DEF VbmetaLeft
  <2>1. PICK m \in 1 .. n :
          /\ i = BodyLen + m
          /\ file[i] = IF m > n - AvbLen THEN Cell("footer", m - (n - AvbLen) - 1, 0)
                       ELSE Cell("vbmeta", m - o - 1, 0)
          /\ m <= n - AvbLen => m > o /\ m <= o + AvbLen
    BY <1>b
  <2>2. avb
    BY <1>b
  <2>3. m <= n - AvbLen /\ file[i] = Cell("vbmeta", m - o - 1, 0)
    BY <1>0, <2>1, CellParts
  <2>4. file[i].k = m - o - 1
    BY <2>3, CellParts
  <2>5. ASSUME NEW j \in i .. Len(file), file[i].k + (j - i) < AvbLen
        PROVE  IsOr(j, Cell("vbmeta", file[i].k + (j - i), 0))
    <3> DEFINE l == j - BodyLen
    <3>1. l \in 1 .. n /\ j = BodyLen + l
      BY <1>0, <1>4, <2>1
    <3>2. ~(l > n - AvbLen) /\ l > o /\ l <= o + AvbLen
      BY <1>0, <1>3, <2>1, <2>2, <2>3, <2>4, <2>5, <3>1
    <3>3. file[j] = Cell("vbmeta", l - o - 1, 0)
      BY <1>6, <2>2, <3>1, <3>2
    <3>4. l - o - 1 = file[i].k + (j - i)
      BY <1>0, <2>1, <2>4, <3>1
    <3> QED
      BY <3>3, <3>4 DEF IsOr
  <2>6. ASSUME NEW j \in 1 .. Len(file), file[j].what = "footer"
        PROVE  i + AvbLen <= j + file[i].k
    <3>1. PICK l \in 1 .. n :
            /\ j = BodyLen + l
            /\ file[j] = IF l > n - AvbLen THEN Cell("footer", l - (n - AvbLen) - 1, 0)
                         ELSE Cell("vbmeta", l - o - 1, 0)
      BY <1>b, <2>6
    <3>2. l > n - AvbLen
      BY <2>6, <3>1, CellParts
    <3> QED
      BY <1>0, <2>1, <2>2, <2>4, <3>1, <3>2
  <2> QED
    BY <2>5, <2>6
<1>9. FooterLeft
  <2> SUFFICES ASSUME NEW i \in 1 .. Len(file), file[i].what = "footer",
                      NEW j \in i .. Len(file)
               PROVE  IsOr(j, Cell("footer", file[i].k + (j - i), 0))
    BY DEF FooterLeft
  <2>1. avb /\ \E m \in 1 .. n :
          /\ i = BodyLen + m
          /\ file[i] = IF m > n - AvbLen THEN Cell("footer", m - (n - AvbLen) - 1, 0)
                       ELSE Cell("vbmeta", m - o - 1, 0)
    BY <1>b
  <2>2. PICK m \in 1 .. n :
          /\ i = BodyLen + m
          /\ file[i] = IF m > n - AvbLen THEN Cell("footer", m - (n - AvbLen) - 1, 0)
                       ELSE Cell("vbmeta", m - o - 1, 0)
    BY <2>1
  <2>3. m > n - AvbLen /\ file[i].k = m - (n - AvbLen) - 1
    BY <2>2, CellParts
  <2> DEFINE l == j - BodyLen
  <2>4. l \in 1 .. n /\ j = BodyLen + l /\ l > n - AvbLen
    BY <1>0, <1>4, <2>2, <2>3
  <2>5. file[j] = Cell("footer", l - (n - AvbLen) - 1, 0)
    BY <1>6, <2>1, <2>4
  <2>6. l - (n - AvbLen) - 1 = file[i].k + (j - i)
    BY <1>0, <2>2, <2>3, <2>4
  <2> QED
    BY <2>5, <2>6 DEF IsOr
<1> QED
  BY <1>4, <1>7, <1>8, <1>9

(* What is left of the AVB structures stays in its place as long as        *)
(* everything behind a cell of them that is left is as it was, or edited.  *)
LEMMA AvbKept ==
  ASSUME VbmetaLeft, FooterLeft, Len(file) \in Nat, Len(file') \in Nat,
         \A i \in 1 .. Len(file) : file[i].k \in Nat,
         \A i \in 1 .. Len(file') : file'[i].what \in {"vbmeta", "footer"} =>
           \A j \in i .. Len(file') :
             j \in 1 .. Len(file) /\ file'[j] \in {file[j], Edited}
  PROVE  VbmetaLeft' /\ FooterLeft'
<1>1. ASSUME NEW i \in 1 .. Len(file'), file'[i].what \in {"vbmeta", "footer"}
      PROVE  i \in 1 .. Len(file) /\ file'[i] = file[i] /\ file[i].k \in Nat
  <2>1. i \in i .. Len(file')
    OBVIOUS
  <2> QED
    BY <1>1, <2>1, CellParts
<1>2. \A j, c : file[j] \in {c, Edited} /\ file'[j] \in {file[j], Edited} => file'[j] \in {c, Edited}
  OBVIOUS
<1>3. VbmetaLeft'
  <2> SUFFICES ASSUME NEW i \in 1 .. Len(file'), file'[i].what = "vbmeta"
               PROVE  /\ \A j \in i .. Len(file') : file'[i].k + (j - i) < AvbLen =>
                           file'[j] \in {Cell("vbmeta", file'[i].k + (j - i), 0), Edited}
                      /\ \A j \in 1 .. Len(file') : file'[j].what = "footer" =>
                           i + AvbLen <= j + file'[i].k
    BY DEF VbmetaLeft, IsOr
  <2>1. i \in 1 .. Len(file) /\ file'[i] = file[i] /\ file[i].k \in Nat
    BY <1>1
  <2>2. ASSUME NEW j \in i .. Len(file'), file'[i].k + (j - i) < AvbLen
        PROVE  file'[j] \in {Cell("vbmeta", file'[i].k + (j - i), 0), Edited}
    <3>1. j \in i .. Len(file) /\ file'[j] \in {file[j], Edited}
      BY <2>1
    <3>2. file[j] \in {Cell("vbmeta", file[i].k + (j - i), 0), Edited}
      BY <2>1, <2>2, <3>1 DEF VbmetaLeft, IsOr
    <3> QED
      BY <1>2, <2>1, <3>1, <3>2
  <2>3. ASSUME NEW j \in 1 .. Len(file'), file'[j].what = "footer"
        PROVE  i + AvbLen <= j + file'[i].k
    <3>1. j \in 1 .. Len(file) /\ file'[j] = file[j]
      BY <1>1, <2>3
    <3> QED
      BY <2>1, <2>3, <3>1 DEF VbmetaLeft
  <2> QED
    BY <2>2, <2>3
<1>4. FooterLeft'
  <2> SUFFICES ASSUME NEW i \in 1 .. Len(file'), file'[i].what = "footer",
                      NEW j \in i .. Len(file')
               PROVE  file'[j] \in {Cell("footer", file'[i].k + (j - i), 0), Edited}
    BY DEF FooterLeft, IsOr
  <2>1. i \in 1 .. Len(file) /\ file'[i] = file[i]
    BY <1>1
  <2>2. j \in i .. Len(file) /\ file'[j] \in {file[j], Edited}
    BY <2>1
  <2>3. file[j] \in {Cell("footer", file[i].k + (j - i), 0), Edited}
    BY <2>1, <2>2 DEF FooterLeft, IsOr
  <2> QED
    BY <1>2, <2>1, <2>2, <2>3
<1> QED
  BY <1>3, <1>4

(* Writing forward: the cell at the position becomes what a signed file    *)
(* has there.                                                              *)
LEMMA WriteForward ==
  ASSUME SignInv, cmd # "idle", NEW c \in Cells, c.what \in {"sig", "zero"},
         c = (IF pos <= SigEnd THEN SigCell(pos - BodyLen - 1) ELSE Zero),
         file' = Put(pos, c), pos' = pos + 1, UNCHANGED <<version, cmd, signed>>
  PROVE  /\ file' \in Seq(Cells)
         /\ pos' \in Nat /\ pos' \in BodyLen + 1 .. Len(file') + 1
         /\ WrittenUpTo(BodyLen)'
         /\ WrittenUpTo(pos - 1)'
         /\ VbmetaLeft'
         /\ FooterLeft'
<1>0. BodyLen \in Nat /\ AvbLen \in Nat \ {0} /\ SigSize \in Nat \ {0}
  BY LensAssumption, AvbLenAssumption, SigSizeAssumption
<1>1. /\ file \in Seq(Cells) /\ Len(file) \in Nat
      /\ pos \in BodyLen + 1 .. Len(file) + 1 /\ pos \in Nat
  <2>1. file \in Seq(Cells) /\ pos \in BodyLen + 1 .. Len(file) + 1
    BY DEF SignInv, SignTypeOK, Cells
  <2> QED
    BY <1>0, <2>1, LenProperties
<1> DEFINE n == IF pos > Len(file) THEN pos ELSE Len(file)
<1>2. pos \in 1 .. Len(file) + 1
  BY <1>0, <1>1
<1>3. /\ file' \in Seq(Cells) /\ Len(file') = n
      /\ \A j \in 1 .. n : file'[j] = IF j = pos THEN c ELSE file[j]
  BY <1>1, <1>2, PutFacts
<1>4. n \in Nat /\ pos <= n /\ n <= Len(file) + 1 /\ Len(file) <= n
      /\ (n = Len(file) \/ n = pos)
  BY <1>1
<1> HIDE DEF n
<1>5. /\ pos' \in Nat /\ pos' \in BodyLen + 1 .. Len(file') + 1 /\ pos' - 1 = pos
      /\ SigEnd' = SigEnd /\ SigEnd \in Nat
      /\ \A k : SigCell(k)' = SigCell(k)
  BY <1>0, <1>1, <1>3, <1>4 DEF SigEnd, SigCell
<1>6. ASSUME NEW i \in 1 .. n, i <= pos
      PROVE  IF i <= BodyLen THEN file'[i] \in {Cell("body", i, 0), Edited}
             ELSE file'[i] = IF i <= SigEnd THEN SigCell(i - BodyLen - 1) ELSE Zero
  <2>1. CASE i = pos
    <3>1. ~(i <= BodyLen) /\ file'[i] = c
      BY <1>0, <1>1, <1>3, <2>1
    <3> QED
      BY <2>1, <3>1
  <2>2. CASE i # pos
    <3>1. i \in 1 .. Len(file) /\ i <= pos - 1 /\ file'[i] = file[i]
      BY <1>1, <1>3, <1>4, <1>6, <2>2
    <3> QED
      BY <3>1 DEF SignInv, WriterInv, WrittenUpTo, IsOr
  <2> QED
    BY <2>1, <2>2
<1>7. WrittenUpTo(pos - 1)'
  BY <1>3, <1>5, <1>6 DEF WrittenUpTo, IsOr
<1>8. WrittenUpTo(BodyLen)'
  <2>1. \A i \in 1 .. n : i <= BodyLen => i <= pos
    BY <1>0, <1>1, <1>4
  <2> QED
    BY <1>3, <1>6, <2>1 DEF WrittenUpTo, IsOr
<1>9. ASSUME NEW i \in 1 .. Len(file'), file'[i].what \in {"vbmeta", "footer"},
             NEW j \in i .. Len(file')
      PROVE  j \in 1 .. Len(file) /\ file'[j] \in {file[j], Edited}
  <2>1. i > pos
    <3> SUFFICES ASSUME i <= pos
                 PROVE  FALSE
      BY <1>1, <1>3, <1>4
    <3>1. /\ Cell("body", i, 0).what = "body" /\ SigCell(i - BodyLen - 1).what = "sig"
          /\ Zero.what = "zero" /\ Edited.what = "edit"
      BY CellParts DEF SigCell
    <3>2. \/ file'[i] \in {Cell("body", i, 0), Edited}
          \/ file'[i] \in {SigCell(i - BodyLen - 1), Zero}
      BY <1>3, <1>6
    <3> QED
      BY <1>9, <3>1, <3>2
  <2> QED
    BY <1>1, <1>3, <1>4, <2>1
<1>10. VbmetaLeft' /\ FooterLeft'
  <2>1. Len(file') \in Nat /\ \A i \in 1 .. Len(file) : file[i].k \in Nat
    <3>1. \A i \in 1 .. Len(file) : file[i] \in Cells
      BY <1>1, ElementOfSeq
    <3> QED
      BY <1>3, <1>4, <3>1 DEF Cells
  <2>2. VbmetaLeft /\ FooterLeft
    BY DEF SignInv
  <2> QED
    BY <1>1, <1>9, <2>1, <2>2, AvbKept
<1> QED
  BY <1>3, <1>5, <1>7, <1>8, <1>10

LEMMA SignInit == Init => SignInv
<1> SUFFICES ASSUME Init
             PROVE  SignInv
  OBVIOUS
<1>0. BodyLen \in Nat /\ AvbLen \in Nat \ {0} /\ MaxTail \in Nat /\ MaxEdits \in Nat
  BY LensAssumption, AvbLenAssumption
<1>1. /\ version = 0 /\ cmd = "idle" /\ pos = BodyLen + 1
      /\ signed = FALSE /\ verdict = "none"
  BY DEF Init
<1>2. PICK n \in 0 .. MaxTail :
        \/ file = Body \o Behind(n, FALSE, 0)
        \/ \E o \in 0 .. n : o + 2 * AvbLen <= n /\ file = Body \o Behind(n, TRUE, o)
  BY DEF Init
<1>3. \E avb \in BOOLEAN, o \in Nat :
        file = Body \o Behind(n, avb, o) /\ (avb => o + 2 * AvbLen <= n)
  <2>1. CASE file = Body \o Behind(n, FALSE, 0)
    BY <2>1
  <2>2. CASE \E o \in 0 .. n : o + 2 * AvbLen <= n /\ file = Body \o Behind(n, TRUE, o)
    <3>1. PICK o \in 0 .. n : o + 2 * AvbLen <= n /\ file = Body \o Behind(n, TRUE, o)
      BY <2>2
    <3>2. o \in Nat
      BY <1>0
    <3> QED
      BY <3>1, <3>2
  <2> QED
    BY <1>2, <2>1, <2>2
<1>4. /\ file \in Seq(Cells) /\ Len(file) = BodyLen + n
      /\ WrittenUpTo(BodyLen) /\ VbmetaLeft /\ FooterLeft
  BY <1>0, <1>3, BuiltFile
<1>5. SignTypeOK
  <2>1. pos \in Nat /\ version \in 0 .. MaxEdits
    BY <1>0, <1>1
  <2> QED
    BY <1>1, <1>4, <2>1 DEF SignTypeOK, Cells
<1> QED
  BY <1>1, <1>4, <1>5 DEF SignInv, WriterInv

LEMMA SignStep == SignInv /\ [Next]_vars => SignInv'
<1> SUFFICES ASSUME SignInv, [Next]_vars
             PROVE  SignInv'
  OBVIOUS
<1>0. BodyLen \in Nat /\ AvbLen \in Nat \ {0} /\ SigSize \in Nat \ {0} /\ MaxEdits \in Nat
  BY LensAssumption, AvbLenAssumption, SigSizeAssumption
<1>1. /\ file \in Seq(Cells) /\ Len(file) \in Nat /\ DOMAIN file = 1 .. Len(file)
      /\ pos \in Nat
      /\ version \in 0 .. MaxEdits /\ cmd \in {"idle", "sig", "fill"}
      /\ signed \in BOOLEAN /\ verdict \in {"none", "signed", "unsigned", "error"}
  <2>1. file \in Seq(Cells)
    BY DEF SignInv, SignTypeOK, Cells
  <2> QED
    BY <1>0, <2>1, LenProperties DEF SignInv, SignTypeOK
<1>p. cmd # "idle" => pos \in BodyLen + 1 .. Len(file) + 1
  BY DEF SignInv, SignTypeOK
<1>2. SigEnd \in Nat /\ SigEnd' = SigEnd /\ BodyLen' = BodyLen
  BY <1>0 DEF SigEnd
(* What reads the file only. *)
<1>3. ASSUME UNCHANGED <<file, version>>
      PROVE  /\ VbmetaLeft' /\ FooterLeft'
             /\ WrittenUpTo(BodyLen)'
             /\ WrittenUpTo(Len(file)) => WrittenUpTo(Len(file))'
             /\ (pos' = pos /\ WrittenUpTo(pos - 1)) => WrittenUpTo(pos - 1)'
  <2>1. VbmetaLeft' /\ FooterLeft'
    BY <1>3 DEF SignInv, VbmetaLeft, FooterLeft, IsOr
  <2>2. \A k : SigCell(k)' = SigCell(k)
    BY <1>3 DEF SigCell
  <2>3. /\ WrittenUpTo(BodyLen)'
        /\ WrittenUpTo(Len(file)) => WrittenUpTo(Len(file))'
        /\ (pos' = pos /\ WrittenUpTo(pos - 1)) => WrittenUpTo(pos - 1)'
    BY <1>2, <1>3, <2>2 DEF SignInv, WrittenUpTo, IsOr
  <2> QED
    BY <2>1, <2>3
<1>5. CASE Edit
  <2>1. /\ cmd = "idle" /\ version' = version + 1 /\ version < MaxEdits
        /\ signed' = FALSE /\ verdict' = "none" /\ UNCHANGED <<cmd, pos>>
    BY <1>5 DEF Edit
  <2>2. PICK at \in SUBSET DOMAIN file, n \in 0 .. Len(file) :
          file' = [i \in 1 .. n |-> IF i \in at THEN Edited ELSE file[i]]
    BY <1>5 DEF Edit
  <2>3. n \in Nat /\ n <= Len(file)
    BY <1>1
  <2>4. \A i \in 1 .. n : (IF i \in at THEN Edited ELSE file[i]) \in Cells
    <3>1. \A i \in 1 .. Len(file) : file[i] \in Cells
      BY <1>1, ElementOfSeq
    <3> QED
      BY <2>3, <3>1, CellTypes
  <2>5. /\ file' \in Seq(Cells) /\ Len(file') = n
        /\ \A i \in 1 .. n : file'[i] = IF i \in at THEN Edited ELSE file[i]
    <3>1. file' \in [1 .. n -> Cells]
      BY <2>2, <2>4
    <3>2. file' \in Seq(Cells) /\ Len(file') = n
      BY <2>3, <3>1
    <3> QED
      BY <2>2, <3>2
  <2>6. SignTypeOK'
    <3>1. version' \in 0 .. MaxEdits /\ cmd' = "idle" /\ pos' \in Nat
      BY <1>0, <1>1, <2>1
    <3>2. file' \in Seq([what : Kinds, k : Nat, v : 0 .. MaxEdits])
      BY <2>5 DEF Cells
    <3> QED
      BY <2>1, <3>1, <3>2 DEF SignTypeOK
  <2>7. WrittenUpTo(BodyLen)'
    <3>1. ASSUME NEW i \in 1 .. n, i <= BodyLen
          PROVE  file'[i] \in {Cell("body", i, 0), Edited}
      <4>1. i \in 1 .. Len(file) /\ file[i] \in {Cell("body", i, 0), Edited}
        BY <1>1, <2>3, <3>1 DEF SignInv, WrittenUpTo, IsOr
      <4> QED
        BY <2>5, <4>1
    <3> QED
      BY <1>0, <2>5, <3>1 DEF WrittenUpTo, IsOr
  <2>8. VbmetaLeft' /\ FooterLeft'
    <3>1. Len(file') \in Nat /\ \A i \in 1 .. Len(file) : file[i].k \in Nat
      <4>1. \A i \in 1 .. Len(file) : file[i] \in Cells
        BY <1>1, ElementOfSeq
      <4> QED
        BY <2>3, <2>5, <4>1 DEF Cells
    <3>2. \A i \in 1 .. Len(file') : \A j \in i .. Len(file') :
            j \in 1 .. Len(file) /\ file'[j] \in {file[j], Edited}
      BY <1>1, <2>3, <2>5
    <3>3. VbmetaLeft /\ FooterLeft
      BY DEF SignInv
    <3> QED
      BY <1>1, <3>1, <3>2, <3>3, AvbKept
  <2>9. WriterInv'
    BY <2>1 DEF WriterInv
  <2> QED
    BY <2>1, <2>6, <2>7, <2>8, <2>9 DEF SignInv
<1>6. CASE StartSign
  <2>1. /\ Opens /\ cmd' = "sig" /\ pos' = BodyLen + 1 /\ signed' = FALSE
        /\ verdict' = "none" /\ UNCHANGED <<file, version>>
    BY <1>6 DEF StartSign
  <2>2. SignTypeOK'
    <3>1. pos' \in Nat /\ pos' \in BodyLen + 1 .. Len(file') + 1
      BY <1>0, <1>1, <2>1 DEF Opens
    <3> QED
      BY <1>1, <2>1, <3>1 DEF SignTypeOK, Cells
  <2>3. pos' - 1 = BodyLen /\ pos' <= SigEnd' + 1
    BY <1>0, <2>1 DEF SigEnd
  <2>4. WrittenUpTo(BodyLen)'
    BY <1>3, <2>1
  <2>5. WriterInv'
    BY <2>1, <2>3, <2>4 DEF WriterInv, WrittenUpTo
  <2> QED
    BY <1>3, <2>1, <2>2, <2>4, <2>5 DEF SignInv
<1>7. CASE WriteSig
  <2> DEFINE c == SigCell(pos - BodyLen - 1)
  <2>1. /\ cmd = "sig" /\ pos <= SigEnd /\ file' = Put(pos, c) /\ pos' = pos + 1
        /\ UNCHANGED <<version, cmd, signed, verdict>>
    BY <1>7 DEF WriteSig, Target
  <2>2. /\ c \in Cells /\ c.what = "sig"
        /\ c = IF pos <= SigEnd THEN SigCell(pos - BodyLen - 1) ELSE Zero
    <3>1. pos - BodyLen - 1 \in Nat
      BY <1>0, <1>p, <2>1
    <3>2. \A i \in Nat : SigCell(i) \in Cells
      BY CellTypes DEF SignInv
    <3>3. \A i : SigCell(i).what = "sig"
      BY CellParts DEF SigCell
    <3> QED
      BY <2>1, <3>1, <3>2, <3>3
  <2> HIDE DEF c
  <2>3. /\ file' \in Seq(Cells) /\ pos' \in Nat /\ pos' \in BodyLen + 1 .. Len(file') + 1
        /\ WrittenUpTo(BodyLen)' /\ WrittenUpTo(pos - 1)'
        /\ VbmetaLeft' /\ FooterLeft'
    BY <2>1, <2>2, WriteForward
  <2>4. ~signed
    BY <2>1 DEF SignInv, WriterInv
  <2>5. SignTypeOK'
    BY <1>1, <2>1, <2>3 DEF SignTypeOK, Cells
  <2>6. WriterInv'
    BY <1>1, <1>2, <2>1, <2>3, <2>4 DEF WriterInv
  <2> QED
    BY <2>1, <2>3, <2>4, <2>5, <2>6 DEF SignInv
<1>8. CASE StartFill
  <2>1. /\ cmd = "sig" /\ pos = SigEnd + 1 /\ cmd' = "fill" /\ pos' = pos
        /\ UNCHANGED <<file, version, signed, verdict>>
    BY <1>8 DEF StartFill, FillStart
  <2>2. ~signed /\ WrittenUpTo(pos - 1)
    BY <2>1 DEF SignInv, WriterInv
  <2>3. SignTypeOK'
    BY <1>1, <1>p, <2>1 DEF SignTypeOK, Cells
  <2>4. WrittenUpTo(BodyLen)' /\ WrittenUpTo(pos - 1)'
    BY <1>3, <2>1, <2>2
  <2>5. WriterInv'
    BY <1>2, <2>1, <2>2, <2>4 DEF WriterInv
  <2> QED
    BY <1>3, <2>1, <2>2, <2>3, <2>4, <2>5 DEF SignInv
<1>9. CASE Fill
  <2>1. /\ cmd = "fill" /\ file' = Put(pos, Zero) /\ pos' = pos + 1
        /\ UNCHANGED <<version, cmd, signed, verdict>>
    BY <1>9 DEF Fill
  <2>2. pos > SigEnd /\ ~signed
    BY <2>1 DEF SignInv, WriterInv
  <2>3. /\ Zero \in Cells /\ Zero.what \in {"sig", "zero"}
        /\ Zero = IF pos <= SigEnd THEN SigCell(pos - BodyLen - 1) ELSE Zero
    BY <1>1, <1>2, <2>2, CellTypes, CellParts
  <2>4. /\ file' \in Seq(Cells) /\ pos' \in Nat /\ pos' \in BodyLen + 1 .. Len(file') + 1
        /\ WrittenUpTo(BodyLen)' /\ WrittenUpTo(pos - 1)'
        /\ VbmetaLeft' /\ FooterLeft'
    <3>1. cmd # "idle" /\ UNCHANGED <<version, cmd, signed>>
      BY <2>1
    <3> QED
      BY <2>1, <2>3, <3>1, WriteForward
  <2>5. SignTypeOK'
    BY <1>1, <2>1, <2>4 DEF SignTypeOK, Cells
  <2>6. WriterInv'
    BY <1>1, <1>2, <2>1, <2>2, <2>4 DEF WriterInv
  <2> QED
    BY <2>1, <2>2, <2>4, <2>5, <2>6 DEF SignInv
<1>10. CASE SignDone
  <2>1. /\ cmd = "fill" /\ pos > Len(file) /\ cmd' = "idle" /\ signed' = TRUE
        /\ UNCHANGED <<file, version, pos, verdict>>
    BY <1>10 DEF SignDone
  <2>2. pos - 1 = Len(file)
    BY <1>0, <1>1, <1>p, <2>1
  <2>3. WrittenUpTo(Len(file))
    BY <2>1, <2>2 DEF SignInv, WriterInv
  <2>4. WrittenUpTo(Len(file))'
    BY <1>3, <2>1, <2>3
  <2>5. SignTypeOK' /\ WriterInv'
    BY <1>1, <2>1 DEF SignTypeOK, WriterInv, Cells
  <2> QED
    BY <1>3, <2>1, <2>4, <2>5 DEF SignInv
<1>11. CASE SignFails
  <2>1. /\ cmd # "idle" /\ cmd' = "idle" /\ UNCHANGED <<file, version, pos, signed, verdict>>
    BY <1>11 DEF SignFails
  <2>2. ~signed
    BY <2>1 DEF SignInv, WriterInv
  <2>3. SignTypeOK' /\ WriterInv'
    BY <1>1, <2>1 DEF SignTypeOK, WriterInv, Cells
  <2> QED
    BY <1>3, <2>1, <2>2, <2>3 DEF SignInv
<1>12. CASE Verify
  <2>1. /\ cmd = "idle" /\ verdict' \in {"signed", "unsigned", "error"}
        /\ UNCHANGED <<file, version, cmd, pos, signed>>
    BY <1>12 DEF Verify
  <2>2. SignTypeOK' /\ WriterInv'
    BY <1>1, <2>1 DEF SignTypeOK, WriterInv, Cells
  <2>3. signed' => WrittenUpTo(Len(file))'
    BY <1>3, <2>1 DEF SignInv
  <2> QED
    BY <1>3, <2>1, <2>2, <2>3 DEF SignInv
<1>13. CASE UNCHANGED vars
  <2>1. UNCHANGED <<file, version, cmd, pos, signed, verdict>>
    BY <1>13 DEF vars
  <2>2. SignTypeOK'
    BY <1>1, <1>p, <2>1 DEF SignTypeOK, Cells
  <2>3. WriterInv'
    BY <1>2, <1>3, <2>1 DEF SignInv, WriterInv
  <2>4. signed' => WrittenUpTo(Len(file))'
    BY <1>3, <2>1 DEF SignInv
  <2> QED
    BY <1>3, <2>1, <2>2, <2>3, <2>4 DEF SignInv
<1> QED
  BY <1>5, <1>6, <1>7, <1>8, <1>9, <1>10, <1>11, <1>12, <1>13 DEF Next

-----------------------------------------------------------------------------
(* Wherever a run of cmd_sign ended: the types, and SignInv. *)
THEOREM SignInvariant == Spec => []SignInv
<1> QED
  BY SignInit, SignStep, PTL DEF Spec

THEOREM SignTypes == Spec => []SignTypeOK
<1>1. SignInv => SignTypeOK
  BY DEF SignInv
<1> QED
  BY <1>1, SignInvariant, PTL

(* However often cmd_sign is cut short, and wherever: as long as the reader*)
(* finds a footer and a vbmeta, nothing was written over any part of them  *)
(* but what somebody put there with an edit.                               *)
THEOREM SignAvbWhole == Spec => []AvbSeenIsWhole
<1>1. SignInv => AvbSeenIsWhole
  <2> SUFFICES ASSUME SignInv, SeesAvb
               PROVE  /\ \A k \in 0 .. AvbLen - 1 : IsOr(Last + k, Cell("footer", k, 0))
                      /\ \A i \in DOMAIN file : file[i] = Cell("vbmeta", 0, 0) =>
                           \A k \in 0 .. AvbLen - 1 :
                             i + k <= Len(file) /\ IsOr(i + k, Cell("vbmeta", k, 0))
    BY DEF AvbSeenIsWhole
  <2>1. /\ BodyLen \in Nat /\ AvbLen \in Nat \ {0}
        /\ Len(file) \in Nat /\ DOMAIN file = 1 .. Len(file)
    <3>1. file \in Seq(Cells)
      BY DEF SignInv, SignTypeOK, Cells
    <3> QED
      BY <3>1, LenProperties, LensAssumption, AvbLenAssumption
  <2>2. Last \in 1 .. Len(file) /\ Last + AvbLen - 1 = Len(file)
        /\ file[Last].what = "footer" /\ file[Last].k = 0
    BY <2>1, CellParts DEF SeesAvb, Last
  <2>3. ASSUME NEW k \in 0 .. AvbLen - 1
        PROVE  IsOr(Last + k, Cell("footer", k, 0))
    <3>1. Last + k \in Last .. Len(file) /\ file[Last].k + ((Last + k) - Last) = k
      BY <2>1, <2>2
    <3>2. IsOr(Last + k, Cell("footer", file[Last].k + ((Last + k) - Last), 0))
      BY <2>2, <3>1 DEF SignInv, FooterLeft
    <3> QED
      BY <3>1, <3>2
  <2>4. ASSUME NEW i \in DOMAIN file, file[i] = Cell("vbmeta", 0, 0),
               NEW k \in 0 .. AvbLen - 1
        PROVE  i + k <= Len(file) /\ IsOr(i + k, Cell("vbmeta", k, 0))
    <3>1. file[i].what = "vbmeta" /\ file[i].k = 0 /\ i \in 1 .. Len(file)
      BY <2>1, <2>4, CellParts
    <3>2. i + AvbLen <= Last + file[i].k
      BY <2>2, <3>1 DEF SignInv, VbmetaLeft
    <3>3. i + k \in i .. Len(file) /\ file[i].k + ((i + k) - i) = k /\ k < AvbLen
      BY <2>1, <2>2, <3>1, <3>2
    <3>4. IsOr(i + k, Cell("vbmeta", file[i].k + ((i + k) - i), 0))
      BY <3>1, <3>3 DEF SignInv, VbmetaLeft
    <3> QED
      BY <3>3, <3>4
  <2> QED
    BY <2>3, <2>4
<1> QED
  BY <1>1, SignInvariant, PTL

(* A cmd_sign that comes to its end leaves nothing behind of those that    *)
(* did not, nor of the AVB structures it replaces, and the body as it is.  *)
THEOREM SignLeavesClean == Spec => []SignedFileIsClean
<1>1. SignInv => SignedFileIsClean
  <2> SUFFICES ASSUME SignInv, signed
               PROVE  /\ \A i \in DOMAIN file :
                           IF i <= BodyLen THEN IsOr(i, Cell("body", i, 0))
                           ELSE file[i] = IF i <= SigEnd THEN SigCell(i - BodyLen - 1) ELSE Zero
                      /\ ~SeesAvb
    BY DEF SignedFileIsClean
  <2>1. /\ BodyLen \in Nat /\ AvbLen \in Nat \ {0}
        /\ Len(file) \in Nat /\ DOMAIN file = 1 .. Len(file)
    <3>1. file \in Seq(Cells)
      BY DEF SignInv, SignTypeOK, Cells
    <3> QED
      BY <3>1, LenProperties, LensAssumption, AvbLenAssumption
  <2>2. \A i \in DOMAIN file :
          IF i <= BodyLen THEN IsOr(i, Cell("body", i, 0))
          ELSE file[i] = IF i <= SigEnd THEN SigCell(i - BodyLen - 1) ELSE Zero
    BY <2>1 DEF SignInv, WrittenUpTo
  <2>3. ASSUME SeesAvb
        PROVE  FALSE
    <3>1. Last \in 1 .. Len(file) /\ file[Last].what = "footer"
      BY <2>1, <2>3, CellParts DEF SeesAvb, Last
    <3>2. /\ Cell("body", Last, 0).what = "body" /\ SigCell(Last - BodyLen - 1).what = "sig"
          /\ Zero.what = "zero" /\ Edited.what = "edit"
      BY CellParts DEF SigCell
    <3>3. file[Last] \in {Cell("body", Last, 0), Edited, SigCell(Last - BodyLen - 1), Zero}
      BY <2>1, <2>2, <3>1 DEF IsOr
    <3> QED
      BY <3>1, <3>2, <3>3
  <2> QED
    BY <2>2, <2>3
<1> QED
  BY <1>1, SignInvariant, PTL
=============================================================================
