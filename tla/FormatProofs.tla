---------------------------- MODULE FormatProofs ----------------------------
(***************************************************************************)
(* The two formats that the library writes and reads as streams.           *)
(*                                                                         *)
(* The cpio archive, for every set of names, every length of data, every   *)
(* number of archives in a file and wherever a dump stops.                 *)
(*                                                                         *)
(* The legacy LZ4 stream, for every size of a chunk, every way of feeding  *)
(* the encoder and every length a chunk may be packed to: its blocks tile  *)
(* the data, and the check of the format and the decoder walk them alike.  *)
(***************************************************************************)
EXTENDS Cpio, Lz4Blocks, FiniteSetTheorems, SequenceTheorems,
        WellFoundedInduction, NaturalsInduction, TLAPS

-----------------------------------------------------------------------------
(* The cpio archive: the inductive invariant. *)

(* Only the trailer has no type.                                           *)
RecordsGood ==
  \A j \in DOMAIN arc :
    /\ arc[j].at \in Nat /\ arc[j].at % 4 = 0 /\ arc[j].name \in Names /\ arc[j].len \in Nat
    /\ arc[j].name # Trailer => arc[j].type \in Types /\ arc[j].len \in Lens \cup {0}

(* The records lie one behind the other, and only the last may be cut.     *)
Chained ==
  /\ \A i, j \in DOMAIN arc : i < j => EndOf(arc[i]) <= arc[j].at
  /\ 1 \in DOMAIN arc => arc[1].at = 0
  /\ \A j \in DOMAIN arc : j + 1 \in DOMAIN arc => arc[j + 1].at = EndOf(arc[j])
  /\ arc = <<>> => alen = 0
  /\ arc # <<>> => arc[Len(arc)].at <= alen /\ alen <= EndOf(arc[Len(arc)])
  /\ phase = "dump" /\ arc # <<>> => alen = EndOf(arc[Len(arc)])

(* The end of a record's data, in front of their padding. *)
DataBound(r) == EndOf(r) - L!Padding(r.len, 4)

(* Of the first k records those that become an entry; the last one of a    *)
(* name counts.                                                            *)
Seen(k) == {j \in 1 .. k : arc[j].name \notin Special /\ DataBound(arc[j]) <= alen}
IsLast(S, n, j) == j \in S /\ arc[j].name = n /\ \A m \in S : arc[m].name = n => m <= j

Gathers(m, S) ==
  /\ m = [n \in DOMAIN m |-> m[n]]
  /\ DOMAIN m = {arc[j].name : j \in S}
  /\ \A n \in DOMAIN m : \E j : IsLast(S, n, j) /\ m[n] = Loaded(arc[j])

(* The loader is in front of record k + 1, or no other record is complete. *)
RestCut(k) == \A j \in DOMAIN arc : j > k => DataBound(arc[j]) > alen
InFrontOf(k) ==
  \/ k + 1 \in DOMAIN arc /\ pos = arc[k + 1].at
  \/ pos + HeaderLen > alen /\ RestCut(k)

LoadInv ==
  /\ phase = "load" =>
       \E k \in 0 .. Len(arc) : InFrontOf(k) /\ Gathers(loaded, Seen(k))
  /\ phase = "loaded" => Gathers(entries, Seen(Len(arc)))

(* What has been dumped is what the last record of its name says, unless   *)
(* it is still to be written.                                              *)
Says(n, j) == /\ IsLast(DOMAIN arc, n, j)
              /\ arc[j].type = dumped[n].type /\ arc[j].len = LenOf(dumped[n])

DumpInv ==
  /\ phase = "dump" =>
       /\ todo \subseteq DOMAIN entries /\ DOMAIN entries \subseteq DOMAIN dumped
       /\ \A n \in DOMAIN entries : dumped[n] = entries[n]
  /\ phase # "dump" => todo = {}
  /\ phase = "dump" \/ ArchiveComplete =>
       /\ \A j \in DOMAIN arc : arc[j].name \in DOMAIN dumped \cup {Trailer}
       /\ \A n \in DOMAIN dumped \ {Trailer} : n \notin todo => \E j : Says(n, j)

CpioInv == CpioTypeOK /\ RecordsGood /\ Chained /\ LoadInv /\ DumpInv

-----------------------------------------------------------------------------
(* Where a record ends.                                                    *)

LEMMA PadFacts ==
  ASSUME NEW n \in Nat
  PROVE  /\ L!Padding(n, 4) \in Nat /\ (n + L!Padding(n, 4)) % 4 = 0
         /\ \A p \in Nat : p % 4 = 0 => L!Align(p + n, 4) = p + n + L!Padding(n, 4)
  BY SMT DEF L!Padding, L!Align

LEMMA EndFacts ==
  ASSUME NEW r, r.at \in Nat, r.at % 4 = 0, r.name \in Names, r.len \in Nat
  PROVE  /\ EndOf(r) \in Nat /\ EndOf(r) % 4 = 0
         /\ DataBound(r) \in Nat /\ DataBound(r) <= EndOf(r)
         /\ DataBound(r) >= r.at + HeaderLen
         /\ pos = r.at => /\ DataEnd(r) = DataBound(r)
                          /\ L!Align(DataEnd(r), 4) = EndOf(r)
<1>0. \A x, y \in Nat : x % 4 = 0 /\ y % 4 = 0 => (x + y) % 4 = 0
  BY SMT
<1>1. NameLen[r.name] \in Nat
  BY NamesAssumption
<1>2. PICK h \in Nat : h = HeaderLen + NameLen[r.name] + 1 /\ h >= HeaderLen
  BY <1>1 DEF HeaderLen
<1>3. PICK a \in Nat : a = L!Padding(h, 4) /\ (h + a) % 4 = 0
        /\ \A p \in Nat : p % 4 = 0 => L!Align(p + h, 4) = p + h + a
  BY PadFacts
<1>4. PICK b \in Nat : b = L!Padding(r.len, 4) /\ (r.len + b) % 4 = 0
        /\ \A p \in Nat : p % 4 = 0 => L!Align(p + r.len, 4) = p + r.len + b
  BY PadFacts
<1>5. EndOf(r) = r.at + h + a + r.len + b
  BY <1>2, <1>3, <1>4 DEF EndOf
<1>6. (r.at + h + a) % 4 = 0
  <2>1. r.at + h + a = r.at + (h + a) /\ h + a \in Nat
    OBVIOUS
  <2> QED
    BY <1>0, <1>3, <2>1
<1>7. EndOf(r) \in Nat /\ EndOf(r) % 4 = 0
  <2>1. r.at + h + a \in Nat /\ r.len + b \in Nat
    OBVIOUS
  <2>2. PICK x \in Nat, y \in Nat : x = r.at + h + a /\ y = r.len + b
    BY <2>1
  <2>3. r.at + h + a + r.len + b = x + y
    BY <2>2
  <2>4. (x + y) % 4 = 0 /\ x + y \in Nat
    <3>1. x % 4 = 0
      BY <1>6, <2>2, Zenon
    <3>2. y % 4 = 0
      BY <1>4, <2>2, Zenon
    <3> QED
      BY <1>0, <3>1, <3>2
  <2>5. EndOf(r) = x + y
    BY <1>5, <2>3, Zenon
  <2> QED
    BY <2>4, <2>5, Zenon
<1>8. DataBound(r) = r.at + h + a + r.len
  BY <1>4, <1>5 DEF DataBound
<1>9. ASSUME pos = r.at
      PROVE  DataEnd(r) = DataBound(r) /\ L!Align(DataEnd(r), 4) = EndOf(r)
  <2>1. NameEnd(r) = r.at + h
    BY <1>1, <1>2, <1>9 DEF NameEnd, HeaderLen
  <2>2. L!Align(NameEnd(r), 4) = r.at + h + a
    BY <1>3, <2>1
  <2>3. DataEnd(r) = r.at + h + a + r.len
    BY <2>2 DEF DataEnd
  <2>4. r.at + h + a \in Nat
    OBVIOUS
  <2>5. L!Align(r.at + h + a + r.len, 4) = r.at + h + a + r.len + b
    BY <1>4, <1>6, <2>4
  <2> QED
    BY <1>5, <1>8, <2>3, <2>5
<1> QED
  BY <1>2, <1>5, <1>7, <1>8, <1>9 DEF HeaderLen

(* A set of numbers that is not empty has a least one. *)
LEMMA LeastNumber ==
  ASSUME NEW T, T \subseteq Nat, T # {}
  PROVE  \E x \in T : \A y \in T : x <= y
<1>1. PICK x \in T : \A y \in T : <<y, x>> \notin OpToRel(<, Nat)
  BY NatLessThanWellFounded, WFMin
<1>2. \A y \in T : ~(y < x)
  BY <1>1, Zenon DEF OpToRel
<1>3. \E z \in T : \A y \in T : ~(y < z)
  BY <1>2, Zenon
<1> HIDE <1>1
<1> QED
  BY <1>3

LEMMA NextNameFacts ==
  ASSUME todo # {}, todo \subseteq Names
  PROVE  NextName \in todo
<1> DEFINE T == {j \in DOMAIN NameOrder : NameOrder[j] \in todo}
           P(j) == /\ NameOrder[j] \in todo
                   /\ \A m \in 1 .. (j - 1) : NameOrder[m] \notin todo
<1>1. DOMAIN NameOrder = 1 .. Len(NameOrder) /\ Len(NameOrder) \in Nat
  BY NamesAssumption
<1>2. T \subseteq Nat /\ T # {}
  BY <1>1 DEF Names
<1>3. PICK x \in T : \A y \in T : x <= y
  <2> HIDE DEF T
  <2> QED
    BY <1>2, LeastNumber
<1>4. x \in DOMAIN NameOrder /\ P(x)
  <2>1. \A m \in 1 .. (x - 1) : m \in DOMAIN NameOrder /\ m < x
    BY <1>1, <1>3
  <2> QED
    BY <1>1, <1>3, <2>1
<1>5. P(CHOOSE j \in DOMAIN NameOrder : P(j))
  <2> HIDE DEF P
  <2> QED
    BY <1>4
<1> QED
  BY <1>5 DEF NextName

(* What the type invariant and the records say of one of them.             *)
LEMMA RecordFacts ==
  ASSUME CpioTypeOK, RecordsGood, Chained, NEW j \in DOMAIN arc
  PROVE  /\ DOMAIN arc = 1 .. Len(arc) /\ Len(arc) \in Nat /\ arc[j] \in Record
         /\ arc[j].at \in Nat /\ arc[j].name \in Names /\ arc[j].len \in Nat
         /\ EndOf(arc[j]) \in Nat /\ EndOf(arc[j]) % 4 = 0
         /\ DataBound(arc[j]) \in Nat /\ DataBound(arc[j]) <= EndOf(arc[j])
         /\ DataBound(arc[j]) >= arc[j].at + HeaderLen
         /\ pos = arc[j].at => /\ DataEnd(arc[j]) = DataBound(arc[j])
                               /\ L!Align(DataEnd(arc[j]), 4) = EndOf(arc[j])
<1>1. DOMAIN arc = 1 .. Len(arc) /\ Len(arc) \in Nat /\ arc[j] \in Record
  BY DEF CpioTypeOK
<1>2. /\ arc[j].at \in Nat /\ arc[j].at % 4 = 0
      /\ arc[j].name \in Names /\ arc[j].len \in Nat
  BY DEF RecordsGood
<1> HIDE DEF HeaderLen
<1> QED
  BY <1>1, <1>2, EndFacts

(* Records lie in front of what follows them, all but the last complete.   *)
LEMMA FrontFacts ==
  ASSUME CpioTypeOK, RecordsGood, Chained, NEW j \in DOMAIN arc
  PROVE  /\ arc[j].at <= alen
         /\ j < Len(arc) => EndOf(arc[j]) <= alen
         /\ \A i \in DOMAIN arc : i < j => EndOf(arc[i]) <= arc[j].at /\ arc[i].at < arc[j].at
<1>1. /\ DOMAIN arc = 1 .. Len(arc) /\ Len(arc) \in Nat /\ alen \in Nat
      /\ arc[Len(arc)].at <= alen /\ Len(arc) \in DOMAIN arc
  BY RecordFacts DEF CpioTypeOK, Chained
<1>2. ASSUME NEW i \in DOMAIN arc
      PROVE  /\ arc[i].at \in Nat /\ EndOf(arc[i]) \in Nat
             /\ arc[i].at < EndOf(arc[i])
  BY RecordFacts DEF HeaderLen
<1>3. \A i, k \in DOMAIN arc : i < k => EndOf(arc[i]) <= arc[k].at
  BY DEF Chained
<1>4. CASE j = Len(arc)
  BY <1>1, <1>2, <1>3, <1>4
<1>5. CASE j < Len(arc)
  <2>1. EndOf(arc[j]) <= arc[Len(arc)].at
    BY <1>1, <1>3, <1>5
  <2> QED
    BY <1>1, <1>2, <1>3, <1>5, <2>1
<1> QED
  BY <1>1, <1>4, <1>5

LEMMA AppendRecord ==
  ASSUME CpioTypeOK, RecordsGood, Chained, NEW r \in Record,
         r.at = alen, arc # <<>> => alen = EndOf(arc[Len(arc)]),
         r.name # Trailer => r.type \in Types /\ r.len \in Lens \cup {0},
         arc' = Append(arc, r), alen' \in alen .. EndOf(r),
         phase' = "dump" => alen' = EndOf(r)
  PROVE  RecordsGood' /\ Chained'
<1> DEFINE n == Len(arc)
<1>1. /\ n \in Nat /\ DOMAIN arc = 1 .. n /\ DOMAIN arc' = 1 .. (n + 1) /\ Len(arc') = n + 1
      /\ (\A j \in 1 .. n : arc'[j] = arc[j]) /\ arc'[n + 1] = r /\ alen \in Nat
      /\ arc' # <<>>
  BY AppendProperties DEF CpioTypeOK
<1> HIDE DEF n
<1>2. r.at \in Nat /\ r.name \in Names /\ r.len \in Nat
  BY DEF Record
<1>3. alen % 4 = 0
  <2>1. CASE arc = <<>>
    BY <2>1 DEF Chained
  <2>2. CASE arc # <<>>
    BY <1>1, <2>2, RecordFacts DEF n
  <2> QED
    BY <2>1, <2>2
<1>4. RecordsGood'
  <2>1. ASSUME NEW j \in 1 .. (n + 1)
        PROVE  /\ arc'[j].at \in Nat /\ arc'[j].at % 4 = 0
               /\ arc'[j].name \in Names /\ arc'[j].len \in Nat
               /\ arc'[j].name # Trailer =>
                    arc'[j].type \in Types /\ arc'[j].len \in Lens \cup {0}
    <3>1. CASE j = n + 1
      BY <1>1, <1>2, <1>3, <3>1
    <3>2. CASE j \in 1 .. n
      BY <1>1, <3>2 DEF RecordsGood
    <3> QED
      BY <1>1, <2>1, <3>1, <3>2
  <2> QED
    BY <1>1, <2>1 DEF RecordsGood
<1>5. EndOf(r) \in Nat
  BY <1>2, <1>3, EndFacts
<1>6. ASSUME NEW i \in 1 .. (n + 1), NEW j \in 1 .. (n + 1), i < j
      PROVE  EndOf(arc'[i]) <= arc'[j].at
  <2>1. i \in 1 .. n /\ arc'[i] = arc[i]
    BY <1>1, <1>6
  <2>2. CASE j \in 1 .. n
    BY <1>1, <1>6, <2>1, <2>2 DEF Chained
  <2>3. CASE j = n + 1
    <3>1. alen = EndOf(arc[n]) /\ n \in DOMAIN arc
      BY <1>1, <2>1 DEF n
    <3>2. EndOf(arc[i]) <= alen
      <4>1. CASE i = n
        <5>1. EndOf(arc[n]) \in Nat
          BY <3>1, RecordFacts
        <5> QED
          BY <3>1, <4>1, <5>1
      <4>2. CASE i < n
        BY <1>1, <2>1, <4>2, FrontFacts DEF n
      <4> QED
        BY <1>1, <2>1, <4>1, <4>2
    <3> QED
      BY <1>1, <2>1, <2>3, <3>2
  <2> QED
    BY <1>1, <2>2, <2>3
<1>7. arc'[1].at = 0
  <2>1. CASE n = 0
    BY <1>1, <2>1 DEF Chained, n, CpioTypeOK
  <2>2. CASE n # 0
    BY <1>1, <2>2 DEF Chained
  <2> QED
    BY <2>1, <2>2
<1>8. ASSUME NEW j \in 1 .. (n + 1), j + 1 \in 1 .. (n + 1)
      PROVE  arc'[j + 1].at = EndOf(arc'[j])
  <2>1. j \in 1 .. n /\ arc'[j] = arc[j]
    BY <1>1, <1>8
  <2>2. CASE j = n
    BY <1>1, <2>1, <2>2 DEF n
  <2>3. CASE j + 1 \in 1 .. n
    BY <1>1, <2>1, <2>3 DEF Chained
  <2> QED
    BY <1>1, <2>1, <2>2, <2>3
<1>9. /\ arc'[Len(arc')].at <= alen' /\ alen' <= EndOf(arc'[Len(arc')])
      /\ phase' = "dump" => alen' = EndOf(arc'[Len(arc')])
  BY <1>1, <1>5
<1>10. Chained'
  BY <1>1, <1>6, <1>7, <1>8, <1>9 DEF Chained
<1> QED
  BY <1>4, <1>10

-----------------------------------------------------------------------------
(* What the loader gathers. *)

(* One record more: it becomes an entry, the last of its name. *)
LEMMA GathersOne ==
  ASSUME CpioTypeOK, NEW k \in Nat, k + 1 \in DOMAIN arc, NEW m,
         Gathers(m, Seen(k)), k + 1 \in Seen(k + 1)
  PROVE  Gathers(Insert(m, arc[k + 1].name, Loaded(arc[k + 1])), Seen(k + 1))
<1> DEFINE j1 == k + 1
           r == arc[j1]
           new == Insert(m, r.name, Loaded(r))
<1>1. Seen(j1) = Seen(k) \cup {j1} /\ j1 \notin Seen(k) /\ (\A j \in Seen(k) : j < j1)
      /\ Seen(k) \subseteq Nat /\ j1 \in Nat
  BY DEF Seen
<1> HIDE DEF j1
<1>2. /\ m = [n \in DOMAIN m |-> m[n]]
      /\ DOMAIN m = {arc[j].name : j \in Seen(k)}
      /\ \A n \in DOMAIN m : \E j : IsLast(Seen(k), n, j) /\ m[n] = Loaded(arc[j])
  BY DEF Gathers
<1>3. new = [n \in DOMAIN new |-> new[n]] /\ DOMAIN new = DOMAIN m \cup {r.name}
      /\ new[r.name] = Loaded(r) /\ \A n \in DOMAIN m : n # r.name => new[n] = m[n]
  BY DEF Insert
<1> HIDE DEF new, r
<1>4. DOMAIN new = {arc[j].name : j \in Seen(j1)}
  BY <1>1, <1>2, <1>3 DEF r
<1>5. ASSUME NEW n \in DOMAIN new
      PROVE  \E j : IsLast(Seen(j1), n, j) /\ new[n] = Loaded(arc[j])
  <2>1. CASE n = r.name
    <3>1. IsLast(Seen(j1), n, j1)
      BY <1>1, <2>1 DEF IsLast, r
    <3> QED
      BY <1>3, <2>1, <3>1 DEF r
  <2>2. CASE n # r.name
    <3>1. n \in DOMAIN m /\ new[n] = m[n]
      BY <1>3, <2>2
    <3>2. PICK j : IsLast(Seen(k), n, j) /\ m[n] = Loaded(arc[j])
      BY <1>2, <3>1
    <3>3. IsLast(Seen(j1), n, j)
      BY <1>1, <2>2, <3>2 DEF IsLast, r
    <3> QED
      BY <3>1, <3>2, <3>3
  <2> QED
    BY <2>1, <2>2
<1> QED
  BY <1>3, <1>4, <1>5 DEF Gathers, new, r, j1

(* One record more that does not become one. *)
LEMMA SeenSame ==
  ASSUME NEW k \in Nat, k + 1 \notin Seen(k + 1)
  PROVE  Seen(k + 1) = Seen(k)
  BY DEF Seen

(* No other record is complete. *)
LEMMA SeenAll ==
  ASSUME CpioTypeOK, RecordsGood, Chained, NEW k \in 0 .. Len(arc), RestCut(k)
  PROVE  Seen(Len(arc)) = Seen(k)
<1>1. DOMAIN arc = 1 .. Len(arc) /\ Len(arc) \in Nat /\ alen \in Nat
  BY DEF CpioTypeOK
<1>2. \A j \in DOMAIN arc : DataBound(arc[j]) \in Nat
  BY RecordFacts
<1>3. \A j \in 1 .. Len(arc) : j > k => ~(DataBound(arc[j]) <= alen)
  BY <1>1, <1>2 DEF RestCut
<1> QED
  BY <1>1, <1>3 DEF Seen

LEMMA GathersNone ==
  ASSUME NEW k
  PROVE  k = 0 => Gathers(NoEntries, Seen(k))
<1> SUFFICES ASSUME k = 0
             PROVE  Gathers(NoEntries, Seen(k))
  OBVIOUS
<1>1. Seen(k) = {}
  BY DEF Seen
<1>2. NoEntries = [n \in DOMAIN NoEntries |-> NoEntries[n]] /\ DOMAIN NoEntries = {}
  BY DEF NoEntries
<1> QED
  BY <1>1, <1>2 DEF Gathers

-----------------------------------------------------------------------------
(* The steps of the loader. *)

(* Where the loader is while another header fits. *)
LEMMA AtRecord ==
  ASSUME CpioInv, phase = "load", pos + HeaderLen <= alen
  PROVE  \E k \in 0 .. (Len(arc) - 1) :
           /\ Gathers(loaded, Seen(k)) /\ pos = arc[k + 1].at
           /\ k + 1 \in DOMAIN arc /\ RecordsAt(pos) = {k + 1}
<1>1. /\ CpioTypeOK /\ RecordsGood /\ Chained /\ alen \in Nat /\ pos \in Nat
      /\ DOMAIN arc = 1 .. Len(arc) /\ Len(arc) \in Nat
  BY DEF CpioInv, CpioTypeOK
<1>2. PICK k \in 0 .. Len(arc) : InFrontOf(k) /\ Gathers(loaded, Seen(k))
  BY DEF CpioInv, LoadInv
<1>3. k + 1 \in DOMAIN arc /\ pos = arc[k + 1].at
  BY <1>1, <1>2 DEF InFrontOf, HeaderLen
<1>4. ASSUME NEW j \in DOMAIN arc, j # k + 1
      PROVE  arc[j].at # pos
  <2>1. arc[j].at \in Nat
    BY <1>1, RecordFacts
  <2>2. CASE j < k + 1
    BY <1>1, <1>3, <2>1, <2>2, FrontFacts
  <2>3. CASE k + 1 < j
    BY <1>1, <1>3, <2>1, <2>3, FrontFacts
  <2> QED
    BY <1>1, <1>3, <1>4, <2>2, <2>3
<1>5. RecordsAt(pos) = {k + 1}
  BY <1>3, <1>4 DEF RecordsAt
<1> QED
  BY <1>1, <1>2, <1>3, <1>5

(* The loader behind record k, at the end of that record: in front of the  *)
(* next one, or of nothing.                                                *)
LEMMA BehindRecord ==
  ASSUME CpioTypeOK, RecordsGood, Chained, NEW k \in Nat, k \in DOMAIN arc,
         UNCHANGED <<arc, alen>>, pos' = EndOf(arc[k])
  PROVE  InFrontOf(k)'
<1>1. /\ DOMAIN arc = 1 .. Len(arc) /\ Len(arc) \in Nat /\ alen \in Nat
      /\ EndOf(arc[k]) \in Nat
  BY RecordFacts DEF CpioTypeOK
<1>2. CASE k + 1 \in DOMAIN arc
  BY <1>2 DEF InFrontOf, Chained
<1>3. CASE k = Len(arc)
  <2>1. alen <= EndOf(arc[k])
    BY <1>1, <1>3 DEF Chained
  <2>2. pos' + HeaderLen > alen
    BY <1>1, <2>1 DEF HeaderLen
  <2>3. \A j \in DOMAIN arc : ~(j > k)
    BY <1>1, <1>3
  <2> QED
    BY <2>2, <2>3 DEF InFrontOf, RestCut
<1>4. k + 1 \in DOMAIN arc \/ k = Len(arc)
  <2>1. PICK n \in Nat : n = Len(arc)
    BY <1>1
  <2>2. k \in 1 .. n
    BY <1>1, <2>1
  <2>3. k + 1 \in 1 .. n \/ k = n
    BY <2>2
  <2> QED
    BY <1>1, <2>1, <2>3
<1> QED
  BY <1>2, <1>3, <1>4

(* What depends on the archive alone. *)
LEMMA GathersKept ==
  ASSUME UNCHANGED <<arc, alen>>, NEW k, NEW m
  PROVE  /\ Seen(k)' = Seen(k)
         /\ loaded' = m /\ Gathers(m, Seen(k)) => Gathers(loaded, Seen(k))'
         /\ entries' = m /\ Gathers(m, Seen(k)) => Gathers(entries, Seen(k))'
<1>1. Seen(k)' = Seen(k)
  BY DEF Seen
<1>2. \A n, j : IsLast(Seen(k), n, j)' <=> IsLast(Seen(k), n, j)
  BY <1>1 DEF IsLast
<1> QED
  BY <1>1, <1>2 DEF Gathers

LEMMA ArchiveKept ==
  ASSUME RecordsGood, Chained, UNCHANGED <<arc, alen>>, phase' # "dump"
  PROVE  RecordsGood' /\ Chained'
  BY DEF RecordsGood, Chained

LEMMA DumpKept ==
  ASSUME DumpInv, phase # "dump", phase' # "dump", UNCHANGED <<arc, alen, todo, dumped>>
  PROVE  DumpInv'
<1>1. ArchiveComplete' <=> ArchiveComplete
  BY DEF ArchiveComplete
<1>2. \A n, j : Says(n, j)' <=> Says(n, j)
  BY DEF Says, IsLast
<1> QED
  BY <1>1, <1>2 DEF DumpInv

(* An entry that is loaded from a record. *)
LEMMA LoadedType ==
  ASSUME NEW r, r.type \in Types, r.len \in Lens \cup {0}
  PROVE  Loaded(r) \in Entry
<1>1. r.len > 0 => r.len \in Lens
  BY SMT
<1> QED
  BY <1>1 DEF Loaded, Entry

LEMMA LoaderStep ==
  ASSUME CpioInv, phase = "load", phase' = "load", UNCHANGED <<entries, arc, alen, todo, dumped>>,
         pos' \in Nat, IsMap(loaded'),
         NEW k \in 0 .. Len(arc), InFrontOf(k)', NEW m, m = loaded', Gathers(m, Seen(k))
  PROVE  CpioInv'
<1>1. CpioTypeOK /\ RecordsGood /\ Chained /\ DumpInv
  BY DEF CpioInv
<1>2. CpioTypeOK'
  BY <1>1 DEF CpioTypeOK, IsMap
<1>3. RecordsGood' /\ Chained' /\ DumpInv'
  BY <1>1, ArchiveKept, DumpKept
<1>4. Gathers(loaded, Seen(k))'
  BY GathersKept
<1>5. LoadInv'
  BY <1>4 DEF LoadInv
<1> QED
  BY <1>2, <1>3, <1>5 DEF CpioInv

LEMMA StartLoadStep ==
  ASSUME CpioInv, StartLoad
  PROVE  CpioInv'
<1>1. /\ Ready /\ phase' = "load" /\ pos' = 0 /\ loaded' = NoEntries
      /\ UNCHANGED <<entries, arc, alen, todo, dumped>>
  BY DEF StartLoad
<1>2. CpioTypeOK /\ RecordsGood /\ Chained /\ DumpInv
  BY DEF CpioInv
<1>3. CpioTypeOK'
  BY <1>1, <1>2 DEF CpioTypeOK, IsMap, NoEntries
<1>4. RecordsGood' /\ Chained' /\ DumpInv'
  BY <1>1, <1>2, ArchiveKept, DumpKept DEF Ready
<1>5. Gathers(loaded, Seen(0))'
  BY <1>1, GathersNone, GathersKept
<1>6. InFrontOf(0)'
  <2>1. CASE arc = <<>>
    <3>1. DOMAIN arc = {} /\ alen = 0
      BY <1>2, <2>1 DEF Chained
    <3> QED
      BY <1>1, <3>1 DEF InFrontOf, RestCut, HeaderLen
  <2>2. CASE arc # <<>>
    <3>1. 1 \in DOMAIN arc /\ arc[1].at = 0
      BY <1>2, <2>2 DEF CpioTypeOK, Chained
    <3> QED
      BY <1>1, <3>1 DEF InFrontOf
  <2> QED
    BY <2>1, <2>2
<1>7. LoadInv'
  <2>1. 0 \in 0 .. Len(arc')
    BY <1>1, <1>2 DEF CpioTypeOK
  <2> QED
    BY <1>1, <1>5, <1>6, <2>1 DEF LoadInv
<1> QED
  BY <1>3, <1>4, <1>7 DEF CpioInv

LEMMA LoadEndStep ==
  ASSUME CpioInv, LoadEnd
  PROVE  CpioInv'
<1>1. /\ phase = "load" /\ pos + HeaderLen > alen /\ phase' = "loaded" /\ entries' = loaded
      /\ pos' = 0 /\ loaded' = NoEntries /\ UNCHANGED <<arc, alen, todo, dumped>>
  BY DEF LoadEnd
<1>2. /\ CpioTypeOK /\ RecordsGood /\ Chained /\ DumpInv
      /\ DOMAIN arc = 1 .. Len(arc) /\ Len(arc) \in Nat /\ alen \in Nat
  BY DEF CpioInv, CpioTypeOK
<1>3. CpioTypeOK'
  BY <1>1, <1>2 DEF CpioTypeOK, IsMap, NoEntries
<1>4. RecordsGood' /\ Chained' /\ DumpInv'
  BY <1>1, <1>2, ArchiveKept, DumpKept
<1>5. PICK k \in 0 .. Len(arc) : InFrontOf(k) /\ Gathers(loaded, Seen(k))
  BY <1>1 DEF CpioInv, LoadInv
<1>6. RestCut(k)
  <2>1. SUFFICES ASSUME k + 1 \in DOMAIN arc, pos = arc[k + 1].at
                 PROVE  RestCut(k)
    BY <1>5 DEF InFrontOf
  <2>2. /\ DataBound(arc[k + 1]) \in Nat /\ arc[k + 1].at \in Nat
        /\ DataBound(arc[k + 1]) >= arc[k + 1].at + HeaderLen
        /\ DataBound(arc[k + 1]) <= EndOf(arc[k + 1]) /\ EndOf(arc[k + 1]) \in Nat
    BY <1>2, <2>1, RecordFacts
  <2>3. DataBound(arc[k + 1]) > alen /\ EndOf(arc[k + 1]) > alen
    BY <1>1, <1>2, <2>1, <2>2 DEF HeaderLen
  <2>4. ~(k + 1 < Len(arc))
    BY <1>2, <2>1, <2>2, <2>3, FrontFacts
  <2>5. \A j \in DOMAIN arc : j > k => j = k + 1
    BY <1>2, <2>1, <2>4
  <2> QED
    BY <2>3, <2>5 DEF RestCut
<1>7. Seen(Len(arc)) = Seen(k)
  BY <1>2, <1>6, SeenAll
<1>8. Gathers(entries, Seen(Len(arc)))'
  <2>1. Gathers(loaded, Seen(Len(arc)))
    BY <1>5, <1>7
  <2>2. PICK n : n = Len(arc)
    OBVIOUS
  <2>3. Gathers(entries, Seen(n))'
    BY <1>1, <2>1, <2>2, GathersKept
  <2> QED
    BY <1>1, <2>2, <2>3 DEF Gathers, Seen, IsLast
<1>9. LoadInv'
  BY <1>1, <1>8 DEF LoadInv
<1> QED
  BY <1>3, <1>4, <1>9 DEF CpioInv

LEMMA LoadFailsStep ==
  ASSUME CpioInv, LoadFails
  PROVE  CpioInv'
<1>1. /\ phase = "load" /\ phase' = "error" /\ pos' = 0 /\ loaded' = NoEntries
      /\ UNCHANGED <<entries, arc, alen, todo, dumped>>
  BY DEF LoadFails
<1>2. CpioTypeOK /\ RecordsGood /\ Chained /\ DumpInv
  BY DEF CpioInv
<1>3. CpioTypeOK'
  BY <1>1, <1>2 DEF CpioTypeOK, IsMap, NoEntries
<1>4. RecordsGood' /\ Chained' /\ DumpInv'
  BY <1>1, <1>2, ArchiveKept, DumpKept
<1> QED
  BY <1>1, <1>3, <1>4 DEF CpioInv, LoadInv

LEMMA SkipDotsStep ==
  ASSUME CpioInv, SkipDots
  PROVE  CpioInv'
<1>1. /\ phase = "load" /\ phase' = "load" /\ pos + HeaderLen <= alen
      /\ UNCHANGED <<entries, arc, alen, todo, dumped, loaded>>
  BY DEF SkipDots
<1>2. /\ CpioTypeOK /\ RecordsGood /\ Chained
      /\ DOMAIN arc = 1 .. Len(arc) /\ Len(arc) \in Nat
  BY DEF CpioInv, CpioTypeOK
<1>3. PICK k \in 0 .. (Len(arc) - 1) :
        /\ Gathers(loaded, Seen(k)) /\ pos = arc[k + 1].at
        /\ k + 1 \in DOMAIN arc /\ RecordsAt(pos) = {k + 1}
  BY <1>1, AtRecord
<1>4. PICK i : i = k + 1 /\ i \in Nat /\ i \in 0 .. Len(arc) /\ i \in DOMAIN arc
  BY <1>2, <1>3
<1>5. arc[i].name \in Dots /\ pos' = L!Align(DataEnd(arc[i]), 4)
  BY <1>3, <1>4 DEF SkipDots
<1>6. pos' = EndOf(arc[i]) /\ pos' \in Nat
  BY <1>2, <1>3, <1>4, <1>5, RecordFacts
<1>7. InFrontOf(i)'
  BY <1>1, <1>2, <1>4, <1>6, BehindRecord
<1>8. Seen(i) = Seen(k)
  <2>1. i \notin Seen(i)
    BY <1>5 DEF Seen, Special
  <2>2. k \in Nat
    BY <1>2, <1>3
  <2> QED
    BY <1>4, <2>1, <2>2, SeenSame
<1>9. IsMap(loaded') /\ loaded' = loaded
  BY <1>1, <1>2 DEF CpioTypeOK
<1> QED
  BY <1>1, <1>3, <1>4, <1>6, <1>7, <1>8, <1>9, LoaderStep

LEMMA LoadEntryStep ==
  ASSUME CpioInv, LoadEntry
  PROVE  CpioInv'
<1>1. /\ phase = "load" /\ phase' = "load" /\ pos + HeaderLen <= alen
      /\ UNCHANGED <<entries, arc, alen, todo, dumped>>
  BY DEF LoadEntry
<1>2. /\ CpioTypeOK /\ RecordsGood /\ Chained
      /\ DOMAIN arc = 1 .. Len(arc) /\ Len(arc) \in Nat
  BY DEF CpioInv, CpioTypeOK
<1>3. PICK k \in 0 .. (Len(arc) - 1) :
        /\ Gathers(loaded, Seen(k)) /\ pos = arc[k + 1].at
        /\ k + 1 \in DOMAIN arc /\ RecordsAt(pos) = {k + 1}
  BY <1>1, AtRecord
<1>4. PICK i : i = k + 1 /\ i \in Nat /\ i \in 0 .. Len(arc) /\ i \in DOMAIN arc /\ k \in Nat
               /\ i \in 1 .. i
  BY <1>2, <1>3
<1>5. /\ arc[i].name \notin Special /\ DataEnd(arc[i]) <= alen
      /\ loaded' = Insert(loaded, arc[i].name, Loaded(arc[i]))
      /\ pos' = L!Align(DataEnd(arc[i]), 4)
  BY <1>3, <1>4 DEF LoadEntry, DataComplete, Special
<1>6. pos' = EndOf(arc[i]) /\ pos' \in Nat /\ DataBound(arc[i]) <= alen
  BY <1>2, <1>3, <1>4, <1>5, RecordFacts
<1>7. InFrontOf(i)'
  BY <1>1, <1>2, <1>4, <1>6, BehindRecord
<1>8. Gathers(Insert(loaded, arc[i].name, Loaded(arc[i])), Seen(i))
  <2>1. i \in Seen(i)
    BY <1>4, <1>5, <1>6 DEF Seen
  <2> QED
    BY <1>2, <1>3, <1>4, <2>1, GathersOne
<1>9. IsMap(loaded')
  <2>1. arc[i].name \in Names /\ arc[i].type \in Types /\ arc[i].len \in Lens \cup {0}
    BY <1>2, <1>4, <1>5 DEF RecordsGood, Special
  <2>2. Loaded(arc[i]) \in Entry
    BY <2>1, LoadedType
  <2>3. IsMap(loaded)
    BY <1>2 DEF CpioTypeOK
  <2> QED
    BY <1>5, <2>1, <2>2, <2>3 DEF IsMap, Insert
<1> QED
  BY <1>1, <1>4, <1>5, <1>6, <1>7, <1>8, <1>9, LoaderStep

LEMMA SkipTrailerStep ==
  ASSUME CpioInv, SkipTrailer
  PROVE  CpioInv'
<1>1. /\ phase = "load" /\ phase' = "load" /\ pos + HeaderLen <= alen
      /\ UNCHANGED <<entries, arc, alen, todo, dumped, loaded>>
  BY DEF SkipTrailer
<1>2. /\ CpioTypeOK /\ RecordsGood /\ Chained
      /\ DOMAIN arc = 1 .. Len(arc) /\ Len(arc) \in Nat /\ alen \in Nat
  BY DEF CpioInv, CpioTypeOK
<1>3. PICK k \in 0 .. (Len(arc) - 1) :
        /\ Gathers(loaded, Seen(k)) /\ pos = arc[k + 1].at
        /\ k + 1 \in DOMAIN arc /\ RecordsAt(pos) = {k + 1}
  BY <1>1, AtRecord
<1>4. PICK i : i = k + 1 /\ i \in Nat /\ i \in 0 .. Len(arc) /\ i \in DOMAIN arc /\ k \in Nat
  BY <1>2, <1>3
<1> DEFINE from == AfterTrailer(arc[i])
           found == {m \in DOMAIN arc : arc[m].at >= from /\ arc[m].at + 6 <= alen}
           magics == {arc[m].at : m \in found}
<1>5. /\ arc[i].name = Trailer
      /\ \/ pos' \in magics /\ \A p \in magics : pos' <= p
         \/ magics = {} /\ pos' = IF from > alen THEN from ELSE alen
  BY <1>3, <1>4 DEF SkipTrailer
<1>6. from = EndOf(arc[i]) /\ from \in Nat
  BY <1>2, <1>3, <1>4, RecordFacts DEF AfterTrailer
<1>7. \A m \in DOMAIN arc : arc[m].at \in Nat /\ (arc[m].at >= from => m > i)
  <2>1. ASSUME NEW m \in DOMAIN arc, ~(m > i)
        PROVE  ~(arc[m].at >= from)
    <3>1. /\ arc[i].at \in Nat /\ arc[m].at \in Nat
          /\ EndOf(arc[i]) > arc[i].at
      BY <1>2, <1>4, RecordFacts DEF HeaderLen
    <3>2. m = i \/ m < i
      BY <1>2, <1>4, <2>1
    <3>3. arc[m].at <= arc[i].at
      BY <1>2, <1>4, <3>1, <3>2, FrontFacts
    <3> QED
      BY <1>6, <3>1, <3>3
  <2> QED
    BY <1>2, <2>1, RecordFacts
<1> HIDE DEF from
<1>8. InFrontOf(i)' /\ pos' \in Nat
  <2>1. CASE magics # {}
    <3>1. pos' \in magics /\ \A p \in magics : pos' <= p
      BY <1>5, <2>1
    <3>2. PICK m \in found : pos' = arc[m].at
      BY <3>1
    <3>3. m \in DOMAIN arc /\ m > i /\ arc[m].at \in Nat /\ arc[m].at + 6 <= alen
      BY <1>7, <3>2
    <3>4. i + 1 \in DOMAIN arc
      BY <1>2, <1>4, <3>3
    <3>5. arc[i + 1].at = from /\ arc[i + 1].at <= arc[m].at
      <4>1. m = i + 1 \/ i + 1 < m
        BY <1>2, <1>4, <3>3
      <4> QED
        BY <1>2, <1>4, <1>6, <1>7, <3>3, <3>4, <4>1, FrontFacts DEF Chained
    <3>6. i + 1 \in found
      BY <1>2, <1>6, <1>7, <3>3, <3>4, <3>5
    <3>7. pos' <= arc[i + 1].at
      BY <3>1, <3>6
    <3>8. pos' = arc[i + 1].at /\ pos' \in Nat
      BY <1>7, <3>2, <3>3, <3>4, <3>5, <3>7
    <3> QED
      BY <1>1, <3>4, <3>8 DEF InFrontOf
  <2>2. CASE magics = {}
    <3>1. pos' = IF from > alen THEN from ELSE alen
      BY <1>5, <2>2
    <3>2. pos' \in Nat /\ pos' + HeaderLen > alen
      BY <1>2, <1>6, <3>1 DEF HeaderLen
    <3>3. ASSUME NEW j \in DOMAIN arc, j > i
          PROVE  DataBound(arc[j]) > alen
      <4>1. from <= arc[j].at
        BY <1>2, <1>4, <1>6, <3>3 DEF Chained
      <4>2. ~(arc[j].at + 6 <= alen)
        BY <1>7, <2>2, <4>1
      <4> QED
        BY <1>2, <4>2, RecordFacts DEF HeaderLen
    <3> QED
      BY <1>1, <3>2, <3>3 DEF InFrontOf, RestCut, DataBound
  <2> QED
    BY <2>1, <2>2
<1>9. Seen(i) = Seen(k)
  <2>1. i \notin Seen(i)
    BY <1>5 DEF Seen, Special
  <2> QED
    BY <1>4, <2>1, SeenSame
<1>10. IsMap(loaded') /\ loaded' = loaded
  BY <1>1, <1>2 DEF CpioTypeOK
<1> QED
  BY <1>1, <1>3, <1>4, <1>8, <1>9, <1>10, LoaderStep

-----------------------------------------------------------------------------
(* The steps of dump. *)

LEMMA NextRecordFacts ==
  ASSUME CpioInv, phase = "dump"
  PROVE  /\ NextRecord \in Record /\ NextRecord.at = alen
         /\ NextRecord.name # Trailer =>
              NextRecord.type \in Types /\ NextRecord.len \in Lens \cup {0}
         /\ todo = {} => NextRecord.name = Trailer
         /\ todo # {} => /\ NextName \in todo /\ NextRecord.name = NextName
                         /\ NextRecord.type = dumped[NextName].type
                         /\ NextRecord.len = LenOf(dumped[NextName])
<1>1. /\ alen \in Nat /\ IsMap(entries) /\ todo \subseteq Names
      /\ todo \subseteq DOMAIN entries /\ \A n \in DOMAIN entries : dumped[n] = entries[n]
  BY DEF CpioInv, CpioTypeOK, DumpInv
<1>2. CASE todo = {}
  <2>1. NextRecord = [at |-> alen, name |-> Trailer, type |-> NONE, len |-> 0]
    BY <1>2 DEF NextRecord
  <2> QED
    BY <1>1, <1>2, <2>1, NamesAssumption DEF Record
<1>3. CASE todo # {}
  <2>1. NextName \in todo /\ NextName \in Names
    BY <1>1, <1>3, NextNameFacts
  <2>2. PICK n : n = NextName
    OBVIOUS
  <2>3. NextRecord = [at |-> alen, name |-> n, type |-> entries[n].type, len |-> LenOf(entries[n])]
    BY <1>3, <2>2 DEF NextRecord
  <2>4. entries[n] \in Entry /\ dumped[n] = entries[n]
    BY <1>1, <2>1, <2>2 DEF IsMap
  <2>5. entries[n].type \in Types /\ LenOf(entries[n]) \in Lens \cup {0}
    BY <2>4 DEF Entry, LenOf, ContentOf
  <2>6. LenOf(entries[n]) \in Nat
    BY <2>5, NamesAssumption
  <2> QED
    BY <1>1, <1>3, <2>1, <2>2, <2>3, <2>4, <2>5, <2>6 DEF Record
<1> QED
  BY <1>2, <1>3

(* A record more is the last one of its name and leaves the others.        *)
LEMMA SaysAppended ==
  ASSUME CpioTypeOK, NEW r \in Record, arc' = Append(arc, r), UNCHANGED dumped, NEW n
  PROVE  /\ \A j : Says(n, j) /\ n # r.name => Says(n, j)'
         /\ n = r.name /\ r.type = dumped[n].type /\ r.len = LenOf(dumped[n])
              => \E j : Says(n, j)'
<1> DEFINE k == Len(arc)
<1>1. /\ k \in Nat /\ DOMAIN arc = 1 .. k /\ DOMAIN arc' = 1 .. (k + 1)
      /\ (\A j \in 1 .. k : arc'[j] = arc[j]) /\ arc'[k + 1] = r
  BY AppendProperties DEF CpioTypeOK
<1> HIDE DEF k
<1>2. ASSUME NEW j, Says(n, j), n # r.name
      PROVE  Says(n, j)'
  <2>1. j \in 1 .. k /\ j \in DOMAIN arc' /\ arc'[j] = arc[j]
    BY <1>1, <1>2 DEF Says, IsLast
  <2>2. ASSUME NEW m \in DOMAIN arc', arc'[m].name = n
        PROVE  m <= j
    <3>1. m # k + 1
      BY <1>1, <1>2, <2>2
    <3>2. m \in 1 .. k /\ arc'[m] = arc[m]
      BY <1>1, <2>2, <3>1
    <3> QED
      BY <1>1, <1>2, <2>2, <3>2 DEF Says, IsLast
  <2> QED
    BY <1>2, <2>1, <2>2 DEF Says, IsLast
<1>3. ASSUME n = r.name, r.type = dumped[n].type, r.len = LenOf(dumped[n])
      PROVE  \E j : Says(n, j)'
  <2>1. k + 1 \in DOMAIN arc'
    BY <1>1
  <2>2. \A m \in DOMAIN arc' : m <= k + 1
    BY <1>1
  <2>3. PICK i : i = k + 1
    OBVIOUS
  <2>4. Says(n, i)'
    BY <1>1, <1>3, <2>1, <2>2, <2>3 DEF Says, IsLast
  <2> QED
    BY <2>4
<1> QED
  BY <1>2, <1>3

LEMMA DumpRecordStep ==
  ASSUME CpioInv, DumpRecord
  PROVE  CpioInv'
<1>1. PICK r : r = NextRecord
  OBVIOUS
<1>2. /\ phase = "dump" /\ arc' = Append(arc, r) /\ alen' = EndOf(r)
      /\ IF todo = {} THEN phase' = "idle" /\ todo' = {}
         ELSE todo' = todo \ {NextName} /\ phase' = "dump"
      /\ UNCHANGED <<entries, dumped, pos, loaded>>
  BY <1>1 DEF DumpRecord
<1>3. CpioTypeOK /\ RecordsGood /\ Chained /\ DumpInv
  BY DEF CpioInv
<1>4. /\ r \in Record /\ r.at = alen
      /\ r.name # Trailer => r.type \in Types /\ r.len \in Lens \cup {0}
      /\ todo = {} => r.name = Trailer
      /\ todo # {} => /\ NextName \in todo /\ r.name = NextName
                      /\ r.type = dumped[NextName].type /\ r.len = LenOf(dumped[NextName])
  BY <1>1, <1>2, NextRecordFacts
<1>5. alen \in Nat /\ (arc # <<>> => alen = EndOf(arc[Len(arc)]))
  BY <1>2, <1>3 DEF CpioTypeOK, Chained
<1>6. EndOf(r) \in Nat /\ alen <= EndOf(r)
  <2>1. r.at \in Nat /\ r.name \in Names /\ r.len \in Nat
    BY <1>4 DEF Record
  <2>2. alen % 4 = 0
    <3>1. CASE arc = <<>>
      BY <1>3, <3>1 DEF Chained
    <3>2. CASE arc # <<>>
      <4>1. Len(arc) \in DOMAIN arc
        BY <1>3, <3>2 DEF CpioTypeOK
      <4> QED
        BY <1>3, <1>5, <3>2, <4>1, RecordFacts
    <3> QED
      BY <3>1, <3>2
  <2> QED
    BY <1>4, <2>1, <2>2, EndFacts DEF HeaderLen
<1>7. RecordsGood' /\ Chained'
  <2>1. alen' \in alen .. EndOf(r)
    BY <1>2, <1>5, <1>6
  <2> QED
    BY <1>2, <1>3, <1>4, <1>5, <2>1, AppendRecord
<1>8. CpioTypeOK'
  <2>1. arc' \in Seq(Record)
    BY <1>2, <1>3, <1>4 DEF CpioTypeOK
  <2> QED
    BY <1>2, <1>3, <1>6, <2>1 DEF CpioTypeOK, IsMap
<1>9. LoadInv'
  BY <1>2 DEF LoadInv
<1>10. /\ todo \subseteq DOMAIN entries /\ DOMAIN entries \subseteq DOMAIN dumped
       /\ \A n \in DOMAIN entries : dumped[n] = entries[n]
       /\ \A j \in DOMAIN arc : arc[j].name \in DOMAIN dumped \cup {Trailer}
       /\ \A n \in DOMAIN dumped \ {Trailer} : n \notin todo => \E j : Says(n, j)
  BY <1>2, <1>3 DEF DumpInv
<1>11. \A j \in DOMAIN arc' : arc'[j].name \in DOMAIN dumped \cup {Trailer}
  <2>1. r.name \in DOMAIN dumped \cup {Trailer}
    BY <1>4, <1>10
  <2>2. PICK k \in Nat : k = Len(arc) /\ DOMAIN arc = 1 .. k
    BY <1>3 DEF CpioTypeOK
  <2>3. /\ DOMAIN arc' = 1 .. (k + 1) /\ arc'[k + 1] = r
        /\ \A j \in 1 .. k : arc'[j] = arc[j]
    BY <1>2, <1>3, <1>4, <2>2, AppendProperties DEF CpioTypeOK
  <2>4. \A j \in 1 .. (k + 1) : j = k + 1 \/ j \in 1 .. k
    OBVIOUS
  <2> QED
    BY <1>10, <2>1, <2>2, <2>3, <2>4
<1>12. ASSUME NEW n \in DOMAIN dumped \ {Trailer}, n \notin todo'
       PROVE  \E j : Says(n, j)'
  <2>1. CASE n = r.name
    <3>1. todo # {} /\ n = NextName
      BY <1>4, <1>12, <2>1
    <3> QED
      BY <1>2, <1>3, <1>4, <2>1, <3>1, SaysAppended
  <2>2. CASE n # r.name
    <3>1. n \notin todo
      BY <1>2, <1>4, <1>12, <2>2
    <3>2. PICK j : Says(n, j)
      BY <1>10, <3>1
    <3> QED
      BY <1>2, <1>3, <1>4, <2>2, <3>2, SaysAppended
  <2> QED
    BY <2>1, <2>2
<1>13. DumpInv'
  BY <1>2, <1>10, <1>11, <1>12 DEF DumpInv
<1> QED
  BY <1>7, <1>8, <1>9, <1>13 DEF CpioInv

LEMMA DumpFailsStep ==
  ASSUME CpioInv, DumpFails
  PROVE  CpioInv'
<1>1. PICK r : r = NextRecord
  OBVIOUS
<1>2. /\ phase = "dump" /\ arc' = Append(arc, r) /\ alen' \in alen .. (EndOf(r) - 1)
      /\ phase' = "idle" /\ todo' = {} /\ UNCHANGED <<entries, dumped, pos, loaded>>
  BY <1>1 DEF DumpFails
<1>3. CpioTypeOK /\ RecordsGood /\ Chained
  BY DEF CpioInv
<1>4. /\ r \in Record /\ r.at = alen
      /\ r.name # Trailer => r.type \in Types /\ r.len \in Lens \cup {0}
  BY <1>1, <1>2, NextRecordFacts
<1>5. alen \in Nat /\ (arc # <<>> => alen = EndOf(arc[Len(arc)]))
  BY <1>2, <1>3 DEF CpioTypeOK, Chained
<1>6. EndOf(r) \in Nat
  <2>1. r.at \in Nat /\ r.name \in Names /\ r.len \in Nat
    BY <1>4 DEF Record
  <2>2. alen % 4 = 0
    <3>1. CASE arc = <<>>
      BY <1>3, <3>1 DEF Chained
    <3>2. CASE arc # <<>>
      <4>1. Len(arc) \in DOMAIN arc
        BY <1>3, <3>2 DEF CpioTypeOK
      <4> QED
        BY <1>3, <1>5, <3>2, <4>1, RecordFacts
    <3> QED
      BY <3>1, <3>2
  <2> QED
    BY <1>4, <2>1, <2>2, EndFacts
<1>7. alen' \in alen .. EndOf(r) /\ alen' \in Nat /\ alen' # EndOf(r)
  BY <1>2, <1>5, <1>6
<1>8. RecordsGood' /\ Chained'
  BY <1>2, <1>3, <1>4, <1>5, <1>7, AppendRecord
<1>9. CpioTypeOK'
  <2>1. arc' \in Seq(Record)
    BY <1>2, <1>3, <1>4 DEF CpioTypeOK
  <2> QED
    BY <1>2, <1>3, <1>7, <2>1 DEF CpioTypeOK, IsMap
<1>10. ~ArchiveComplete'
  <2>1. arc'[Len(arc')] = r
    BY <1>2, <1>3, <1>4, AppendProperties DEF CpioTypeOK
  <2> QED
    BY <1>7, <2>1 DEF ArchiveComplete
<1>11. LoadInv' /\ DumpInv'
  BY <1>2, <1>10 DEF LoadInv, DumpInv
<1> QED
  BY <1>8, <1>9, <1>11 DEF CpioInv

LEMMA StartDumpStep ==
  ASSUME CpioInv, NEW append \in BOOLEAN, StartDump(append)
  PROVE  CpioInv'
<1>1. /\ phase # "dump" /\ phase' = "dump" /\ todo' = DOMAIN entries
      /\ UNCHANGED <<entries, pos, loaded>>
  BY DEF StartDump, Ready
<1>2. CpioTypeOK /\ RecordsGood /\ Chained /\ DumpInv /\ IsMap(entries) /\ IsMap(dumped)
  BY DEF CpioInv, CpioTypeOK
<1>3. LoadInv'
  BY <1>1 DEF LoadInv
<1>4. CASE append
  <2>1. /\ ArchiveComplete /\ UNCHANGED <<arc, alen>>
        /\ dumped' = [n \in DOMAIN entries \cup DOMAIN dumped |->
                        IF n \in DOMAIN entries THEN entries[n] ELSE dumped[n]]
    BY <1>4 DEF StartDump, ArchiveComplete
  <2>2. IsMap(dumped')
    BY <1>2, <2>1 DEF IsMap
  <2>3. CpioTypeOK'
    BY <1>1, <1>2, <2>1, <2>2 DEF CpioTypeOK, IsMap
  <2>4. RecordsGood' /\ Chained'
    BY <1>1, <1>2, <2>1 DEF RecordsGood, Chained, ArchiveComplete
  <2>5. /\ \A j \in DOMAIN arc : arc[j].name \in DOMAIN dumped \cup {Trailer}
        /\ \A n \in DOMAIN dumped \ {Trailer} : \E j : Says(n, j)
    BY <1>1, <1>2, <2>1 DEF DumpInv
  <2>6. ASSUME NEW n \in DOMAIN dumped' \ {Trailer}, n \notin todo'
        PROVE  \E j : Says(n, j)'
    <3>1. n \in DOMAIN dumped \ {Trailer} /\ dumped'[n] = dumped[n]
      BY <1>1, <2>1, <2>6
    <3>2. PICK j : Says(n, j)
      BY <2>5, <3>1
    <3>3. Says(n, j)'
      BY <2>1, <3>1, <3>2 DEF Says, IsLast
    <3> QED
      BY <3>3
  <2>7. /\ DOMAIN entries \subseteq DOMAIN dumped' /\ DOMAIN dumped \subseteq DOMAIN dumped'
        /\ \A n \in DOMAIN entries : dumped'[n] = entries[n]
    BY <2>1
  <2>8. DumpInv'
    BY <1>1, <2>1, <2>5, <2>6, <2>7 DEF DumpInv
  <2> QED
    BY <1>3, <2>3, <2>4, <2>8 DEF CpioInv
<1>5. CASE ~append
  <2>1. arc' = <<>> /\ alen' = 0 /\ dumped' = entries /\ DOMAIN arc' = {}
    BY <1>5 DEF StartDump
  <2>2. CpioTypeOK'
    BY <1>1, <1>2, <2>1 DEF CpioTypeOK, IsMap
  <2>3. RecordsGood' /\ Chained'
    BY <2>1 DEF RecordsGood, Chained
  <2>4. DumpInv'
    BY <1>1, <2>1 DEF DumpInv
  <2> QED
    BY <1>3, <2>2, <2>3, <2>4 DEF CpioInv
<1> QED
  BY <1>4, <1>5

-----------------------------------------------------------------------------
(* The operations on the map. *)

LEMMA MapStep ==
  ASSUME CpioInv, Ready, IsMap(entries'), phase' = "idle", UNCHANGED archiveVars
  PROVE  CpioInv'
<1>1. /\ CpioTypeOK /\ RecordsGood /\ Chained /\ DumpInv /\ phase # "dump"
      /\ UNCHANGED <<arc, alen, todo, dumped, pos, loaded>>
  BY DEF CpioInv, Ready, archiveVars
<1>2. CpioTypeOK'
  BY <1>1 DEF CpioTypeOK, IsMap
<1>3. RecordsGood' /\ Chained' /\ DumpInv'
  BY <1>1, ArchiveKept, DumpKept
<1> QED
  BY <1>2, <1>3 DEF CpioInv, LoadInv

LEMMA InsertType ==
  ASSUME NEW m, IsMap(m), NEW n \in Names, NEW e \in Entry
  PROVE  IsMap(Insert(m, n, e))
  BY DEF IsMap, Insert

LEMMA WithoutType ==
  ASSUME NEW m, IsMap(m), NEW D
  PROVE  IsMap(Without(m, D))
  BY DEF IsMap, Without

LEMMA CpioBegins == CpioInit => CpioInv
<1> SUFFICES ASSUME CpioInit
             PROVE  CpioInv
  OBVIOUS
<1>1. /\ entries = NoEntries /\ dumped = NoEntries /\ loaded = NoEntries /\ phase = "idle"
      /\ arc = <<>> /\ alen = 0 /\ todo = {} /\ pos = 0 /\ DOMAIN arc = {}
  BY DEF CpioInit
<1>2. CpioTypeOK
  BY <1>1 DEF CpioTypeOK, IsMap, NoEntries
<1>3. RecordsGood /\ Chained
  BY <1>1 DEF RecordsGood, Chained
<1>4. LoadInv /\ DumpInv
  BY <1>1 DEF LoadInv, DumpInv, ArchiveComplete
<1> QED
  BY <1>2, <1>3, <1>4 DEF CpioInv

LEMMA CpioStep == CpioInv /\ [CpioNext]_cpioVars => CpioInv'
<1> SUFFICES ASSUME CpioInv, [CpioNext]_cpioVars
             PROVE  CpioInv'
  OBVIOUS
<1>0. IsMap(entries) /\ NewEntries \subseteq Entry /\ \A n \in Names : Norm(n) \in Names
  BY NamesAssumption, NormAssumption DEF CpioInv, CpioTypeOK
<1>1. ASSUME NEW p \in Names, NEW e \in NewEntries, Add(p, e)
      PROVE  CpioInv'
  <2>1. Ready /\ entries' = Insert(entries, Norm(p), e) /\ phase' = "idle" /\ UNCHANGED archiveVars
    BY <1>1 DEF Add
  <2> QED
    BY <1>0, <2>1, InsertType, MapStep
<1>2. ASSUME NEW n \in Names, NEW e \in NewEntries, InsertRaw(n, e)
      PROVE  CpioInv'
  <2>1. Ready /\ entries' = Insert(entries, n, e) /\ phase' = "idle" /\ UNCHANGED archiveVars
    BY <1>2 DEF InsertRaw
  <2> QED
    BY <1>0, <2>1, InsertType, MapStep
<1>3. ASSUME NEW p \in Names, NEW recursive \in BOOLEAN, Rm(p, recursive)
      PROVE  CpioInv'
  <2>1. /\ Ready /\ phase' = "idle" /\ UNCHANGED archiveVars
        /\ \E D : entries' = Without(entries, D)
    BY <1>3 DEF Rm
  <2> QED
    BY <1>0, <2>1, WithoutType, MapStep
<1>4. ASSUME NEW p \in Names, NEW q \in Names, Mv(p, q)
      PROVE  CpioInv'
  <2>1. /\ Ready /\ phase' = "idle" /\ UNCHANGED archiveVars /\ Norm(p) \in DOMAIN entries
        /\ entries' = Insert(Without(entries, {Norm(p)}), Norm(q), entries[Norm(p)])
    BY <1>4 DEF Mv
  <2>2. entries[Norm(p)] \in Entry
    BY <1>0, <2>1 DEF IsMap
  <2>3. IsMap(entries')
    BY <1>0, <2>1, <2>2, InsertType, WithoutType
  <2> QED
    BY <2>1, <2>3, MapStep
<1>5. ASSUME NEW append \in BOOLEAN, StartDump(append)
      PROVE  CpioInv'
  BY <1>5, StartDumpStep
<1>6. CASE DumpRecord \/ DumpFails
  BY <1>6, DumpRecordStep, DumpFailsStep
<1>7. CASE StartLoad
  BY <1>7, StartLoadStep
<1>8. CASE LoadEnd \/ LoadFails
  BY <1>8, LoadEndStep, LoadFailsStep
<1>9. CASE SkipTrailer \/ SkipDots \/ LoadEntry
  BY <1>9, SkipTrailerStep, SkipDotsStep, LoadEntryStep
<1>10. CASE UNCHANGED cpioVars
  <2>1. UNCHANGED <<entries, phase, arc, alen, todo, dumped, pos, loaded>>
    BY <1>10 DEF cpioVars
  <2>2. CpioTypeOK'
    BY <2>1 DEF CpioInv, CpioTypeOK, IsMap
  <2>3. RecordsGood' /\ Chained'
    BY <2>1 DEF CpioInv, RecordsGood, Chained
  <2>4. LoadInv'
    <3>1. ASSUME NEW k, InFrontOf(k)
          PROVE  InFrontOf(k)'
      BY <2>1, <3>1 DEF InFrontOf, RestCut
    <3>2. ASSUME NEW m, NEW k, Gathers(m, Seen(k))
          PROVE  Gathers(m, Seen(k))'
      <4>1. Seen(k)' = Seen(k)
        BY <2>1 DEF Seen
      <4> QED
        BY <2>1, <3>2, <4>1 DEF Gathers, IsLast
    <3>3. CASE phase = "load"
      <4>1. PICK k \in 0 .. Len(arc) : InFrontOf(k) /\ Gathers(loaded, Seen(k))
        BY <3>3 DEF CpioInv, LoadInv
      <4>2. PICK m : m = loaded
        OBVIOUS
      <4> QED
        BY <2>1, <3>1, <3>2, <3>3, <4>1, <4>2 DEF LoadInv
    <3>4. CASE phase = "loaded"
      <4>1. PICK m, k : m = entries /\ k = Len(arc)
        OBVIOUS
      <4> QED
        BY <2>1, <3>2, <3>4, <4>1 DEF CpioInv, LoadInv
    <3> QED
      BY <2>1, <3>3, <3>4 DEF LoadInv
  <2>5. DumpInv'
    BY <2>1 DEF CpioInv, DumpInv, Says, IsLast, ArchiveComplete
  <2> QED
    BY <2>2, <2>3, <2>4, <2>5 DEF CpioInv
<1> QED
  BY <1>1, <1>2, <1>3, <1>4, <1>5, <1>6, <1>7, <1>8, <1>9, <1>10 DEF CpioNext, LoadStep

-----------------------------------------------------------------------------
(* What has been gathered from the whole file. *)

LEMMA MergedIsGathered ==
  ASSUME CpioTypeOK, NEW m, Gathers(m, Seen(Len(arc)))
  PROVE  m = Merged(alen)
<1> DEFINE S == {j \in DOMAIN arc : /\ arc[j].name \notin Special
                                    /\ EndOf(arc[j]) - L!Padding(arc[j].len, 4) <= alen}
           P(n, j) == arc[j].name = n /\ \A i \in S : arc[i].name = n => i <= j
           Latest(n) == CHOOSE j \in S : P(n, j)
<1>1. Seen(Len(arc)) = S /\ S \subseteq Nat
  BY DEF CpioTypeOK, Seen, DataBound
<1>2. Merged(alen) = [n \in {arc[j].name : j \in S} |-> Loaded(arc[Latest(n)])]
  BY DEF Merged
<1>3. /\ m = [n \in DOMAIN m |-> m[n]] /\ DOMAIN m = {arc[j].name : j \in S}
      /\ \A n \in DOMAIN m : \E j : IsLast(S, n, j) /\ m[n] = Loaded(arc[j])
  BY <1>1 DEF Gathers
<1>4. ASSUME NEW n \in DOMAIN m
      PROVE  m[n] = Loaded(arc[Latest(n)])
  <2>1. PICK j : IsLast(S, n, j) /\ m[n] = Loaded(arc[j])
    BY <1>3
  <2>2. j \in S /\ P(n, j)
    BY <2>1 DEF IsLast
  <2>3. \A i \in S : P(n, i) => i = j
    BY <1>1, <2>2
  <2>4. Latest(n) = j
    <3> HIDE DEF P, S
    <3> QED
      BY <2>2, <2>3
  <2> QED
    BY <2>1, <2>4
<1> HIDE DEF Latest, S
<1> QED
  BY <1>2, <1>3, <1>4

(* Nothing of a complete archive is left out but the special names.        *)
LEMMA SeenComplete ==
  ASSUME CpioTypeOK, RecordsGood, Chained, ArchiveComplete
  PROVE  Seen(Len(arc)) = {j \in DOMAIN arc : arc[j].name \notin Special}
<1>1. ASSUME NEW j \in DOMAIN arc
      PROVE  DataBound(arc[j]) <= alen
  <2>1. /\ DOMAIN arc = 1 .. Len(arc) /\ Len(arc) \in Nat /\ alen \in Nat
        /\ EndOf(arc[j]) \in Nat /\ DataBound(arc[j]) \in Nat
        /\ DataBound(arc[j]) <= EndOf(arc[j])
    BY RecordFacts DEF CpioTypeOK
  <2>2. j < Len(arc) => EndOf(arc[j]) <= alen
    BY FrontFacts
  <2>3. j = Len(arc) => EndOf(arc[j]) = alen
    BY DEF ArchiveComplete
  <2> QED
    BY <2>1, <2>2, <2>3
<1>2. DOMAIN arc = 1 .. Len(arc)
  BY DEF CpioTypeOK
<1> QED
  BY <1>1, <1>2 DEF Seen

(* A record carries the content of the entry it was written from.          *)
LEMMA ContentCarried ==
  ASSUME NEW e \in Entry, NEW r, r.len = LenOf(e), r.type = e.type
  PROVE  Loaded(r).type = e.type /\ ContentOf(Loaded(r)) = ContentOf(e)
<1>1. PICK c : c = ContentOf(e)
  OBVIOUS
<1>2. c \in Lens \cup {NONE} /\ Lens \subseteq Nat \ {0} /\ NONE \notin Lens
  BY <1>1, NamesAssumption DEF ContentOf, Entry
<1>3. (IF r.len > 0 THEN r.len ELSE NONE) = c
  <2>1. r.len = IF c = NONE THEN 0 ELSE c
    BY <1>1 DEF LenOf
  <2>2. CASE c = NONE
    BY <2>1, <2>2
  <2>3. CASE c # NONE
    BY <1>2, <2>1, <2>3
  <2> QED
    BY <2>2, <2>3
<1>4. ContentOf(Loaded(r)) = c /\ Loaded(r).type = r.type
  BY <1>3 DEF ContentOf, Loaded
<1> QED
  BY <1>1, <1>4

LEMMA LoadKeeps ==
  ASSUME CpioInv
  PROVE  DumpLoadKeeps
<1> SUFFICES ASSUME phase = "loaded", ArchiveComplete
             PROVE  /\ DOMAIN entries = DOMAIN dumped \ Special
                    /\ \A n \in DOMAIN entries :
                         /\ entries[n].type = dumped[n].type
                         /\ ContentOf(entries[n]) = ContentOf(dumped[n])
  BY DEF DumpLoadKeeps
<1> DEFINE S == {j \in DOMAIN arc : arc[j].name \notin Special}
<1>1. CpioTypeOK /\ RecordsGood /\ Chained /\ IsMap(dumped) /\ S \subseteq Nat
  BY DEF CpioInv, CpioTypeOK
<1>2. Seen(Len(arc)) = S
  BY <1>1, SeenComplete
<1>3. /\ DOMAIN entries = {arc[j].name : j \in S}
      /\ \A n \in DOMAIN entries : \E j : IsLast(S, n, j) /\ entries[n] = Loaded(arc[j])
  BY <1>2 DEF CpioInv, LoadInv, Gathers
<1>4. /\ \A j \in DOMAIN arc : arc[j].name \in DOMAIN dumped \cup {Trailer}
      /\ \A n \in DOMAIN dumped \ {Trailer} : \E j : Says(n, j)
  BY DEF CpioInv, DumpInv
<1>5. DOMAIN entries \subseteq DOMAIN dumped \ Special
  BY <1>3, <1>4 DEF Special
<1>6. ASSUME NEW n \in DOMAIN dumped \ Special
      PROVE  \E j \in S : /\ IsLast(S, n, j)
                          /\ arc[j].type = dumped[n].type /\ arc[j].len = LenOf(dumped[n])
  <2>1. PICK j : Says(n, j)
    BY <1>4 DEF Special
  <2> QED
    BY <2>1 DEF Says, IsLast
<1>7. DOMAIN dumped \ Special \subseteq DOMAIN entries
  BY <1>3, <1>6 DEF IsLast
<1>8. ASSUME NEW n \in DOMAIN entries
      PROVE  /\ entries[n].type = dumped[n].type
             /\ ContentOf(entries[n]) = ContentOf(dumped[n])
  <2>1. PICK i \in S : /\ IsLast(S, n, i)
                       /\ arc[i].type = dumped[n].type /\ arc[i].len = LenOf(dumped[n])
    BY <1>5, <1>6
  <2>2. PICK j : IsLast(S, n, j) /\ entries[n] = Loaded(arc[j])
    BY <1>3
  <2>3. i <= j /\ j <= i /\ i \in Nat /\ j \in Nat
    BY <1>1, <2>1, <2>2 DEF IsLast
  <2>4. i = j
    BY <2>3
  <2>5. dumped[n] \in Entry
    BY <1>1, <1>5 DEF IsMap
  <2> QED
    BY <2>1, <2>2, <2>4, <2>5, ContentCarried
<1> QED
  BY <1>5, <1>7, <1>8

-----------------------------------------------------------------------------
(* The theorems. *)

(* The records of the file lie one behind the other and only the last may  *)
(* be cut, the loader has gathered what the records behind it say, and the *)
(* last record of each dumped name says what was dumped under it.          *)
THEOREM CpioAlways == CpioSpec => []CpioInv
<1>1. CpioInit => CpioInv
  BY CpioBegins
<1>2. CpioInv /\ [CpioNext]_cpioVars => CpioInv'
  BY CpioStep
<1> QED
  BY <1>1, <1>2, PTL DEF CpioSpec

(* The map, the archive and the load that runs keep their types: every     *)
(* name and length that comes out of a file is one that went into it.      *)
THEOREM CpioTypes == CpioSpec => []CpioTypeOK
<1>1. CpioInv => CpioTypeOK
  BY DEF CpioInv
<1> QED
  BY <1>1, CpioAlways, PTL

(* load_from_data returns what the records in the file say, for any number *)
(* of archives one behind the other and wherever the last write stopped.   *)
THEOREM CpioLoadedIsArchive == CpioSpec => []LoadedIsArchive
<1>1. CpioInv => LoadedIsArchive
  BY MergedIsGathered DEF CpioInv, LoadInv, LoadedIsArchive
<1> QED
  BY <1>1, CpioAlways, PTL

(* dump and then load_from_data keep every entry with its type and content,*)
(* whatever the names and however many dumps went into one file.           *)
THEOREM CpioDumpLoadKeeps == CpioSpec => []DumpLoadKeeps
<1>1. CpioInv => DumpLoadKeeps
  BY LoadKeeps
<1> QED
  BY <1>1, CpioAlways, PTL

(* After a recursive rm nothing is listed at or below the path, for every  *)
(* spelling of it: the prefix tests of rm and ls agree.                    *)
THEOREM CpioRmClears == CpioSpec => RmClears
<1>1. ASSUME NEW p \in Names, Norm(p) # Root, Rm(p, TRUE)
      PROVE  Listed(p)' = {} /\ ~Exists(p)'
  <2>1. DOMAIN entries' = DOMAIN entries \ Doomed(Norm(p))
    BY <1>1 DEF Rm, Without
  <2>2. \A n \in DOMAIN entries' : n # Norm(p) /\ ~StartsWith(n, Slashed(Norm(p)))
    BY <2>1 DEF Doomed
  <2>3. Listed(p)' = {n \in DOMAIN entries' : StartsWith(n, Slashed(Norm(p)))}
    BY <1>1 DEF Listed
  <2> QED
    BY <2>2, <2>3 DEF Exists
<1>2. [CpioNext]_cpioVars =>
        [\A p \in Names : Norm(p) # Root /\ Rm(p, TRUE) =>
           Listed(p)' = {} /\ ~Exists(p)']_cpioVars
  BY <1>1
<1> QED
  BY <1>2, PTL DEF CpioSpec, RmClears

-----------------------------------------------------------------------------
(* The LZ4 stream: the inductive invariants. *)

(* Where the stream is behind its first m blocks. *)
Behind(m) == IF m = 0 THEN 4 ELSE End(blocks[m])

(* The blocks do not overlap, and nothing of them is empty. *)
BlocksInStream ==
  LET n == Len(blocks) IN
  /\ \A k \in 1 .. n : blocks[k].at >= 4 /\ blocks[k].len > 0 /\ blocks[k].packed > 0
  /\ \A j, k \in 1 .. n : j < k => End(blocks[j]) <= blocks[k].at
  /\ IF started \/ epc = "closed" THEN slen = Behind(n) ELSE slen = 0

ChunkerInv ==
  /\ ~started => total = 0 /\ buf = 0 /\ Len(blocks) = 0 /\ epc \in {"open", "closed"}
  /\ epc = "open" => buf < ChunkSize
  /\ epc = "flushing" => buf >= ChunkSize

EncoderInv == Lz4TypeOK /\ BlocksTile /\ BlocksInStream /\ ChunkerInv

(* Where the walks over the blocks can be: behind some of them; and behind *)
(* the trailer only if that says that there are no data.                   *)
OnBlocks(o) ==
  \/ \E m \in 0 .. Len(blocks) : o = Behind(m)
  \/ total = 0 /\ o = slen + 4

(* Where they go from there, if the file is long enough. *)
Beyond(m) == IF m = Len(blocks) THEN slen + 4 + total ELSE Behind(m + 1)

FileInv ==
  cpc # "idle" =>
    /\ epc \in {"closed", "failed"}
    /\ flen >= 4 /\ flen <= slen + (IF trailer THEN 4 ELSE 0)
    /\ trailer => epc = "closed"

(* The check stops where the decoder does.                                 *)
CheckInv ==
  /\ OnBlocks(coff)
  /\ cpc \in {"idle", "run"} => dpc = "idle"
  /\ cpc = "idle" => coff = 4
  /\ cpc # "idle" => coff <= flen
  /\ cpc = "LZ4_LEGACY" => flen >= 8 /\ ~SizeInFile(coff)
  /\ cpc = "LZ4_LG" => \/ flen < 8 /\ coff = 4
                       \/ /\ flen >= 8 /\ SizeInFile(coff)
                          /\ \E m \in 0 .. Len(blocks) : coff = Behind(m) /\ Beyond(m) > flen

(* The decoder has the blocks in front of it, and is never in front of the *)
(* check.                                                                  *)
DecoderInv ==
  LET m == Len(decoded) IN
  /\ dpc = "idle" => doff = 4 /\ m = 0
  /\ m <= Len(blocks) /\ \A k \in 1 .. m : decoded[k] = blocks[k]
  /\ doff = Behind(m) \/ (total = 0 /\ doff = slen + 4)
  /\ doff <= coff

(* What a decoder that has come to its end has decompressed: all blocks    *)
(* that are complete in the file, in their order, and no other.            *)
DecodesComplete ==
  dpc \in {"done", "cut"} =>
    /\ Len(decoded) <= Len(blocks)
    /\ \A k \in 1 .. Len(decoded) : decoded[k] = blocks[k] /\ End(blocks[k]) <= flen
    /\ \A k \in Len(decoded) + 1 .. Len(blocks) : End(blocks[k]) > flen

ReaderInv == FileInv /\ CheckInv /\ DecoderInv /\ VariantTold /\ DecodesComplete

Lz4Inv == EncoderInv /\ ReaderInv

-----------------------------------------------------------------------------
(* The encoder. *)

LEMMA BlockTypes ==
  ASSUME Lz4TypeOK
  PROVE  /\ Len(blocks) \in Nat
         /\ \A k \in 1 .. Len(blocks) :
              /\ blocks[k] \in Block
              /\ blocks[k].at \in Nat /\ blocks[k].from \in Nat
              /\ blocks[k].len \in Nat /\ blocks[k].packed \in Nat
              /\ End(blocks[k]) = blocks[k].at + 4 + blocks[k].packed
              /\ End(blocks[k]) \in Nat
<1>1. blocks \in Seq(Block)
  BY DEF Lz4TypeOK
<1>2. Len(blocks) \in Nat /\ \A k \in 1 .. Len(blocks) : blocks[k] \in Block
  BY <1>1, LenProperties, ElementOfSeq
<1>3. ASSUME NEW b \in Block
      PROVE  /\ b.at \in Nat /\ b.from \in Nat /\ b.len \in Nat /\ b.packed \in Nat
             /\ End(b) = b.at + 4 + b.packed /\ End(b) \in Nat
  BY DEF Block, End
<1> QED
  BY <1>2, <1>3

(* As long as the encoder is open, its blocks are full. *)
LEMMA FullBlocks ==
  ASSUME EncoderInv, epc # "closed"
  PROVE  total - buf = Len(blocks) * ChunkSize
<1> DEFINE n == Len(blocks)
<1>1. n \in Nat /\ ChunkSize \in Nat
  BY BlockTypes, ChunkAssumption DEF EncoderInv
<1>2. CASE n = 0
  BY <1>1, <1>2 DEF EncoderInv, BlocksTile
<1>3. CASE n > 0
  <2>1. n \in 1 .. n
    BY <1>1, <1>3
  <2>2. blocks[n].from = (n - 1) * ChunkSize /\ blocks[n].len = ChunkSize
    BY <2>1 DEF EncoderInv, BlocksTile
  <2>3. total - buf = blocks[n].from + blocks[n].len
    BY <1>1, <1>3 DEF EncoderInv, BlocksTile
  <2> HIDE DEF n
  <2>4. (n - 1) * ChunkSize + ChunkSize = n * ChunkSize
    BY <1>1, SMT
  <2> QED
    BY <2>2, <2>3, <2>4 DEF n
<1> QED
  BY <1>1, <1>2, <1>3

(* A chunk becomes a block behind the others. *)
LEMMA EmitFacts ==
  ASSUME EncoderInv, started, epc # "closed", NEW c \in Nat \ {0}, c <= buf,
         NEW p \in BlockLens, Emit(c, p), UNCHANGED <<total, started>>
  PROVE  LET n == Len(blocks) IN
         /\ blocks' \in Seq(Block) /\ Len(blocks') = n + 1
         /\ slen' \in Nat /\ buf' \in 0 .. total /\ buf' = buf - c
         /\ BlocksInStream'
         /\ \A k \in 1 .. n + 1 :
              /\ blocks'[k].at = IF k = 1 THEN 4 ELSE End(blocks'[k - 1])
              /\ blocks'[k].from = (k - 1) * ChunkSize
              /\ k < n + 1 => blocks'[k].len = ChunkSize
         /\ blocks'[n + 1].len = c
         /\ total - buf' = blocks'[n + 1].from + blocks'[n + 1].len
<1> DEFINE n == Len(blocks)
           b == [at |-> slen, from |-> total - buf, len |-> c, packed |-> p]
<1>1. /\ slen \in Nat /\ total \in Nat /\ buf \in 0 .. total /\ blocks \in Seq(Block)
      /\ p \in Nat \ {0} /\ ChunkSize \in Nat \ {0}
  BY BlockLensAssumption, ChunkAssumption, MaxTotalAssumption DEF EncoderInv, Lz4TypeOK
<1>2. blocks' = Append(blocks, b) /\ slen' = slen + 4 + p /\ buf' = buf - c
  BY DEF Emit, Rest
<1>3. total - buf = n * ChunkSize /\ total - buf \in Nat
  BY <1>1, FullBlocks
<1>4. b \in Block /\ b.at = slen /\ b.from = total - buf /\ b.len = c /\ b.packed = p
  BY <1>1, <1>3 DEF Block
<1> HIDE DEF b
<1>5. /\ blocks' \in Seq(Block) /\ Len(blocks') = n + 1
      /\ \A k \in 1 .. n : blocks'[k] = blocks[k]
      /\ blocks'[n + 1] = b
  BY <1>1, <1>2, <1>4, AppendProperties
<1>6. n \in Nat /\ \A k \in 1 .. n : End(blocks[k]) \in Nat
  BY BlockTypes DEF EncoderInv
<1>7. slen = Behind(n)
  BY DEF EncoderInv, BlocksInStream
<1>8. End(b) = slen + 4 + p
  BY <1>4 DEF End
<1>9. \A k \in 1 .. n : End(blocks[k]) <= slen /\ slen >= 4
  <2> SUFFICES ASSUME NEW k \in 1 .. n
               PROVE  End(blocks[k]) <= slen /\ slen >= 4
    OBVIOUS
  <2>0. n \in 1 .. n /\ n # 0
    <3> HIDE DEF n
    <3> QED
      BY <1>6
  <2>1. n \in 1 .. n /\ n # 0 /\ slen = End(blocks[n])
    BY <1>7, <2>0 DEF Behind
  <2>2. blocks[n].at >= 4 /\ End(blocks[n]) >= blocks[n].at /\ blocks[n].at \in Nat
    <3>1. blocks[n].at >= 4
      BY <2>0 DEF EncoderInv, BlocksInStream
    <3>2. /\ End(blocks[n]) = blocks[n].at + 4 + blocks[n].packed
          /\ blocks[n].at \in Nat /\ blocks[n].packed \in Nat
      BY <2>0, BlockTypes DEF EncoderInv
    <3> QED
      BY <3>1, <3>2
  <2>3. CASE k = n
    BY <1>1, <2>1, <2>2, <2>3
  <2>4. CASE k # n
    <3>1. k < n
      BY <1>6, <2>4
    <3>2. End(blocks[k]) <= blocks[n].at
      BY <2>1, <3>1 DEF EncoderInv, BlocksInStream
    <3> QED
      BY <1>1, <1>6, <2>1, <2>2, <3>2
  <2> QED
    BY <2>3, <2>4
<1>10. slen >= 4
  BY <1>1, <1>6, <1>7, <1>9 DEF Behind
<1>11. \A k \in 1 .. n + 1 : (k \in 1 .. n /\ blocks'[k] = blocks[k]) \/ (k = n + 1 /\ blocks'[k] = b)
  BY <1>5, <1>6
<1>12. BlocksInStream'
  <2>1. \A k \in 1 .. n + 1 : blocks'[k].at >= 4 /\ blocks'[k].len > 0 /\ blocks'[k].packed > 0
    <3>1. b.at >= 4 /\ b.len > 0 /\ b.packed > 0
      BY <1>1, <1>4, <1>10
    <3>2. \A k \in 1 .. n : blocks[k].at >= 4 /\ blocks[k].len > 0 /\ blocks[k].packed > 0
      BY DEF EncoderInv, BlocksInStream
    <3> QED
      BY <1>11, <3>1, <3>2
  <2>2. ASSUME NEW j \in 1 .. n + 1, NEW k \in 1 .. n + 1, j < k
        PROVE  End(blocks'[j]) <= blocks'[k].at
    <3>1. j \in 1 .. n /\ blocks'[j] = blocks[j]
      BY <1>5, <1>6, <2>2
    <3>2. CASE k \in 1 .. n
      BY <1>5, <2>2, <3>1, <3>2 DEF EncoderInv, BlocksInStream
    <3>3. CASE k = n + 1
      BY <1>4, <1>5, <1>9, <3>1, <3>3
    <3> QED
      BY <1>11, <3>2, <3>3
  <2>3. slen' = Behind(Len(blocks))'
    <3>1. Behind(Len(blocks))' = End(blocks'[n + 1])
      BY <1>5, <1>6 DEF Behind
    <3> QED
      BY <1>2, <1>5, <1>8, <3>1
  <2> QED
    BY <1>5, <2>1, <2>2, <2>3 DEF BlocksInStream
<1>13. ASSUME NEW k \in 1 .. n + 1
       PROVE  /\ blocks'[k].at = IF k = 1 THEN 4 ELSE End(blocks'[k - 1])
              /\ blocks'[k].from = (k - 1) * ChunkSize
              /\ k < n + 1 => blocks'[k].len = ChunkSize
  <2>1. CASE k \in 1 .. n
    <3>1. k # 1 => blocks'[k - 1] = blocks[k - 1]
      BY <1>5, <1>6, <2>1
    <3>2. /\ blocks[k].at = IF k = 1 THEN 4 ELSE End(blocks[k - 1])
          /\ blocks[k].from = (k - 1) * ChunkSize
          /\ blocks[k].len = ChunkSize
      BY <2>1 DEF EncoderInv, BlocksTile
    <3>3. blocks'[k] = blocks[k]
      BY <1>5, <2>1
    <3> QED
      BY <3>1, <3>2, <3>3
  <2>2. CASE k = n + 1
    <3>1. blocks'[k] = b /\ k - 1 = n /\ ~(k < n + 1)
      BY <1>5, <1>6, <2>2
    <3>2. b.from = (k - 1) * ChunkSize
      BY <1>3, <1>4, <3>1
    <3>3. n = 0 => k = 1 /\ slen = 4
      BY <1>7, <2>2 DEF Behind
    <3>4. n # 0 => k # 1 /\ blocks'[k - 1] = blocks[n] /\ slen = End(blocks[n])
      BY <1>5, <1>6, <1>7, <3>1 DEF Behind
    <3> QED
      BY <1>4, <3>1, <3>2, <3>3, <3>4
  <2> QED
    BY <1>11, <2>1, <2>2
<1>14. /\ buf' \in 0 .. total /\ slen' \in Nat
       /\ total - buf' = blocks'[n + 1].from + blocks'[n + 1].len
  <2>1. blocks'[n + 1].from = total - buf /\ blocks'[n + 1].len = c
    BY <1>4, <1>5
  <2>2. buf' = buf - c /\ slen' = slen + 4 + p /\ buf \in Nat /\ buf <= total
    BY <1>1, <1>2
  <2>3. buf' \in 0 .. total /\ slen' \in Nat
    BY <1>1, <2>2
  <2>4. total - buf' = (total - buf) + c
    BY <1>1, <2>2
  <2> QED
    BY <2>1, <2>3, <2>4
<1> QED
  BY <1>2, <1>4, <1>5, <1>12, <1>13, <1>14

LEMMA EncoderInit == Init => EncoderInv
<1> SUFFICES ASSUME Init
             PROVE  EncoderInv
  OBVIOUS
<1>1. /\ epc = "open" /\ total = 0 /\ buf = 0 /\ started = FALSE /\ slen = 0
      /\ flen = 0 /\ trailer = FALSE /\ dpc = "idle" /\ doff = 4
      /\ cpc = "idle" /\ coff = 4
  BY DEF Init
<1>2. blocks \in Seq(Block) /\ Len(blocks) = 0 /\ decoded \in Seq(Block)
  BY DEF Init
<1>3. Lz4TypeOK
  <2>0. started \in BOOLEAN /\ trailer \in BOOLEAN
    BY <1>1
  <2>1. total \in 0 .. MaxTotal /\ buf \in 0 .. total
    BY <1>1, MaxTotalAssumption
  <2>2. slen \in Nat /\ flen \in Nat /\ doff \in Nat /\ coff \in Nat
    BY <1>1
  <2> QED
    BY <1>1, <1>2, <2>0, <2>1, <2>2 DEF Lz4TypeOK
<1>4. ChunkerInv
  BY <1>1, <1>2, ChunkAssumption DEF ChunkerInv
<1>5. BlocksTile /\ BlocksInStream
  <2>1. 1 .. Len(blocks) = {} /\ total - buf = 0
    BY <1>1, <1>2
  <2> QED
    BY <1>1, <1>2, <2>1 DEF BlocksTile, BlocksInStream
<1> QED
  BY <1>3, <1>4, <1>5 DEF EncoderInv

(* What the encoder keeps when it adds no block. *)
LEMMA SameBlocks ==
  ASSUME EncoderInv, UNCHANGED blocks, Lz4TypeOK',
         total' - buf' = total - buf, epc' = "closed" => buf' = 0,
         epc = "closed" => epc' = "closed",
         IF started' \/ epc' = "closed" THEN slen' = Behind(Len(blocks)) ELSE slen' = 0
  PROVE  BlocksTile' /\ BlocksInStream'
<1>1. Behind(Len(blocks))' = Behind(Len(blocks)) /\ Len(blocks') = Len(blocks)
  BY DEF Behind
<1>2. BlocksTile'
  BY DEF EncoderInv, BlocksTile
<1>3. BlocksInStream'
  BY <1>1 DEF EncoderInv, BlocksInStream
<1> QED
  BY <1>2, <1>3

LEMMA EncoderStep ==
  ASSUME EncoderInv, \/ \E n \in Pieces : Feed(n)
                     \/ FlushChunk \/ Finish \/ EncodeFails
  PROVE  EncoderInv'
<1>1. /\ epc \in {"open", "flushing", "closed", "failed"} /\ total \in 0 .. MaxTotal
      /\ buf \in 0 .. total /\ started \in BOOLEAN /\ blocks \in Seq(Block)
      /\ slen \in Nat /\ flen \in Nat /\ trailer \in BOOLEAN
      /\ dpc \in {"idle", "run", "done", "cut"} /\ doff \in Nat /\ decoded \in Seq(Block)
      /\ cpc \in {"idle", "run", "LZ4_LEGACY", "LZ4_LG"} /\ coff \in Nat
  BY DEF EncoderInv, Lz4TypeOK
<1>2. MaxTotal \in Nat /\ ChunkSize \in Nat \ {0}
  BY MaxTotalAssumption, ChunkAssumption
<1>3. /\ epc = "open" /\ ~started => Began = 4 /\ Behind(Len(blocks)) = 4
      /\ started => Began = slen /\ slen = Behind(Len(blocks))
  BY DEF EncoderInv, ChunkerInv, BlocksInStream, Began, Behind
<1>4. Began \in Nat
  BY <1>1 DEF Began
<1>5. ASSUME NEW n \in Pieces, Feed(n)
      PROVE  EncoderInv'
  <2>1. n \in Nat
    BY PiecesAssumption
  <2>2. /\ epc = "open" /\ total + n <= MaxTotal /\ started' = TRUE /\ slen' = Began
        /\ total' = total + n /\ buf' = buf + n
        /\ epc' = IF buf' >= ChunkSize THEN "flushing" ELSE "open"
        /\ UNCHANGED <<blocks, flen, trailer, dpc, doff, decoded, cpc, coff>>
    BY <1>5 DEF Feed, fileVars, decoderVars, checkVars
  <2>3. /\ total' \in 0 .. MaxTotal /\ buf' \in 0 .. total' /\ total' - buf' = total - buf
        /\ buf' \in Nat
    BY <1>1, <1>2, <2>1, <2>2
  <2>4. Lz4TypeOK'
    BY <1>1, <1>4, <2>2, <2>3 DEF Lz4TypeOK
  <2>5. slen' = Behind(Len(blocks))
    BY <1>1, <1>3, <2>2
  <2>6. BlocksTile' /\ BlocksInStream'
    BY <2>2, <2>3, <2>4, <2>5, SameBlocks
  <2>7. ChunkerInv'
    BY <1>2, <2>2, <2>3 DEF ChunkerInv
  <2> QED
    BY <2>4, <2>6, <2>7 DEF EncoderInv
<1>6. CASE FlushChunk
  <2>1. PICK p \in BlockLens : Emit(ChunkSize, p)
    BY <1>6 DEF FlushChunk
  <2>2. /\ epc = "flushing" /\ epc' = IF buf' >= ChunkSize THEN "flushing" ELSE "open"
        /\ UNCHANGED <<total, started, flen, trailer, dpc, doff, decoded, cpc, coff>>
    BY <1>6 DEF FlushChunk, fileVars, decoderVars, checkVars
  <2>3. started /\ ChunkSize <= buf
    BY <1>1, <1>2, <2>2 DEF EncoderInv, ChunkerInv
  <2> DEFINE n == Len(blocks)
  <2>4. /\ blocks' \in Seq(Block) /\ Len(blocks') = n + 1
        /\ slen' \in Nat /\ buf' \in 0 .. total /\ BlocksInStream'
        /\ \A k \in 1 .. n + 1 :
             /\ blocks'[k].at = IF k = 1 THEN 4 ELSE End(blocks'[k - 1])
             /\ blocks'[k].from = (k - 1) * ChunkSize
             /\ k < n + 1 => blocks'[k].len = ChunkSize
        /\ blocks'[n + 1].len = ChunkSize
        /\ total - buf' = blocks'[n + 1].from + blocks'[n + 1].len
    BY <1>2, <2>1, <2>2, <2>3, EmitFacts
  <2>5. Lz4TypeOK'
    BY <1>1, <2>2, <2>4 DEF Lz4TypeOK
  <2>6. n \in Nat
    BY BlockTypes DEF EncoderInv
  <2> HIDE DEF n
  <2>7. BlocksTile'
    <3>1. \A k \in 1 .. n + 1 : blocks'[k].len = ChunkSize
      BY <2>4, <2>6
    <3>2. n + 1 # 0 /\ epc' # "closed"
      BY <2>2, <2>6
    <3> QED
      BY <2>2, <2>4, <3>1, <3>2 DEF BlocksTile
  <2>8. ChunkerInv'
    BY <1>1, <1>2, <2>2, <2>3, <2>4 DEF ChunkerInv
  <2> QED
    BY <2>4, <2>5, <2>7, <2>8 DEF EncoderInv
<1>7. CASE Finish
  <2>1. /\ epc = "open" /\ epc' = "closed"
        /\ UNCHANGED <<total, started, flen, trailer, dpc, doff, decoded, cpc, coff>>
    BY <1>7 DEF Finish, fileVars, decoderVars, checkVars
  <2>2. CASE buf = 0 /\ slen' = Began /\ UNCHANGED <<blocks, buf>>
    <3>1. Lz4TypeOK'
      BY <1>1, <1>4, <2>1, <2>2 DEF Lz4TypeOK
    <3>2. slen' = Behind(Len(blocks))
      BY <1>1, <1>3, <2>1, <2>2
    <3>3. BlocksTile' /\ BlocksInStream'
      BY <2>1, <2>2, <3>1, <3>2, SameBlocks
    <3>4. ChunkerInv'
      BY <2>1, <2>2 DEF EncoderInv, ChunkerInv
    <3> QED
      BY <3>1, <3>3, <3>4 DEF EncoderInv
  <2>3. CASE buf > 0 /\ \E p \in BlockLens : Emit(buf, p)
    <3>1. PICK p \in BlockLens : Emit(buf, p)
      BY <2>3
    <3>2. started /\ buf \in Nat \ {0} /\ buf <= buf
      BY <1>1, <2>3 DEF EncoderInv, ChunkerInv
    <3> DEFINE n == Len(blocks)
    <3>3. /\ blocks' \in Seq(Block) /\ Len(blocks') = n + 1
          /\ slen' \in Nat /\ buf' \in 0 .. total /\ buf' = buf - buf /\ BlocksInStream'
          /\ \A k \in 1 .. n + 1 :
               /\ blocks'[k].at = IF k = 1 THEN 4 ELSE End(blocks'[k - 1])
               /\ blocks'[k].from = (k - 1) * ChunkSize
               /\ k < n + 1 => blocks'[k].len = ChunkSize
          /\ total - buf' = blocks'[n + 1].from + blocks'[n + 1].len
      BY <2>1, <3>1, <3>2, EmitFacts
    <3>4. Lz4TypeOK'
      BY <1>1, <2>1, <3>3 DEF Lz4TypeOK
    <3>5. n \in Nat /\ buf' = 0
      BY <3>2, <3>3, BlockTypes DEF EncoderInv
    <3> HIDE DEF n
    <3>6. BlocksTile'
      BY <2>1, <3>3, <3>5 DEF BlocksTile
    <3>7. ChunkerInv'
      BY <2>1, <3>2 DEF ChunkerInv
    <3> QED
      BY <3>3, <3>4, <3>6, <3>7 DEF EncoderInv
  <2> QED
    BY <1>7, <2>2, <2>3 DEF Finish
<1>8. CASE EncodeFails
  <2>1. /\ epc \in {"open", "flushing"} /\ started /\ epc' = "failed"
        /\ UNCHANGED <<total, buf, started, blocks, slen, flen, trailer, dpc, doff, decoded,
                        cpc, coff>>
    BY <1>8 DEF EncodeFails, fileVars, decoderVars, checkVars
  <2>2. Lz4TypeOK'
    BY <1>1, <2>1 DEF Lz4TypeOK
  <2>3. BlocksTile' /\ BlocksInStream'
    BY <1>3, <2>1, <2>2, SameBlocks
  <2>4. ChunkerInv'
    BY <2>1 DEF ChunkerInv
  <2> QED
    BY <2>2, <2>3, <2>4 DEF EncoderInv
<1> QED
  BY <1>5, <1>6, <1>7, <1>8

(* Behind the encoder the stream stays as it is. *)
LEMMA StreamKept ==
  ASSUME EncoderInv, UNCHANGED encoderVars, Lz4TypeOK'
  PROVE  EncoderInv'
<1>1. UNCHANGED <<epc, total, buf, started, blocks, slen>>
  BY DEF encoderVars
<1>2. Behind(Len(blocks))' = Behind(Len(blocks))
  BY <1>1 DEF Behind
<1>3. BlocksTile' /\ ChunkerInv'
  BY <1>1 DEF EncoderInv, BlocksTile, ChunkerInv
<1>4. BlocksInStream'
  BY <1>1, <1>2 DEF EncoderInv, BlocksInStream
<1> QED
  BY <1>3, <1>4 DEF EncoderInv

-----------------------------------------------------------------------------
(* The walks over the blocks. *)

(* A finished stream, seen from its blocks. *)
LEMMA WalkFacts ==
  ASSUME EncoderInv, epc \in {"closed", "failed"}
  PROVE  LET n == Len(blocks) IN
         /\ n \in Nat /\ slen = Behind(n) /\ slen >= 4
         /\ \A m \in 0 .. n : Behind(m) \in Nat /\ 4 <= Behind(m) /\ Behind(m) <= slen
         /\ \A l, m \in 0 .. n : l < m => Behind(l) + 4 < Behind(m)
         /\ \A m \in 0 .. n : m < n =>
              /\ Behind(m) # slen
              /\ BlockAt(Behind(m)) = {blocks[m + 1]}
              /\ SizeAt(Behind(m)) \in Nat \ {0}
              /\ Behind(m) + 4 + SizeAt(Behind(m)) = Behind(m + 1)
         /\ SizeAt(slen) = total /\ total \in Nat /\ BlockAt(slen) = {}
         /\ n > 0 => total > 0
         /\ epc = "closed" /\ n = 0 => total = 0
<1> DEFINE n == Len(blocks)
<1>0. Lz4TypeOK /\ blocks \in Seq(Block)
  BY DEF EncoderInv, Lz4TypeOK
<1>1. /\ n \in Nat
      /\ \A k \in 1 .. n : /\ blocks[k].at \in Nat /\ blocks[k].packed \in Nat \ {0}
                           /\ blocks[k].len \in Nat \ {0} /\ blocks[k].from \in Nat
                           /\ End(blocks[k]) = blocks[k].at + 4 + blocks[k].packed
                           /\ End(blocks[k]) \in Nat /\ blocks[k].at >= 4
  BY <1>0, BlockTypes DEF EncoderInv, BlocksInStream
<1>2. slen = Behind(n)
  BY DEF EncoderInv, BlocksInStream, ChunkerInv
<1>3. \A j, k \in 1 .. n : j < k => End(blocks[j]) <= blocks[k].at
  BY DEF EncoderInv, BlocksInStream
<1>4. \A k \in 1 .. n : blocks[k].at = Behind(k - 1)
  <2> SUFFICES ASSUME NEW k \in 1 .. n
               PROVE  blocks[k].at = Behind(k - 1)
    OBVIOUS
  <2>1. blocks[k].at = IF k = 1 THEN 4 ELSE End(blocks[k - 1])
    BY DEF EncoderInv, BlocksTile
  <2>2. k - 1 = 0 <=> k = 1
    BY <1>1
  <2> QED
    BY <2>1, <2>2 DEF Behind
<1>5. \A m \in 0 .. n : Behind(m) \in Nat /\ 4 <= Behind(m)
  <2> SUFFICES ASSUME NEW m \in 0 .. n
               PROVE  Behind(m) \in Nat /\ 4 <= Behind(m)
    OBVIOUS
  <2>1. CASE m = 0
    BY <2>1 DEF Behind
  <2>2. CASE m # 0
    <3>1. m \in 1 .. n /\ Behind(m) = End(blocks[m])
      BY <1>1, <2>2 DEF Behind
    <3>2. PICK at, packed \in Nat : at = blocks[m].at /\ packed = blocks[m].packed
      BY <1>1, <3>1
    <3>3. at >= 4 /\ End(blocks[m]) = at + 4 + packed
      BY <1>1, <3>1, <3>2
    <3>4. End(blocks[m]) \in Nat /\ 4 <= End(blocks[m])
      BY <3>2, <3>3
    <3> QED
      BY <3>1, <3>4
  <2> QED
    BY <2>1, <2>2
<1>6. \A k \in 1 .. n : Behind(k - 1) + 4 < Behind(k)
  <2> SUFFICES ASSUME NEW k \in 1 .. n
               PROVE  Behind(k - 1) + 4 < Behind(k)
    OBVIOUS
  <2>1. Behind(k) = End(blocks[k]) /\ Behind(k - 1) = blocks[k].at
    BY <1>1, <1>4 DEF Behind
  <2>2. blocks[k].at + 4 < End(blocks[k])
    BY <1>1
  <2> QED
    BY <2>1, <2>2
<1>7. ASSUME NEW l \in 0 .. n, NEW m \in 0 .. n, l < m
      PROVE  Behind(l) + 4 < Behind(m)
  <2>1. m \in 1 .. n /\ m - 1 \in 0 .. n
    BY <1>1, <1>7
  <2>2. Behind(l) <= Behind(m - 1)
    <3>1. CASE l = 0
      BY <1>5, <2>1, <3>1 DEF Behind
    <3>2. CASE l # 0
      <4>1. l \in 1 .. n /\ Behind(l) = End(blocks[l])
        BY <1>1, <3>2 DEF Behind
      <4> QED
        BY <1>3, <1>4, <1>7, <2>1, <4>1
    <3> QED
      BY <3>1, <3>2
  <2>3. Behind(m - 1) + 4 < Behind(m)
    BY <1>6, <2>1
  <2>4. Behind(l) \in Nat /\ Behind(m - 1) \in Nat /\ Behind(m) \in Nat
    BY <1>5, <2>1
  <2> QED
    BY <2>2, <2>3, <2>4
<1>8. \A m \in 0 .. n : Behind(m) <= slen
  <2> SUFFICES ASSUME NEW m \in 0 .. n
               PROVE  Behind(m) <= slen
    OBVIOUS
  <2>1. n \in 0 .. n /\ Behind(m) \in Nat /\ Behind(n) \in Nat
    BY <1>1, <1>5
  <2> QED
    BY <1>1, <1>2, <1>7, <2>1
<1>9. slen \in Nat /\ slen >= 4
  BY <1>1, <1>2, <1>5
<1>10. ASSUME NEW m \in 0 .. n, m < n
       PROVE  /\ Behind(m) # slen
              /\ BlockAt(Behind(m)) = {blocks[m + 1]}
              /\ SizeAt(Behind(m)) = blocks[m + 1].packed
  <2>1. m + 1 \in 1 .. n /\ (m + 1) - 1 = m
    BY <1>1, <1>10
  <2>2. Behind(m) # slen
    BY <1>1, <1>2, <1>5, <1>7, <1>10
  <2>3. blocks[m + 1] \in BlockAt(Behind(m))
    BY <1>0, <1>1, <1>4, <2>1 DEF BlockAt, Range
  <2>4. ASSUME NEW b \in BlockAt(Behind(m))
        PROVE  b = blocks[m + 1]
    <3>1. PICK k \in 1 .. n : b = blocks[k] /\ blocks[k].at = Behind(m)
      BY <1>0, <1>1, <2>4 DEF BlockAt, Range
    <3>2. Behind(k - 1) = Behind(m) /\ k - 1 \in 0 .. n
      BY <1>1, <1>4, <3>1
    <3>3. k - 1 = m
      <4>1. Behind(k - 1) \in Nat
        BY <1>5, <3>2
      <4>2. ~(k - 1 < m)
        BY <1>7, <3>2, <4>1
      <4>3. ~(m < k - 1)
        BY <1>7, <3>2, <4>1
      <4> QED
        BY <1>1, <3>2, <4>2, <4>3
    <3> QED
      BY <3>1, <3>3
  <2>5. BlockAt(Behind(m)) = {blocks[m + 1]}
    BY <2>3, <2>4
  <2> QED
    BY <2>2, <2>5 DEF SizeAt
<1>11. \A m \in 0 .. n : m < n =>
         /\ SizeAt(Behind(m)) \in Nat \ {0}
         /\ Behind(m) + 4 + SizeAt(Behind(m)) = Behind(m + 1)
  <2> SUFFICES ASSUME NEW m \in 0 .. n, m < n
               PROVE  /\ SizeAt(Behind(m)) \in Nat \ {0}
                      /\ Behind(m) + 4 + SizeAt(Behind(m)) = Behind(m + 1)
    OBVIOUS
  <2>1. m + 1 \in 1 .. n /\ (m + 1) - 1 = m /\ m + 1 # 0
    BY <1>1
  <2>2. Behind(m + 1) = End(blocks[m + 1]) /\ blocks[m + 1].at = Behind(m)
    BY <1>4, <2>1 DEF Behind
  <2> QED
    BY <1>1, <1>10, <2>1, <2>2
<1>12. SizeAt(slen) = total /\ total \in Nat
  BY MaxTotalAssumption DEF SizeAt, EncoderInv, Lz4TypeOK
<1>13. BlockAt(slen) = {}
  <2> SUFFICES ASSUME NEW b \in BlockAt(slen)
               PROVE  FALSE
    OBVIOUS
  <2>1. PICK k \in 1 .. n : blocks[k].at = slen
    BY <1>0, <1>1 DEF BlockAt, Range
  <2>2. Behind(k - 1) = slen /\ k - 1 \in 0 .. n /\ k - 1 < n
    BY <1>1, <1>4, <2>1
  <2> QED
    BY <1>10, <2>2
<1>14. n > 0 => total > 0
  <2> SUFFICES ASSUME n > 0
               PROVE  total > 0
    OBVIOUS
  <2>1. n \in 1 .. n /\ n # 0
    BY <1>1
  <2>2. total - buf = blocks[n].from + blocks[n].len /\ buf \in 0 .. total
    BY <2>1 DEF EncoderInv, BlocksTile, Lz4TypeOK
  <2> QED
    BY <1>1, <1>12, <2>1, <2>2
<1>15. epc = "closed" /\ n = 0 => total = 0
  BY <1>12 DEF EncoderInv, BlocksTile
<1> QED
  BY <1>1, <1>2, <1>5, <1>7, <1>8, <1>9, <1>10, <1>11, <1>12, <1>13, <1>14, <1>15

(* The same as positions in a file. *)
LEMMA StepFacts ==
  ASSUME EncoderInv, FileInv, cpc # "idle"
  PROVE  LET n == Len(blocks) IN
         /\ n \in Nat /\ slen = Behind(n) /\ slen \in Nat /\ slen >= 4 /\ total \in Nat
         /\ flen \in Nat /\ flen >= 4 /\ flen <= slen + 4
         /\ ~SizeInFile(slen + 4)
         /\ \A m \in 0 .. n :
              /\ Behind(m) \in Nat /\ Behind(m) <= slen /\ Beyond(m) \in Nat
              /\ Behind(m) + 4 + SizeAt(Behind(m)) = Beyond(m)
              /\ Behind(m) + 4 <= Beyond(m)
              /\ Complete(Behind(m)) <=> Beyond(m) <= flen
         /\ \A l, m \in 0 .. n : l < m => Beyond(l) <= Behind(m) /\ Behind(l) + 4 < Behind(m)
<1> DEFINE n == Len(blocks)
<1>1. epc \in {"closed", "failed"} /\ flen \in Nat /\ flen >= 4 /\ flen <= slen + 4
  <2>1. flen \in Nat /\ trailer \in BOOLEAN /\ slen \in Nat
    BY DEF EncoderInv, Lz4TypeOK
  <2> QED
    BY <2>1 DEF FileInv
<1>2. /\ n \in Nat /\ slen = Behind(n) /\ slen >= 4
      /\ \A m \in 0 .. n : Behind(m) \in Nat /\ 4 <= Behind(m) /\ Behind(m) <= slen
      /\ \A l, m \in 0 .. n : l < m => Behind(l) + 4 < Behind(m)
      /\ \A m \in 0 .. n : m < n =>
           /\ SizeAt(Behind(m)) \in Nat \ {0}
           /\ Behind(m) + 4 + SizeAt(Behind(m)) = Behind(m + 1)
      /\ SizeAt(slen) = total /\ total \in Nat
  BY <1>1, WalkFacts
<1>3. slen \in Nat
  BY <1>2
<1>4. ASSUME NEW m \in 0 .. n
      PROVE  /\ Behind(m) \in Nat /\ Behind(m) <= slen /\ Beyond(m) \in Nat
             /\ Behind(m) + 4 + SizeAt(Behind(m)) = Beyond(m)
             /\ Behind(m) + 4 <= Beyond(m)
  <2>1. CASE m = n
    <3>1. Behind(m) = slen /\ Beyond(m) = slen + 4 + total
      BY <1>2, <2>1 DEF Beyond
    <3> QED
      BY <1>2, <1>3, <3>1
  <2>2. CASE m # n
    <3>1. m < n /\ m + 1 \in 0 .. n /\ Beyond(m) = Behind(m + 1)
      BY <1>2, <2>2 DEF Beyond
    <3>2. Behind(m) \in Nat /\ Behind(m + 1) \in Nat /\ SizeAt(Behind(m)) \in Nat
      BY <1>2, <3>1
    <3> QED
      BY <1>2, <3>1, <3>2
  <2> QED
    BY <2>1, <2>2
<1>5. ASSUME NEW m \in 0 .. n
      PROVE  Complete(Behind(m)) <=> Beyond(m) <= flen
  BY <1>4 DEF Complete
<1>6. ASSUME NEW l \in 0 .. n, NEW m \in 0 .. n, l < m
      PROVE  Beyond(l) <= Behind(m)
  <2>1. l # n /\ l + 1 \in 0 .. n /\ Beyond(l) = Behind(l + 1)
    BY <1>2, <1>6 DEF Beyond
  <2>2. Behind(l + 1) \in Nat /\ Behind(m) \in Nat
    BY <1>2, <2>1
  <2>3. CASE l + 1 = m
    BY <2>1, <2>2, <2>3
  <2>4. CASE l + 1 # m
    <3>1. l + 1 < m
      BY <1>2, <1>6, <2>4
    <3>2. Behind(l + 1) + 4 < Behind(m)
      BY <1>2, <2>1, <3>1
    <3> QED
      BY <2>1, <2>2, <3>2
  <2> QED
    BY <2>3, <2>4
<1>7. ~SizeInFile(slen + 4)
  BY <1>1, <1>3 DEF SizeInFile
<1> QED
  BY <1>1, <1>2, <1>3, <1>4, <1>5, <1>6, <1>7

(* A walk stops in front of a block that is not complete. *)
LEMMA CheckStopped ==
  ASSUME EncoderInv, FileInv, CheckInv, cpc \in {"LZ4_LEGACY", "LZ4_LG"},
         NEW m \in 0 .. Len(blocks), coff = Behind(m), SizeInFile(coff)
  PROVE  Beyond(m) > flen /\ cpc = "LZ4_LG" /\ flen >= 8
<1>1. /\ flen \in Nat
      /\ \A j \in 0 .. Len(blocks) : Behind(j) \in Nat
      /\ \A j, k \in 0 .. Len(blocks) : j < k => Behind(j) + 4 < Behind(k)
  BY StepFacts
<1>2. cpc = "LZ4_LG"
  BY DEF CheckInv
<1>3. flen >= 8
  BY <1>1, <1>2 DEF CheckInv, SizeInFile
<1>4. PICK k \in 0 .. Len(blocks) : coff = Behind(k) /\ Beyond(k) > flen
  BY <1>1, <1>2, <1>3 DEF CheckInv
<1>5. k = m
  <2>1. Behind(k) = Behind(m) /\ Behind(k) \in Nat
    BY <1>1, <1>4
  <2>2. ~(k < m) /\ ~(m < k)
    BY <1>1, <2>1
  <2>3. k \in Int /\ m \in Int
    OBVIOUS
  <2> QED
    BY <2>2, <2>3
<1> QED
  BY <1>2, <1>3, <1>4, <1>5

LEMMA IdleReader ==
  ASSUME cpc = "idle", dpc = "idle", coff = 4, doff = 4, Len(decoded) = 0, Len(blocks) \in Nat
  PROVE  ReaderInv
<1>1. 0 \in 0 .. Len(blocks) /\ Behind(0) = 4 /\ 0 <= Len(blocks) /\ 1 .. 0 = {}
  BY DEF Behind
<1>2. OnBlocks(coff)
  BY <1>1 DEF OnBlocks
<1>3. CheckInv
  BY <1>2 DEF CheckInv
<1>4. DecoderInv
  BY <1>1 DEF DecoderInv
<1>5. FileInv /\ VariantTold /\ DecodesComplete
  BY DEF FileInv, VariantTold, DecodesComplete
<1> QED
  BY <1>3, <1>4, <1>5 DEF ReaderInv

(* The decoder is where the check has stopped, or has a complete block in  *)
(* front of it.                                                            *)
LEMMA DecoderAt ==
  ASSUME EncoderInv, FileInv, CheckInv, DecoderInv, dpc = "run"
  PROVE  LET k == Len(decoded) IN
         /\ k \in 0 .. Len(blocks) /\ cpc \in {"LZ4_LEGACY", "LZ4_LG"}
         /\ \/ doff = coff
            \/ /\ doff = Behind(k) /\ Beyond(k) <= coff
               /\ SizeInFile(doff) /\ Complete(doff)
         /\ SizeInFile(doff) => doff = Behind(k)
<1> DEFINE k == Len(decoded)
           n == Len(blocks)
<1>1. cpc \in {"LZ4_LEGACY", "LZ4_LG"} /\ cpc # "idle"
  BY DEF EncoderInv, Lz4TypeOK, CheckInv
<1>2. /\ n \in Nat /\ slen = Behind(n) /\ slen \in Nat /\ total \in Nat /\ flen \in Nat
      /\ ~SizeInFile(slen + 4)
      /\ \A m \in 0 .. n :
           /\ Behind(m) \in Nat /\ Behind(m) <= slen /\ Beyond(m) \in Nat
           /\ Behind(m) + 4 <= Beyond(m)
           /\ Complete(Behind(m)) <=> Beyond(m) <= flen
      /\ \A l, m \in 0 .. n : l < m => Beyond(l) <= Behind(m) /\ Behind(l) + 4 < Behind(m)
  BY <1>1, StepFacts
<1>3. k \in 0 .. n
  <2>1. k \in Nat
    BY DEF EncoderInv, Lz4TypeOK
  <2> QED
    BY <1>2, <2>1 DEF DecoderInv
<1>4. coff \in Nat /\ coff <= flen /\ doff \in Nat /\ doff <= coff
  BY <1>1 DEF EncoderInv, Lz4TypeOK, CheckInv, DecoderInv
<1>5. SizeInFile(doff) => doff = Behind(k)
  BY <1>2 DEF DecoderInv
<1>6. ASSUME doff # coff
      PROVE  /\ doff = Behind(k) /\ Beyond(k) <= coff
             /\ SizeInFile(doff) /\ Complete(doff)
  <2>1. doff = Behind(k)
    <3>1. coff <= slen + 4
      BY <1>2, <1>4 DEF CheckInv, OnBlocks
    <3>2. doff # slen + 4
      BY <1>2, <1>4, <1>6, <3>1
    <3> QED
      BY <3>2 DEF DecoderInv
  <2>2. Beyond(k) <= coff
    <3>1. CASE \E m \in 0 .. n : coff = Behind(m)
      <4>1. PICK m \in 0 .. n : coff = Behind(m)
        BY <3>1
      <4>2. k # m /\ ~(m < k)
        <5>1. k # m
          BY <1>6, <2>1, <4>1
        <5>2. m < k => Behind(m) + 4 < Behind(k)
          BY <1>2, <1>3
        <5>3. Behind(m) \in Nat /\ Behind(k) \in Nat /\ Behind(k) <= Behind(m)
          BY <1>2, <1>3, <1>4, <2>1, <4>1
        <5> QED
          BY <5>1, <5>2, <5>3
      <4>3. k < m
        BY <1>3, <4>2
      <4> QED
        BY <1>2, <1>3, <4>1, <4>3
    <3>2. CASE total = 0 /\ coff = slen + 4
      <4>1. n = 0
        BY <1>1, <1>2, <3>2, WalkFacts DEF FileInv
      <4> QED
        BY <1>2, <1>3, <3>2, <4>1 DEF Beyond
    <3> QED
      BY <3>1, <3>2 DEF CheckInv, OnBlocks
  <2>3. Behind(k) + 4 <= Beyond(k) /\ Beyond(k) <= flen /\ Beyond(k) \in Nat /\ Behind(k) \in Nat
    BY <1>2, <1>3, <1>4, <2>2
  <2> QED
    BY <1>2, <1>3, <2>1, <2>2, <2>3 DEF SizeInFile
<1> QED
  BY <1>1, <1>3, <1>5, <1>6

LEMMA SameWalk ==
  ASSUME UNCHANGED encoderVars
  PROVE  /\ \A m : Behind(m)' = Behind(m) /\ Beyond(m)' = Beyond(m)
         /\ Len(blocks') = Len(blocks)
<1>1. UNCHANGED <<total, blocks, slen>>
  BY DEF encoderVars
<1> QED
  BY <1>1 DEF Behind, Beyond, End

-----------------------------------------------------------------------------
(* The file, the check and the decoder. *)

LEMMA FileStep ==
  ASSUME Lz4Inv, OpenFile
  PROVE  Lz4Inv'
<1>1. /\ epc \in {"closed", "failed"} /\ cpc = "idle" /\ cpc' = "run"
      /\ trailer' \in BOOLEAN /\ (trailer' => epc = "closed")
      /\ flen' \in 4 .. slen + (IF trailer' THEN 4 ELSE 0)
      /\ UNCHANGED <<encoderVars, dpc, doff, decoded, coff>>
  BY DEF OpenFile, decoderVars
<1>2. EncoderInv /\ Lz4TypeOK /\ FileInv /\ CheckInv /\ DecoderInv
  BY DEF Lz4Inv, ReaderInv, EncoderInv
<1>3. UNCHANGED <<epc, total, buf, started, blocks, slen>>
  BY <1>1 DEF encoderVars
<1>4. slen \in Nat /\ Len(blocks) \in Nat
  BY <1>2, WalkFacts, <1>1, BlockTypes DEF Lz4TypeOK
<1>5. flen' \in Nat /\ flen' >= 4 /\ flen' <= slen + (IF trailer' THEN 4 ELSE 0)
  BY <1>1, <1>4
<1>6. Lz4TypeOK'
  BY <1>1, <1>2, <1>3, <1>5 DEF Lz4TypeOK
<1>7. EncoderInv'
  BY <1>1, <1>2, <1>6, StreamKept
<1>8. dpc = "idle" /\ coff = 4 /\ doff = 4 /\ Len(decoded) = 0
  BY <1>1, <1>2 DEF CheckInv, DecoderInv
<1>9. dpc' = "idle" /\ coff' = 4 /\ doff' = 4 /\ Len(decoded') = 0 /\ Len(blocks') \in Nat
  BY <1>1, <1>3, <1>4, <1>8
<1>10. FileInv'
  BY <1>1, <1>3, <1>5 DEF FileInv
<1>11. 0 \in 0 .. Len(blocks') /\ Behind(0)' = 4 /\ 0 <= Len(blocks') /\ 1 .. 0 = {}
  BY <1>9 DEF Behind
<1>12. OnBlocks(coff)'
  BY <1>9, <1>11 DEF OnBlocks
<1>13. CheckInv'
  BY <1>1, <1>5, <1>9, <1>12 DEF CheckInv
<1>14. DecoderInv'
  BY <1>9, <1>11 DEF DecoderInv
<1>15. VariantTold' /\ DecodesComplete'
  BY <1>1, <1>9 DEF VariantTold, DecodesComplete
<1> QED
  BY <1>7, <1>10, <1>13, <1>14, <1>15 DEF Lz4Inv, ReaderInv

(* What every step of the check and of the decoder knows of the stream.    *)
LEMMA ReadFacts ==
  ASSUME Lz4Inv, UNCHANGED <<encoderVars, fileVars>>, cpc # "idle"
  PROVE  /\ EncoderInv /\ Lz4TypeOK /\ FileInv /\ CheckInv /\ DecoderInv /\ VariantTold
         /\ UNCHANGED <<epc, total, buf, started, blocks, slen, flen, trailer>>
         /\ \A m : Behind(m)' = Behind(m) /\ Beyond(m)' = Beyond(m)
         /\ Len(blocks') = Len(blocks)
         /\ coff \in Nat /\ doff \in Nat /\ decoded \in Seq(Block) /\ coff <= flen
<1>1. EncoderInv /\ Lz4TypeOK /\ FileInv /\ CheckInv /\ DecoderInv /\ VariantTold
  BY DEF Lz4Inv, ReaderInv, EncoderInv
<1>2. UNCHANGED <<epc, total, buf, started, blocks, slen, flen, trailer>>
  BY DEF encoderVars, fileVars
<1>3. coff \in Nat /\ doff \in Nat /\ decoded \in Seq(Block) /\ coff <= flen
  BY <1>1 DEF Lz4TypeOK, CheckInv
<1> QED
  BY <1>1, <1>2, <1>3, SameWalk

LEMMA CheckTooShortStep ==
  ASSUME Lz4Inv, CheckTooShort
  PROVE  Lz4Inv'
<1>1. /\ cpc = "run" /\ flen < 8 /\ cpc' = "LZ4_LG" /\ dpc' = "run"
      /\ UNCHANGED <<encoderVars, fileVars, coff, doff, decoded>>
  BY DEF CheckTooShort
<1>2. /\ EncoderInv /\ Lz4TypeOK /\ FileInv /\ CheckInv /\ DecoderInv /\ VariantTold
      /\ UNCHANGED <<epc, total, buf, started, blocks, slen, flen, trailer>>
      /\ \A m : Behind(m)' = Behind(m) /\ Beyond(m)' = Beyond(m)
      /\ Len(blocks') = Len(blocks)
      /\ coff \in Nat /\ doff \in Nat /\ decoded \in Seq(Block) /\ coff <= flen
  BY <1>1, ReadFacts
<1>3. Lz4TypeOK'
  BY <1>1, <1>2 DEF Lz4TypeOK
<1>4. EncoderInv'
  BY <1>1, <1>2, <1>3, StreamKept
<1>5. FileInv'
  BY <1>1, <1>2 DEF FileInv
<1>6. /\ slen \in Nat /\ slen >= 4 /\ flen \in Nat /\ Len(blocks) \in Nat /\ slen = Behind(Len(blocks))
      /\ \A l, m \in 0 .. Len(blocks) : l < m => Behind(l) + 4 < Behind(m)
      /\ \A m \in 0 .. Len(blocks) : Behind(m) \in Nat
  BY <1>1, <1>2, StepFacts
<1>7. 0 \in 0 .. Len(blocks) /\ Behind(0) = 4
  BY <1>6 DEF Behind
<1>8. coff = 4
  <2>1. CASE \E m \in 0 .. Len(blocks) : coff = Behind(m)
    <3>1. PICK m \in 0 .. Len(blocks) : coff = Behind(m)
      BY <2>1
    <3>2. m # 0 => 4 + 4 < Behind(m)
      BY <1>6, <1>7
    <3>3. m = 0
      BY <1>1, <1>2, <1>6, <3>1, <3>2
    <3> QED
      BY <1>7, <3>1, <3>3
  <2>2. CASE coff = slen + 4
    BY <1>1, <1>2, <1>6, <2>2
  <2> QED
    BY <1>2, <2>1, <2>2 DEF CheckInv, OnBlocks
<1>9. dpc = "idle" /\ doff = 4 /\ Len(decoded) = 0
  BY <1>1, <1>2 DEF CheckInv, DecoderInv
<1>10. coff' = 4 /\ doff' = 4 /\ Len(decoded') = 0 /\ flen' < 8 /\ 4 <= flen'
  BY <1>1, <1>2, <1>8, <1>9
<1>11. 0 \in 0 .. Len(blocks') /\ Behind(0)' = 4 /\ 0 <= Len(blocks') /\ 1 .. 0 = {}
  BY <1>2, <1>6, <1>7
<1>12. OnBlocks(coff)'
  BY <1>10, <1>11 DEF OnBlocks
<1>13. CheckInv'
  BY <1>1, <1>10, <1>12 DEF CheckInv
<1>14. DecoderInv'
  BY <1>1, <1>10, <1>11 DEF DecoderInv
<1>15. DecodesComplete'
  BY <1>1 DEF DecodesComplete
<1>16. VariantTold'
  <2>1. ASSUME epc = "closed", flen = slen + (IF trailer THEN 4 ELSE 0)
        PROVE  ~trailer /\ total = 0
    <3>1. ~trailer /\ slen < 8
      BY <1>1, <1>6, <2>1
    <3>2. Len(blocks) = 0
      <4>1. Len(blocks) # 0 => Behind(0) + 4 < Behind(Len(blocks))
        BY <1>6, <1>7
      <4> QED
        BY <1>6, <1>7, <3>1, <4>1
    <3> QED
      BY <1>2, <2>1, <3>1, <3>2, WalkFacts
  <2>2. epc' = "closed" /\ flen' = slen' + (IF trailer' THEN 4 ELSE 0) => ~trailer' /\ total' = 0
    BY <1>2, <2>1
  <2>3. ~(total' > 0) <=> total' = 0
    BY <1>3, MaxTotalAssumption DEF Lz4TypeOK
  <2> QED
    BY <1>1, <2>2, <2>3 DEF VariantTold
<1> QED
  BY <1>4, <1>5, <1>13, <1>14, <1>15, <1>16 DEF Lz4Inv, ReaderInv

LEMMA CheckBlockStep ==
  ASSUME Lz4Inv, CheckBlock
  PROVE  Lz4Inv'
<1> DEFINE n == Len(blocks)
<1>1. /\ cpc = "run" /\ flen >= 8 /\ SizeInFile(coff) /\ Complete(coff)
      /\ coff' = coff + 4 + SizeAt(coff)
      /\ UNCHANGED <<encoderVars, fileVars, cpc, dpc, doff, decoded>>
  BY DEF CheckBlock, MoreToCheck, decoderVars
<1>2. /\ EncoderInv /\ Lz4TypeOK /\ FileInv /\ CheckInv /\ DecoderInv /\ VariantTold
      /\ UNCHANGED <<epc, total, buf, started, blocks, slen, flen, trailer>>
      /\ \A m : Behind(m)' = Behind(m) /\ Beyond(m)' = Beyond(m)
      /\ Len(blocks') = Len(blocks)
      /\ coff \in Nat /\ doff \in Nat /\ decoded \in Seq(Block) /\ coff <= flen
  BY <1>1, ReadFacts
<1>3. /\ n \in Nat /\ slen = Behind(n) /\ slen \in Nat /\ total \in Nat /\ flen \in Nat
      /\ flen <= slen + 4 /\ ~SizeInFile(slen + 4)
      /\ \A m \in 0 .. n :
           /\ Behind(m) \in Nat /\ Beyond(m) \in Nat
           /\ Behind(m) + 4 + SizeAt(Behind(m)) = Beyond(m)
           /\ Behind(m) + 4 <= Beyond(m)
           /\ Complete(Behind(m)) <=> Beyond(m) <= flen
  BY <1>1, <1>2, StepFacts
<1>4. PICK m \in 0 .. n : coff = Behind(m)
  BY <1>1, <1>2, <1>3 DEF CheckInv, OnBlocks
<1>5. coff' = Beyond(m) /\ Beyond(m) \in Nat /\ Beyond(m) <= flen /\ coff + 4 <= Beyond(m)
  BY <1>1, <1>3, <1>4
<1>6. Lz4TypeOK'
  BY <1>1, <1>2, <1>5 DEF Lz4TypeOK
<1>7. EncoderInv'
  BY <1>1, <1>2, <1>6, StreamKept
<1>8. FileInv'
  BY <1>1, <1>2 DEF FileInv
<1>9. OnBlocks(coff)'
  <2>1. CASE m = n
    <3>1. coff' = slen + 4 + total /\ total = 0
      BY <1>3, <1>5, <2>1 DEF Beyond
    <3>2. coff' = slen' + 4 /\ total' = 0
      BY <1>2, <1>3, <3>1
    <3> QED
      BY <3>2 DEF OnBlocks
  <2>2. CASE m # n
    <3>1. coff' = Behind(m + 1) /\ m + 1 \in 0 .. n
      BY <1>3, <1>5, <2>2 DEF Beyond
    <3>2. coff' = Behind(m + 1)' /\ m + 1 \in 0 .. Len(blocks')
      BY <1>2, <3>1
    <3> QED
      BY <3>2 DEF OnBlocks
  <2> QED
    BY <2>1, <2>2
<1>10. dpc = "idle"
  BY <1>1, <1>2 DEF CheckInv
<1>11. dpc' = "idle" /\ cpc' = "run" /\ coff' <= flen'
  BY <1>1, <1>2, <1>5, <1>10
<1>12. CheckInv'
  BY <1>9, <1>11 DEF CheckInv
<1>13. doff = 4 /\ Len(decoded) = 0 /\ doff <= coff
  BY <1>2, <1>10 DEF DecoderInv
<1>14. doff' = 4 /\ Len(decoded') = 0 /\ doff' <= coff'
  BY <1>1, <1>2, <1>5, <1>13
<1>15. Behind(0)' = 4 /\ 0 <= Len(blocks') /\ 1 .. 0 = {}
  BY <1>2, <1>3 DEF Behind
<1>16. DecoderInv'
  BY <1>14, <1>15 DEF DecoderInv
<1>17. VariantTold' /\ DecodesComplete'
  BY <1>11 DEF VariantTold, DecodesComplete
<1> QED
  BY <1>7, <1>8, <1>12, <1>16, <1>17 DEF Lz4Inv, ReaderInv

LEMMA CheckEndsStep ==
  ASSUME Lz4Inv, CheckEnds
  PROVE  Lz4Inv'
<1> DEFINE n == Len(blocks)
<1>1. /\ cpc = "run" /\ flen >= 8 /\ dpc' = "run"
      /\ \/ ~SizeInFile(coff) /\ cpc' = "LZ4_LEGACY"
         \/ SizeInFile(coff) /\ ~Complete(coff) /\ cpc' = "LZ4_LG"
      /\ UNCHANGED <<encoderVars, fileVars, coff, doff, decoded>>
  BY DEF CheckEnds, MoreToCheck
<1>2. /\ EncoderInv /\ Lz4TypeOK /\ FileInv /\ CheckInv /\ DecoderInv /\ VariantTold
      /\ UNCHANGED <<epc, total, buf, started, blocks, slen, flen, trailer>>
      /\ \A m : Behind(m)' = Behind(m) /\ Beyond(m)' = Beyond(m)
      /\ Len(blocks') = Len(blocks)
      /\ coff \in Nat /\ doff \in Nat /\ decoded \in Seq(Block) /\ coff <= flen
  BY <1>1, ReadFacts
<1>3. /\ n \in Nat /\ slen = Behind(n) /\ slen \in Nat /\ total \in Nat /\ flen \in Nat
      /\ flen <= slen + 4 /\ ~SizeInFile(slen + 4)
      /\ \A m \in 0 .. n :
           /\ Behind(m) \in Nat /\ Beyond(m) \in Nat /\ Behind(m) <= slen
           /\ Complete(Behind(m)) <=> Beyond(m) <= flen
  BY <1>1, <1>2, StepFacts
<1>4. n = 0 => slen = 4
  BY <1>3 DEF Behind
<1>5. Lz4TypeOK'
  <2>1. cpc' \in {"idle", "run", "LZ4_LEGACY", "LZ4_LG"}
    BY <1>1
  <2> QED
    BY <1>1, <1>2, <2>1 DEF Lz4TypeOK
<1>6. EncoderInv'
  BY <1>1, <1>2, <1>5, StreamKept
<1>7. FileInv'
  BY <1>1, <1>2 DEF FileInv
<1>8. OnBlocks(coff)'
  BY <1>1, <1>2 DEF CheckInv, OnBlocks
<1>9. SizeInFile(coff) => \E m \in 0 .. n : coff = Behind(m)
  BY <1>2, <1>3 DEF CheckInv, OnBlocks
<1>10. SizeInFile(coff)' <=> SizeInFile(coff)
  BY <1>1, <1>2 DEF SizeInFile
<1>11. ASSUME cpc' = "LZ4_LG"
       PROVE  \E m \in 0 .. n : coff = Behind(m) /\ Beyond(m) > flen
  <2>1. SizeInFile(coff) /\ ~Complete(coff)
    BY <1>1, <1>11
  <2>2. PICK m \in 0 .. n : coff = Behind(m)
    BY <1>9, <2>1
  <2>3. Beyond(m) > flen
    BY <1>3, <2>1, <2>2
  <2> QED
    BY <2>2, <2>3
<1>12. cpc' = "LZ4_LG" =>
         \E m \in 0 .. Len(blocks') : coff' = Behind(m)' /\ Beyond(m)' > flen'
  BY <1>1, <1>2, <1>11
<1>13. CheckInv'
  BY <1>1, <1>2, <1>8, <1>10, <1>12 DEF CheckInv
<1>14. dpc = "idle" /\ doff = 4 /\ Len(decoded) = 0 /\ doff <= coff
  BY <1>1, <1>2 DEF CheckInv, DecoderInv
<1>15. DecoderInv'
  <2>1. Behind(0)' = 4 /\ 0 <= Len(blocks') /\ 1 .. 0 = {}
    BY <1>2, <1>3 DEF Behind
  <2> QED
    BY <1>1, <1>14, <2>1 DEF DecoderInv
<1>16. DecodesComplete'
  BY <1>1 DEF DecodesComplete
<1>17. ASSUME epc = "closed", flen = slen + (IF trailer THEN 4 ELSE 0)
       PROVE  cpc' = "LZ4_LG" <=> (trailer <=> total > 0)
  <2>1. n > 0 <=> total > 0
    <3>1. (n > 0 => total > 0) /\ (n = 0 => total = 0)
      BY <1>2, <1>17, WalkFacts
    <3> QED
      BY <1>3, <3>1
  <2>2. CASE ~trailer
    <3>1. flen = slen /\ n > 0
      BY <1>1, <1>3, <1>4, <1>17, <2>2
    <3>2. ASSUME NEW m \in 0 .. n, coff = Behind(m), SizeInFile(coff)
          PROVE  Beyond(m) <= flen
      <4>1. m # n
        BY <1>3, <3>1, <3>2 DEF SizeInFile
      <4>2. m + 1 \in 0 .. n /\ Beyond(m) = Behind(m + 1)
        BY <1>3, <4>1 DEF Beyond
      <4> QED
        BY <1>3, <3>1, <4>2
    <3>3. cpc' # "LZ4_LG"
      <4> SUFFICES ASSUME cpc' = "LZ4_LG"
                   PROVE  FALSE
        OBVIOUS
      <4>1. PICK m \in 0 .. n : coff = Behind(m) /\ Beyond(m) > flen
        BY <1>11
      <4>2. SizeInFile(coff)
        BY <1>1
      <4> QED
        BY <1>3, <3>2, <4>1, <4>2
    <3> QED
      BY <2>1, <2>2, <3>1, <3>3
  <2>3. CASE trailer
    <3>1. flen = slen + 4
      BY <1>17, <2>3
    <3>2. ASSUME cpc' = "LZ4_LG"
          PROVE  total > 0
      <4>1. PICK m \in 0 .. n : coff = Behind(m) /\ Beyond(m) > flen
        BY <1>11, <3>2
      <4>2. n = 0 => m = 0 /\ Beyond(m) = slen + 4 + total
        BY <4>1 DEF Beyond
      <4> QED
        BY <1>3, <2>1, <3>1, <4>1, <4>2
    <3>3. ASSUME cpc' # "LZ4_LG"
          PROVE  ~(total > 0)
      <4>1. ~SizeInFile(coff)
        BY <1>1, <3>3
      <4>2. coff > slen
        BY <1>2, <1>3, <3>1, <4>1 DEF SizeInFile
      <4>3. ~\E m \in 0 .. n : coff = Behind(m)
        BY <1>2, <1>3, <4>2
      <4>4. total = 0
        BY <1>2, <4>3 DEF CheckInv, OnBlocks
      <4> QED
        BY <4>4
    <3> QED
      BY <2>3, <3>2, <3>3
  <2>4. trailer \in BOOLEAN
    BY <1>2 DEF Lz4TypeOK
  <2> QED
    BY <2>2, <2>3, <2>4
<1>18. VariantTold'
  <2>1. epc' = epc /\ flen' = flen /\ slen' = slen /\ trailer' = trailer /\ total' = total
    BY <1>2
  <2>2. epc' = "closed" /\ flen' = slen' + (IF trailer' THEN 4 ELSE 0)
        => (cpc' = "LZ4_LG" <=> (trailer' <=> total' > 0))
    BY <1>17, <2>1
  <2> QED
    BY <1>1, <2>2 DEF VariantTold
<1> QED
  BY <1>6, <1>7, <1>13, <1>15, <1>16, <1>18 DEF Lz4Inv, ReaderInv

(* The decoder leaves the check as it is. *)
LEMMA DecodeFrame ==
  ASSUME Lz4Inv, dpc = "run", UNCHANGED <<encoderVars, fileVars, checkVars>>,
         dpc' \in {"run", "done", "cut"}, doff' \in Nat, decoded' \in Seq(Block)
  PROVE  /\ EncoderInv' /\ FileInv' /\ CheckInv'
         /\ (dpc' \in {"done", "cut"} => (dpc' = "cut" <=> cpc = "LZ4_LG" /\ flen >= 8))
            => VariantTold'
<1>1. UNCHANGED <<cpc, coff>> /\ cpc # "idle" /\ cpc # "run"
  BY DEF Lz4Inv, ReaderInv, CheckInv, checkVars
<1>2. /\ EncoderInv /\ Lz4TypeOK /\ FileInv /\ CheckInv /\ DecoderInv /\ VariantTold
      /\ UNCHANGED <<epc, total, buf, started, blocks, slen, flen, trailer>>
      /\ \A m : Behind(m)' = Behind(m) /\ Beyond(m)' = Beyond(m)
      /\ Len(blocks') = Len(blocks)
      /\ coff \in Nat /\ doff \in Nat /\ decoded \in Seq(Block) /\ coff <= flen
  BY <1>1, ReadFacts
<1>3. Lz4TypeOK'
  <2>1. dpc' \in {"idle", "run", "done", "cut"}
    OBVIOUS
  <2> QED
    BY <1>1, <1>2, <2>1 DEF Lz4TypeOK
<1>4. EncoderInv'
  BY <1>1, <1>2, <1>3, StreamKept
<1>5. FileInv'
  BY <1>1, <1>2 DEF FileInv
<1>6. OnBlocks(coff)'
  BY <1>1, <1>2 DEF CheckInv, OnBlocks
<1>7. SizeInFile(coff)' <=> SizeInFile(coff)
  BY <1>1, <1>2 DEF SizeInFile
<1>8. cpc' = "LZ4_LG" =>
        \/ flen' < 8 /\ coff' = 4
        \/ /\ flen' >= 8 /\ SizeInFile(coff)'
           /\ \E m \in 0 .. Len(blocks') : coff' = Behind(m)' /\ Beyond(m)' > flen'
  BY <1>1, <1>2, <1>7 DEF CheckInv
<1>9. CheckInv'
  BY <1>1, <1>2, <1>6, <1>7, <1>8 DEF CheckInv
<1>10. ASSUME dpc' \in {"done", "cut"} => (dpc' = "cut" <=> cpc = "LZ4_LG" /\ flen >= 8)
       PROVE  VariantTold'
  <2>1. /\ epc' = epc /\ flen' = flen /\ slen' = slen /\ trailer' = trailer
        /\ total' = total /\ cpc' = cpc
    BY <1>1, <1>2
  <2>2. dpc' \in {"done", "cut"} => (dpc' = "cut" <=> cpc' = "LZ4_LG" /\ flen' >= 8)
    BY <1>10, <2>1
  <2>3. epc' = "closed" /\ cpc' \in {"LZ4_LEGACY", "LZ4_LG"}
        /\ flen' = slen' + (IF trailer' THEN 4 ELSE 0)
        => (cpc' = "LZ4_LG" <=> (trailer' <=> total' > 0))
    BY <1>2, <2>1 DEF VariantTold
  <2> QED
    BY <2>2, <2>3 DEF VariantTold
<1> QED
  BY <1>4, <1>5, <1>9, <1>10

LEMMA DecodeBlockStep ==
  ASSUME Lz4Inv, DecodeBlock
  PROVE  Lz4Inv'
<1> DEFINE k == Len(decoded)
           n == Len(blocks)
<1>1. /\ dpc = "run" /\ dpc' = "run" /\ SizeInFile(doff) /\ Complete(doff)
      /\ doff' = doff + 4 + SizeAt(doff)
      /\ UNCHANGED <<encoderVars, fileVars, checkVars>>
  BY DEF DecodeBlock
<1>2. PICK b \in BlockAt(doff) : decoded' = Append(decoded, b)
  BY DEF DecodeBlock
<1>3. cpc # "idle" /\ UNCHANGED <<cpc, coff>>
  BY <1>1 DEF Lz4Inv, ReaderInv, CheckInv, checkVars
<1>4. /\ EncoderInv /\ Lz4TypeOK /\ FileInv /\ CheckInv /\ DecoderInv /\ VariantTold
      /\ UNCHANGED <<epc, total, buf, started, blocks, slen, flen, trailer>>
      /\ \A m : Behind(m)' = Behind(m) /\ Beyond(m)' = Beyond(m)
      /\ Len(blocks') = Len(blocks)
      /\ coff \in Nat /\ doff \in Nat /\ decoded \in Seq(Block) /\ coff <= flen
  BY <1>1, <1>3, ReadFacts
<1>5. /\ k \in 0 .. n /\ cpc \in {"LZ4_LEGACY", "LZ4_LG"}
      /\ doff = Behind(k) /\ (doff = coff \/ Beyond(k) <= coff)
  BY <1>1, <1>4, DecoderAt
<1>6. /\ n \in Nat /\ flen \in Nat
      /\ \A m \in 0 .. n :
           /\ Behind(m) \in Nat /\ Beyond(m) \in Nat
           /\ Behind(m) + 4 + SizeAt(Behind(m)) = Beyond(m)
           /\ Complete(Behind(m)) <=> Beyond(m) <= flen
  BY <1>3, <1>4, StepFacts
<1>7. epc \in {"closed", "failed"}
  BY <1>3, <1>4 DEF FileInv
<1>8. k < n
  <2>1. BlockAt(slen) = {} /\ slen = Behind(n)
    BY <1>4, <1>7, WalkFacts
  <2>2. k # n
    BY <1>2, <1>5, <2>1
  <2> QED
    BY <1>5, <1>6, <2>2
<1>9. b = blocks[k + 1]
  <2>1. BlockAt(Behind(k)) = {blocks[k + 1]}
    BY <1>4, <1>5, <1>7, <1>8, WalkFacts
  <2> QED
    BY <1>2, <1>5, <2>1
<1>10. k + 1 \in 1 .. n /\ doff' = Beyond(k) /\ Beyond(k) = Behind(k + 1) /\ doff' \in Nat
  <2>1. Beyond(k) = Behind(k + 1)
    BY <1>8, <1>6 DEF Beyond
  <2> QED
    BY <1>1, <1>5, <1>6, <1>8, <2>1
<1>11. doff' <= coff
  <2>1. doff # coff
    <3> SUFFICES ASSUME doff = coff
                 PROVE  FALSE
      OBVIOUS
    <3>1. Beyond(k) > flen
      BY <1>1, <1>4, <1>5, CheckStopped
    <3>2. Beyond(k) <= flen
      BY <1>1, <1>5, <1>6
    <3> QED
      BY <1>5, <1>6, <3>1, <3>2
  <2> QED
    BY <1>5, <1>10, <2>1
<1>12. /\ decoded' \in Seq(Block) /\ Len(decoded') = k + 1
       /\ \A i \in 1 .. k : decoded'[i] = decoded[i]
       /\ decoded'[k + 1] = blocks[k + 1]
  <2>1. blocks[k + 1] \in Block
    BY <1>4, <1>10, BlockTypes
  <2> QED
    BY <1>2, <1>4, <1>9, <2>1, AppendProperties
<1>13. EncoderInv' /\ FileInv' /\ CheckInv' /\ VariantTold'
  BY <1>1, <1>10, <1>12, DecodeFrame
<1>14. DecoderInv'
  <2>1. \A i \in 1 .. k + 1 : decoded'[i] = blocks'[i]
    <3> SUFFICES ASSUME NEW i \in 1 .. k + 1
                 PROVE  decoded'[i] = blocks[i]
      BY <1>4
    <3>1. CASE i = k + 1
      BY <1>12, <3>1
    <3>2. CASE i # k + 1
      <4>1. i \in 1 .. k
        <5> HIDE DEF k, n
        <5> QED
          BY <1>5, <1>6, <3>2
      <4>2. decoded[i] = blocks[i]
        BY <1>4, <4>1 DEF DecoderInv
      <4> QED
        BY <1>12, <4>1, <4>2
    <3> QED
      BY <3>1, <3>2
  <2>2. PICK m \in Nat : m = k + 1
    BY <1>5, <1>6
  <2>3. doff' = Behind(m)' /\ m <= Len(blocks') /\ doff' <= coff'
    BY <1>3, <1>4, <1>6, <1>10, <1>11, <2>2
  <2>4. Len(decoded') = m /\ \A i \in 1 .. m : decoded'[i] = blocks'[i]
    BY <1>12, <2>1, <2>2
  <2> QED
    BY <1>1, <2>3, <2>4 DEF DecoderInv
<1>15. DecodesComplete'
  BY <1>1 DEF DecodesComplete
<1> QED
  BY <1>13, <1>14, <1>15 DEF Lz4Inv, ReaderInv

LEMMA DecodeEmptyStep ==
  ASSUME Lz4Inv, DecodeEmpty
  PROVE  Lz4Inv'
<1> DEFINE k == Len(decoded)
           n == Len(blocks)
<1>1. /\ dpc = "run" /\ dpc' = "run" /\ SizeInFile(doff) /\ SizeAt(doff) = 0
      /\ doff' = doff + 4
      /\ UNCHANGED <<encoderVars, fileVars, checkVars, decoded>>
  BY DEF DecodeEmpty
<1>2. cpc # "idle" /\ UNCHANGED <<cpc, coff>>
  BY <1>1 DEF Lz4Inv, ReaderInv, CheckInv, checkVars
<1>3. /\ EncoderInv /\ Lz4TypeOK /\ FileInv /\ CheckInv /\ DecoderInv /\ VariantTold
      /\ UNCHANGED <<epc, total, buf, started, blocks, slen, flen, trailer>>
      /\ \A m : Behind(m)' = Behind(m) /\ Beyond(m)' = Beyond(m)
      /\ Len(blocks') = Len(blocks)
      /\ coff \in Nat /\ doff \in Nat /\ decoded \in Seq(Block) /\ coff <= flen
  BY <1>1, <1>2, ReadFacts
<1>4. /\ k \in 0 .. n /\ cpc \in {"LZ4_LEGACY", "LZ4_LG"}
      /\ doff = Behind(k) /\ (doff = coff \/ Beyond(k) <= coff)
  BY <1>1, <1>3, DecoderAt
<1>5. /\ n \in Nat /\ flen \in Nat /\ slen \in Nat
      /\ \A m \in 0 .. n :
           /\ Behind(m) \in Nat /\ Beyond(m) \in Nat
           /\ Behind(m) + 4 + SizeAt(Behind(m)) = Beyond(m)
           /\ Complete(Behind(m)) <=> Beyond(m) <= flen
  BY <1>2, <1>3, StepFacts
<1>6. epc \in {"closed", "failed"}
  BY <1>2, <1>3 DEF FileInv
<1>7. k = n
  <2>1. k < n => SizeAt(Behind(k)) \in Nat \ {0}
    BY <1>3, <1>4, <1>6, WalkFacts
  <2> QED
    BY <1>1, <1>4, <1>5, <2>1
<1>8. total = 0 /\ doff = slen
  <2>1. SizeAt(slen) = total /\ slen = Behind(n)
    BY <1>3, <1>6, WalkFacts
  <2> QED
    BY <1>1, <1>4, <1>7, <2>1
<1>9. Beyond(k) = slen + 4
  BY <1>5, <1>7, <1>8 DEF Beyond
<1>10. doff' = slen + 4 /\ doff' <= coff
  <2>1. slen + 4 <= flen
    BY <1>1, <1>8 DEF SizeInFile
  <2>2. doff # coff
    <3> SUFFICES ASSUME doff = coff
                 PROVE  FALSE
      OBVIOUS
    <3>1. Beyond(k) > flen
      BY <1>1, <1>3, <1>4, CheckStopped
    <3> QED
      BY <1>5, <1>9, <2>1, <3>1
  <2> QED
    BY <1>1, <1>4, <1>8, <1>9, <2>2
<1>11. doff' \in Nat
  BY <1>5, <1>10
<1>12. EncoderInv' /\ FileInv' /\ CheckInv' /\ VariantTold'
  <2>1. decoded' \in Seq(Block)
    BY <1>1, <1>3
  <2> QED
    BY <1>1, <1>11, <2>1, DecodeFrame
<1>13. DecoderInv'
  <2>1. /\ Len(decoded') = k /\ k <= Len(blocks') /\ doff' = slen' + 4 /\ total' = 0
        /\ doff' <= coff' /\ \A i \in 1 .. k : decoded'[i] = blocks'[i]
    BY <1>1, <1>2, <1>3, <1>8, <1>10 DEF DecoderInv
  <2> QED
    BY <1>1, <2>1 DEF DecoderInv
<1>14. DecodesComplete'
  BY <1>1 DEF DecodesComplete
<1> QED
  BY <1>12, <1>13, <1>14 DEF Lz4Inv, ReaderInv

LEMMA DecodeEndsStep ==
  ASSUME Lz4Inv, DecodeEnds
  PROVE  Lz4Inv'
<1> DEFINE k == Len(decoded)
           n == Len(blocks)
<1>1. /\ dpc = "run"
      /\ \/ ~SizeInFile(doff) /\ dpc' = "done"
         \/ SizeInFile(doff) /\ ~Complete(doff) /\ dpc' = "cut"
      /\ UNCHANGED <<encoderVars, fileVars, checkVars, doff, decoded>>
  BY DEF DecodeEnds
<1>2. cpc # "idle" /\ UNCHANGED <<cpc, coff>>
  BY <1>1 DEF Lz4Inv, ReaderInv, CheckInv, checkVars
<1>3. /\ EncoderInv /\ Lz4TypeOK /\ FileInv /\ CheckInv /\ DecoderInv /\ VariantTold
      /\ UNCHANGED <<epc, total, buf, started, blocks, slen, flen, trailer>>
      /\ \A m : Behind(m)' = Behind(m) /\ Beyond(m)' = Beyond(m)
      /\ Len(blocks') = Len(blocks)
      /\ coff \in Nat /\ doff \in Nat /\ decoded \in Seq(Block) /\ coff <= flen
  BY <1>1, <1>2, ReadFacts
<1>4. /\ k \in 0 .. n /\ cpc \in {"LZ4_LEGACY", "LZ4_LG"} /\ doff = coff
      /\ SizeInFile(doff) => doff = Behind(k)
  BY <1>1, <1>3, DecoderAt
<1>5. /\ n \in Nat /\ flen \in Nat /\ slen \in Nat /\ slen = Behind(n)
      /\ \A m \in 0 .. n :
           /\ Behind(m) \in Nat /\ Beyond(m) \in Nat
           /\ Behind(m) + 4 <= Beyond(m)
           /\ Complete(Behind(m)) <=> Beyond(m) <= flen
      /\ \A l, m \in 0 .. n : l < m => Beyond(l) <= Behind(m) /\ Behind(l) + 4 < Behind(m)
  BY <1>2, <1>3, StepFacts
<1>6. epc \in {"closed", "failed"}
  BY <1>2, <1>3 DEF FileInv
<1>7. dpc' = "cut" => Beyond(k) > flen /\ cpc = "LZ4_LG" /\ flen >= 8
  <2> SUFFICES ASSUME dpc' = "cut"
               PROVE  Beyond(k) > flen /\ cpc = "LZ4_LG" /\ flen >= 8
    OBVIOUS
  <2>1. SizeInFile(doff) /\ doff = Behind(k)
    BY <1>1, <1>4
  <2> QED
    BY <1>3, <1>4, <2>1, CheckStopped
<1>8. dpc' = "done" => ~(cpc = "LZ4_LG" /\ flen >= 8)
  BY <1>1, <1>3, <1>4, <1>5 DEF CheckInv
<1>9. dpc' \in {"done", "cut"} => (dpc' = "cut" <=> cpc = "LZ4_LG" /\ flen >= 8)
  BY <1>7, <1>8
<1>10. EncoderInv' /\ FileInv' /\ CheckInv' /\ VariantTold'
  <2>1. dpc' \in {"run", "done", "cut"} /\ doff' \in Nat /\ decoded' \in Seq(Block)
    BY <1>1, <1>3
  <2> QED
    BY <1>1, <1>9, <2>1, DecodeFrame
<1>11. DecoderInv'
  <2>1. /\ Len(decoded') = k /\ k <= Len(blocks') /\ dpc' # "idle"
        /\ doff' <= coff' /\ \A i \in 1 .. k : decoded'[i] = blocks'[i]
    BY <1>1, <1>2, <1>3 DEF DecoderInv
  <2>2. doff' = Behind(k)' \/ (total' = 0 /\ doff' = slen' + 4)
    BY <1>1, <1>3 DEF DecoderInv
  <2> QED
    BY <2>1, <2>2 DEF DecoderInv
<1>12. Behind(k) <= flen /\ (k < n => Behind(k + 1) > flen)
  <2>1. CASE doff = Behind(k)
    <3>1. dpc' = "done" => Behind(k) + 4 > flen
      BY <1>1, <1>3, <1>5, <2>1 DEF SizeInFile
    <3>2. dpc' = "done" => Beyond(k) > flen
      BY <1>4, <1>5, <3>1
    <3>3. Beyond(k) > flen
      BY <1>1, <1>7, <3>2
    <3>4. k < n => Beyond(k) = Behind(k + 1)
      BY <1>5 DEF Beyond
    <3>5. Behind(k) <= flen
      BY <1>3, <1>4, <2>1
    <3> QED
      BY <3>3, <3>4, <3>5
  <2>2. CASE total = 0 /\ doff = slen + 4
    <3>1. n = 0
      BY <1>3, <1>5, <1>6, <2>2, WalkFacts
    <3>2. k = n /\ Behind(k) = slen
      BY <1>4, <1>5, <3>1
    <3> QED
      BY <1>3, <1>4, <1>5, <2>2, <3>2
  <2> QED
    BY <1>3, <2>1, <2>2 DEF DecoderInv
<1>13. \A j \in 1 .. n : End(blocks[j]) = Behind(j) /\ j \in 0 .. n
  BY <1>5 DEF Behind
<1>14. \A j \in 1 .. k : decoded[j] = blocks[j] /\ End(blocks[j]) <= flen
  <2> SUFFICES ASSUME NEW j \in 1 .. k
               PROVE  decoded[j] = blocks[j] /\ End(blocks[j]) <= flen
    OBVIOUS
  <2>1. decoded[j] = blocks[j]
    BY <1>3 DEF DecoderInv
  <2>2. j \in 1 .. n /\ End(blocks[j]) = Behind(j) /\ Behind(j) \in Nat /\ Behind(k) \in Nat
    BY <1>4, <1>5, <1>13
  <2>3. j # k => Behind(j) + 4 < Behind(k)
    <3>1. j \in 0 .. n /\ (j # k => j < k)
      <4> HIDE DEF k, n
      <4> QED
        BY <1>4, <1>5, <2>2
    <3> QED
      BY <1>4, <1>5, <3>1
  <2>4. Behind(k) <= flen /\ flen \in Nat
    BY <1>5, <1>12
  <2> QED
    BY <2>1, <2>2, <2>3, <2>4
<1>15. \A j \in k + 1 .. n : End(blocks[j]) > flen
  <2> SUFFICES ASSUME NEW j \in k + 1 .. n
               PROVE  End(blocks[j]) > flen
    OBVIOUS
  <2>0. PICK m \in Nat : m = k + 1
    BY <1>4
  <2>1. j \in 1 .. n /\ j \in 0 .. n /\ m \in 0 .. n /\ k < n /\ (j # m => m < j)
    <3> HIDE DEF k, n
    <3> QED
      BY <1>4, <1>5, <2>0
  <2>2. End(blocks[j]) = Behind(j) /\ Behind(j) \in Nat /\ Behind(m) \in Nat
    BY <1>5, <1>13, <2>1
  <2>3. j # m => Behind(m) + 4 < Behind(j)
    BY <1>5, <2>1
  <2>4. Behind(m) > flen /\ flen \in Nat
    BY <1>5, <1>12, <2>0, <2>1
  <2> QED
    BY <2>2, <2>3, <2>4
<1>16. DecodesComplete'
  <2>1. Len(decoded') = k /\ k <= Len(blocks') /\ decoded' = decoded /\ blocks' = blocks /\ flen' = flen
    BY <1>1, <1>3, <1>4, <1>5
  <2>2. \A j \in 1 .. n : End(blocks[j])' = End(blocks[j])
    BY <2>1 DEF End
  <2>3. \A j \in 1 .. k : decoded'[j] = blocks'[j] /\ End(blocks[j])' <= flen'
    BY <1>4, <1>5, <1>14, <2>1, <2>2
  <2>4. \A j \in k + 1 .. Len(blocks') : End(blocks[j])' > flen'
    BY <1>4, <1>5, <1>15, <2>1, <2>2
  <2> QED
    BY <2>1, <2>3, <2>4 DEF DecodesComplete
<1> QED
  BY <1>10, <1>11, <1>16 DEF Lz4Inv, ReaderInv

-----------------------------------------------------------------------------
(* The specification. *)

LEMMA Lz4Init == Init => Lz4Inv
<1> SUFFICES ASSUME Init
             PROVE  Lz4Inv
  OBVIOUS
<1>1. cpc = "idle" /\ dpc = "idle" /\ coff = 4 /\ doff = 4 /\ Len(decoded) = 0 /\ Len(blocks) \in Nat
  BY DEF Init
<1> QED
  BY <1>1, EncoderInit, IdleReader DEF Lz4Inv

LEMMA IdleReaderNext ==
  (cpc = "idle" /\ dpc = "idle" /\ coff = 4 /\ doff = 4 /\ Len(decoded) = 0
   /\ Len(blocks) \in Nat)' => ReaderInv'
<1>1. (cpc = "idle" /\ dpc = "idle" /\ coff = 4 /\ doff = 4 /\ Len(decoded) = 0
       /\ Len(blocks) \in Nat) => ReaderInv
  BY IdleReader
<1> QED
  BY <1>1, PTL

LEMMA Lz4EncoderStep ==
  ASSUME Lz4Inv, \/ \E n \in Pieces : Feed(n)
                 \/ FlushChunk \/ Finish \/ EncodeFails
  PROVE  Lz4Inv'
<1>1. /\ epc \in {"open", "flushing"}
      /\ UNCHANGED <<fileVars, decoderVars, checkVars>>
  BY DEF Feed, FlushChunk, Finish, EncodeFails
<1>2. cpc = "idle" /\ dpc = "idle" /\ coff = 4 /\ doff = 4 /\ Len(decoded) = 0
  BY <1>1 DEF Lz4Inv, ReaderInv, FileInv, CheckInv, DecoderInv
<1>3. EncoderInv'
  BY EncoderStep DEF Lz4Inv
<1>4. Len(blocks') \in Nat
  BY <1>3 DEF EncoderInv, Lz4TypeOK
<1>5. cpc' = "idle" /\ dpc' = "idle" /\ coff' = 4 /\ doff' = 4 /\ Len(decoded') = 0
  BY <1>1, <1>2 DEF decoderVars, checkVars
<1> QED
  BY <1>3, <1>4, <1>5, IdleReaderNext DEF Lz4Inv

LEMMA Lz4Step == Lz4Inv /\ [Next]_vars => Lz4Inv'
<1> SUFFICES ASSUME Lz4Inv, [Next]_vars
             PROVE  Lz4Inv'
  OBVIOUS
<1>1. CASE (\E n \in Pieces : Feed(n)) \/ FlushChunk \/ Finish \/ EncodeFails
  BY <1>1, Lz4EncoderStep
<1>2. CASE OpenFile
  BY <1>2, FileStep
<1>3. CASE ReadStep
  BY <1>3, CheckTooShortStep, CheckBlockStep, CheckEndsStep, DecodeBlockStep, DecodeEmptyStep,
     DecodeEndsStep DEF ReadStep
<1>4. CASE UNCHANGED vars
  <2>1. UNCHANGED <<epc, total, buf, started, blocks, slen, flen, trailer, dpc, doff, decoded,
                    cpc, coff, encoderVars>>
    BY <1>4 DEF vars, encoderVars, fileVars, decoderVars, checkVars
  <2>2. Lz4TypeOK'
    BY <2>1 DEF Lz4Inv, EncoderInv, Lz4TypeOK
  <2>3. EncoderInv'
    BY <2>1, <2>2, StreamKept DEF Lz4Inv
  <2>4. FileInv' /\ VariantTold'
    BY <2>1 DEF Lz4Inv, ReaderInv, FileInv, VariantTold
  <2>5. \A m : Behind(m)' = Behind(m) /\ Beyond(m)' = Beyond(m)
    BY <2>1, SameWalk
  <2>6. CheckInv'
    BY <2>1, <2>5 DEF Lz4Inv, ReaderInv, CheckInv, OnBlocks, SizeInFile
  <2>7. DecoderInv'
    BY <2>1, <2>5 DEF Lz4Inv, ReaderInv, DecoderInv
  <2>8. DecodesComplete'
    BY <2>1 DEF Lz4Inv, ReaderInv, DecodesComplete, End
  <2> QED
    BY <2>3, <2>4, <2>6, <2>7, <2>8 DEF Lz4Inv, ReaderInv
<1> QED
  BY <1>1, <1>2, <1>3, <1>4 DEF Next

(* The encoder, the check and the decoder keep together what Lz4Inv says   *)
(* of the stream and of the two walks over it.                             *)
THEOREM Lz4Invariant == Spec => []Lz4Inv
<1>1. Init => Lz4Inv
  BY Lz4Init
<1>2. Lz4Inv /\ [Next]_vars => Lz4Inv'
  BY Lz4Step
<1> QED
  BY <1>1, <1>2, PTL DEF Spec

(* The variables of the encoder, the check and the decoder have the types  *)
(* of the code: no length and no offset goes below zero.                   *)
THEOREM Lz4Types == Spec => []Lz4TypeOK
<1>1. Lz4Inv => Lz4TypeOK
  BY DEF Lz4Inv, EncoderInv
<1> QED
  BY <1>1, Lz4Invariant, PTL

(* Whatever the pieces the encoder is fed in (Chunker, compress.rs), its   *)
(* blocks lie behind each other and hold the data in order and in full.    *)
THEOREM Lz4BlocksTile == Spec => []BlocksTile
<1>1. Lz4Inv => BlocksTile
  BY DEF Lz4Inv, EncoderInv
<1> QED
  BY <1>1, Lz4Invariant, PTL

(* check_fmt_lg tells a whole file from its LG variant by its blocks, but  *)
(* for one without data, and agrees with Lz4BlockDecoder about every file. *)
THEOREM Lz4VariantTold == Spec => []VariantTold
<1>1. Lz4Inv => VariantTold
  BY DEF Lz4Inv, ReaderInv
<1> QED
  BY <1>1, Lz4Invariant, PTL

(* A decoder that has come to the end of a file, whole or cut, of either   *)
(* variant, has decompressed exactly the blocks that are complete in it.   *)
THEOREM Lz4DecodesComplete == Spec => []DecodesComplete
<1>1. Lz4Inv => DecodesComplete
  BY DEF Lz4Inv, ReaderInv
<1> QED
  BY <1>1, Lz4Invariant, PTL

-----------------------------------------------------------------------------
(* Runs of numbers. *)

LEMMA ConcatRuns ==
  ASSUME NEW a \in Nat, NEW b \in Nat
  PROVE  Promise!Bytes(a) \o [j \in 1 .. b |-> a + j] = Promise!Bytes(a + b)
<1> DEFINE t == [j \in 1 .. b |-> a + j]
<1>1. Promise!Bytes(a) \in Seq(Nat) /\ Len(Promise!Bytes(a)) = a /\ t \in Seq(Nat) /\ Len(t) = b
  <2>1. \A m \in Nat : \A f \in [1 .. m -> Nat] : f \in Seq(Nat) /\ Len(f) = m
    OBVIOUS
  <2>2. Promise!Bytes(a) \in [1 .. a -> Nat] /\ t \in [1 .. b -> Nat]
    BY DEF Promise!Bytes
  <2> HIDE DEF t
  <2> QED
    BY <2>1, <2>2
<1>2. /\ Promise!Bytes(a) \o t \in Seq(Nat) /\ Len(Promise!Bytes(a) \o t) = a + b
      /\ \A i \in 1 .. a + b : (Promise!Bytes(a) \o t)[i] = IF i <= a THEN Promise!Bytes(a)[i] ELSE t[i - a]
  <2>1. PICK u \in Seq(Nat), v \in Seq(Nat) : u = Promise!Bytes(a) /\ v = t /\ Len(u) = a /\ Len(v) = b
    <3> HIDE DEF t
    <3> QED
      BY <1>1
  <2>2. /\ u \o v \in Seq(Nat) /\ Len(u \o v) = a + b
        /\ \A i \in 1 .. a + b : (u \o v)[i] = IF i <= a THEN u[i] ELSE v[i - a]
    <3>1. /\ u \o v \in Seq(Nat) /\ Len(u \o v) = Len(u) + Len(v)
          /\ \A i \in 1 .. Len(u) + Len(v) :
               (u \o v)[i] = IF i <= Len(u) THEN u[i] ELSE v[i - Len(u)]
      BY ConcatProperties, Zenon
    <3> QED
      BY <2>1, <3>1, Zenon
  <2> HIDE DEF t
  <2> QED
    BY <2>1, <2>2
<1>3. \A i \in 1 .. a + b : (Promise!Bytes(a) \o t)[i] = i
  BY <1>2 DEF Promise!Bytes
<1> QED
  BY <1>2, <1>3 DEF Promise!Bytes

(* Runs of numbers that follow each other, put together. *)
LEMMA FlattenRuns ==
  ASSUME NEW n \in Nat, NEW R \in [0 .. n -> Nat], R[0] = 0,
         \A k \in 1 .. n : R[k - 1] <= R[k],
         NEW s, s = [k \in 1 .. n |-> [j \in 1 .. R[k] - R[k - 1] |-> R[k - 1] + j]]
  PROVE  FlattenSeq(s) = Promise!Bytes(R[n])
<1>0. Len(s) = n
  OBVIOUS
<1>1. CASE n = 0
  BY <1>0, <1>1 DEF FlattenSeq, Promise!Bytes
<1>2. CASE n # 0
  <2> DEFINE G(f) == [i \in 1 .. n |-> IF i = 1 THEN s[i] ELSE f[i - 1] \o s[i]]
             W == [i \in 1 .. n |-> Promise!Bytes(R[i])]
             F == CHOOSE f : f = G(f)
  <2>1. FlattenSeq(s) = F[n]
    BY <1>0, <1>2 DEF FlattenSeq
  <2>2. \A i \in 1 .. n : i # 1 => W[i] = W[i - 1] \o s[i]
    <3> SUFFICES ASSUME NEW i \in 1 .. n, i # 1
                 PROVE  W[i] = W[i - 1] \o s[i]
      OBVIOUS
    <3>0. R[i - 1] \in Nat /\ R[i] \in Nat /\ R[i - 1] <= R[i]
      <4>1. i - 1 \in 0 .. n /\ i \in 0 .. n
        OBVIOUS
      <4> QED
        BY <4>1
    <3>1. PICK a \in Nat, b \in Nat : a = R[i - 1] /\ b = R[i] - R[i - 1] /\ a + b = R[i]
      BY <3>0
    <3>2. s[i] = [j \in 1 .. b |-> a + j] /\ W[i] = Promise!Bytes(a + b) /\ W[i - 1] = Promise!Bytes(a)
      BY <3>1
    <3>3. Promise!Bytes(a) \o [j \in 1 .. b |-> a + j] = Promise!Bytes(a + b)
      BY ConcatRuns
    <3> HIDE DEF W
    <3> QED
      BY <3>2, <3>3, Zenon
  <2>3. W[1] = s[1]
    <3>1. 1 \in 1 .. n /\ R[1] \in Nat
      BY <1>2
    <3>2. s[1] = [j \in 1 .. R[1] - 0 |-> 0 + j]
      BY <3>1
    <3>3. s[1] = [j \in 1 .. R[1] |-> j]
      BY <3>1, <3>2
    <3> QED
      BY <3>1, <3>3 DEF Promise!Bytes
  <2>4. W = G(W)
    BY <2>2, <2>3
  <2>5. F = G(F)
    <3> HIDE DEF G, W
    <3> QED
      BY <2>4
  <2>6. \A i \in 1 .. n : F[i] = IF i = 1 THEN s[i] ELSE F[i - 1] \o s[i]
    <3> HIDE DEF F
    <3> QED
      BY <2>5
  <2> HIDE DEF F
  <2> DEFINE D == {i \in 1 .. n : F[i] # W[i]}
  <2>7. D = {}
    <3> SUFFICES ASSUME D # {} PROVE FALSE
      OBVIOUS
    <3>1. PICK x \in D : \A y \in D : x <= y
      <4>1. D \subseteq Nat
        OBVIOUS
      <4> HIDE DEF D
      <4> QED
        BY <4>1, LeastNumber
    <3>2. x # 1
      BY <2>3, <2>6, <3>1
    <3>0. x \in 1 .. n /\ n \in Nat
      BY <3>1
    <3>3. PICK q : q = x - 1 /\ q \in 1 .. n /\ ~(x <= q)
      <4>1. PICK i, m \in Nat : i = x /\ m = n /\ i \in 1 .. m /\ i # 1
        BY <3>0, <3>2
      <4>2. i - 1 \in 1 .. m /\ ~(i <= i - 1)
        BY <4>1
      <4> QED
        BY <4>1, <4>2
    <3>4. F[q] = W[q]
      BY <3>1, <3>3
    <3>5. x \in 1 .. n /\ F[x] # W[x]
      BY <3>1
    <3>6. F[x] = F[q] \o s[x]
      BY <2>6, <3>2, <3>3, <3>5
    <3>7. W[x] = W[q] \o s[x]
      <4> HIDE DEF W
      <4> QED
        BY <2>2, <3>2, <3>3, <3>5
    <3> HIDE DEF W
    <3> QED
      BY <3>4, <3>5, <3>6, <3>7, Zenon
  <2>8. F[n] = W[n]
    <3>1. n \in 1 .. n
      BY <1>2
    <3> HIDE DEF W
    <3> QED
      BY <2>7, <3>1
  <2>9. W[n] = Promise!Bytes(R[n])
    BY <1>2
  <2> HIDE DEF W
  <2> QED
    BY <2>1, <2>8, <2>9
<1> QED
  BY <1>1, <1>2

-----------------------------------------------------------------------------
(* The LZ4 stream implements Stream. *)

(* How much of the input the first k blocks hold.                          *)
Reach(k) == IF k = 0 THEN 0 ELSE blocks[k].from + blocks[k].len

(* Nothing can be read before a file is there. *)
NotOpened == cpc = "idle" => flen = 0

LEMMA ReachFacts ==
  ASSUME EncoderInv
  PROVE  /\ Len(blocks) \in Nat /\ total \in Nat
         /\ \A k \in 0 .. Len(blocks) : Reach(k) \in Nat
         /\ \A k \in 1 .. Len(blocks) : /\ blocks[k].from = Reach(k - 1)
                                        /\ blocks[k].len = Reach(k) - Reach(k - 1)
                                        /\ Reach(k - 1) < Reach(k)
         /\ \A i, k \in 0 .. Len(blocks) : i <= k => Reach(i) <= Reach(k)
         /\ Reach(Len(blocks)) <= total
         /\ epc = "closed" => Reach(Len(blocks)) = total
<1> DEFINE n == Len(blocks)
<1>1. /\ n \in Nat /\ ChunkSize \in Nat \ {0} /\ total \in Nat /\ buf \in Nat
      /\ total - buf = IF n = 0 THEN 0 ELSE blocks[n].from + blocks[n].len
      /\ epc = "closed" => buf = 0
      /\ \A k \in 1 .. n : /\ blocks[k].from \in Nat /\ blocks[k].len \in Nat /\ blocks[k].len > 0
                           /\ blocks[k].from = (k - 1) * ChunkSize
                           /\ k < n => blocks[k].len = ChunkSize
  BY BlockTypes, ChunkAssumption DEF EncoderInv, BlocksTile, BlocksInStream, Lz4TypeOK
<1> HIDE DEF n
<1>2. \A k \in 0 .. n : Reach(k) \in Nat
  <2> SUFFICES ASSUME NEW k \in 0 .. n
               PROVE  Reach(k) \in Nat
    OBVIOUS
  <2>1. k # 0 => k \in 1 .. n
    BY <1>1
  <2> QED
    BY <1>1, <2>1 DEF Reach
<1>3. \A k \in 0 .. n : k < n => Reach(k) = k * ChunkSize
  <2> SUFFICES ASSUME NEW k \in 0 .. n, k < n
               PROVE  Reach(k) = k * ChunkSize
    OBVIOUS
  <2>1. CASE k = 0
    BY <1>1, <2>1 DEF Reach
  <2>2. CASE k # 0
    <3>1. k \in 1 .. n /\ Reach(k) = (k - 1) * ChunkSize + ChunkSize
      BY <1>1, <2>2 DEF Reach
    <3>2. \A c \in Nat : (k - 1) * c + c = k * c
      BY SMT
    <3> QED
      BY <1>1, <3>1, <3>2
  <2> QED
    BY <2>1, <2>2
<1>4. \A k \in 1 .. n : /\ blocks[k].from = Reach(k - 1)
                        /\ blocks[k].len = Reach(k) - Reach(k - 1)
                        /\ Reach(k - 1) < Reach(k)
  <2> SUFFICES ASSUME NEW k \in 1 .. n
               PROVE  /\ blocks[k].from = Reach(k - 1)
                      /\ blocks[k].len = Reach(k) - Reach(k - 1)
                      /\ Reach(k - 1) < Reach(k)
    OBVIOUS
  <2>1. PICK i \in 0 .. n : i = k - 1 /\ i < n
    BY <1>1
  <2>2. blocks[k].from = i * ChunkSize /\ Reach(i) = i * ChunkSize /\ Reach(i) \in Nat
    BY <1>1, <1>2, <1>3, <2>1
  <2>3. Reach(k) = blocks[k].from + blocks[k].len
    BY <1>1 DEF Reach
  <2> QED
    BY <1>1, <2>1, <2>2, <2>3
<1>5. \A i, k \in 0 .. n : i <= k => Reach(i) <= Reach(k)
  <2> SUFFICES ASSUME NEW i \in 0 .. n, NEW k \in 0 .. n, i <= k
               PROVE  Reach(i) <= Reach(k)
    OBVIOUS
  <2>1. CASE i = k
    BY <1>2, <2>1
  <2>2. CASE i < k
    <3>1. PICK m \in 0 .. n : m = k - 1 /\ m < n /\ i <= m
      BY <1>1, <2>2
    <3>2. Reach(i) = i * ChunkSize /\ Reach(m) = m * ChunkSize
      BY <1>1, <1>3, <3>1
    <3>3. \A a, b, c \in Nat : a <= b => a * c <= b * c
      <4> SUFFICES ASSUME NEW a \in Nat, NEW b \in Nat, NEW c \in Nat, a <= b
                   PROVE  a * c <= b * c
        OBVIOUS
      <4>1. PICK d \in Nat : b = a + d
        <5>1. b - a \in Nat /\ b = a + (b - a)
          OBVIOUS
        <5> QED
          BY <5>1
      <4>2. b * c = a * c + d * c /\ a * c \in Nat /\ d * c \in Nat
        BY <4>1, SMT
      <4> QED
        BY <4>2
    <3>4. Reach(i) <= Reach(m)
      BY <1>1, <3>1, <3>2, <3>3
    <3>5. k \in 1 .. n
      BY <1>1, <2>2
    <3>6. Reach(m) < Reach(k)
      BY <1>4, <3>1, <3>5
    <3> QED
      BY <1>2, <3>1, <3>4, <3>6
  <2> QED
    BY <1>2, <2>1, <2>2
<1>6. Reach(n) = total - buf
  BY <1>1 DEF Reach
<1> QED
  BY <1>1, <1>2, <1>4, <1>5, <1>6 DEF n

(* The data of blocks that tile the input are its beginning.               *)
LEMMA DataFacts ==
  ASSUME EncoderInv, NEW m \in 0 .. Len(blocks), NEW bs, Len(bs) = m,
         \A k \in 1 .. m : bs[k] = blocks[k]
  PROVE  DataOf(bs) = Promise!Bytes(Reach(m))
<1> DEFINE R == [k \in 0 .. m |-> Reach(k)]
           s == [k \in 1 .. Len(bs) |-> [j \in 1 .. bs[k].len |-> bs[k].from + j]]
<1>1. /\ m \in Nat /\ Reach(0) = 0
      /\ \A k \in 0 .. m : Reach(k) \in Nat
      /\ \A k \in 1 .. m : /\ bs[k].from = Reach(k - 1) /\ bs[k].len = Reach(k) - Reach(k - 1)
                           /\ Reach(k - 1) <= Reach(k)
  <2>1. /\ Len(blocks) \in Nat /\ (\A k \in 0 .. Len(blocks) : Reach(k) \in Nat)
        /\ \A k \in 1 .. Len(blocks) :
             /\ blocks[k].from = Reach(k - 1) /\ blocks[k].len = Reach(k) - Reach(k - 1)
             /\ Reach(k - 1) < Reach(k)
    BY ReachFacts
  <2>2. Reach(0) = 0
    BY DEF Reach
  <2>3. m \in Nat /\ \A k \in 0 .. m : k \in 0 .. Len(blocks)
    BY <2>1
  <2>4. ASSUME NEW k \in 1 .. m
        PROVE  /\ bs[k].from = Reach(k - 1) /\ bs[k].len = Reach(k) - Reach(k - 1)
               /\ Reach(k - 1) <= Reach(k)
    <3>1. k \in 1 .. Len(blocks) /\ k \in 0 .. m /\ k - 1 \in 0 .. m
      BY <2>1
    <3>2. Reach(k) \in Nat /\ Reach(k - 1) \in Nat
      BY <2>1, <2>3, <3>1
    <3> QED
      BY <2>1, <3>1, <3>2
  <2> QED
    BY <2>1, <2>2, <2>3, <2>4
<1>2. R \in [0 .. m -> Nat] /\ R[0] = 0 /\ \A k \in 1 .. m : R[k - 1] <= R[k]
  BY <1>1
<1>3. s = [k \in 1 .. m |-> [j \in 1 .. R[k] - R[k - 1] |-> R[k - 1] + j]]
  <2>1. \A k \in 1 .. m : R[k] = Reach(k) /\ R[k - 1] = Reach(k - 1)
    BY <1>1
  <2> HIDE DEF R
  <2> QED
    BY <1>1, <2>1
<1>4. R[m] = Reach(m)
  BY <1>1
<1>5. FlattenSeq(s) = Promise!Bytes(R[m])
  <2> HIDE DEF R, s
  <2> QED
    BY <1>1, <1>2, <1>3, FlattenRuns
<1> QED
  BY <1>4, <1>5 DEF DataOf

(* What has arrived is in the blocks in front of the place of the cut.     *)
LEMMA ArrivedFacts ==
  ASSUME EncoderInv, flen \in Nat, NEW c \in 0 .. Len(blocks),
         \A k \in 1 .. c : End(blocks[k]) <= flen,
         \A k \in c + 1 .. Len(blocks) : End(blocks[k]) > flen
  PROVE  Arrived = 1 .. Reach(c) /\ Cardinality(Arrived) = Reach(c)
<1> DEFINE n == Len(blocks)
<1>1. /\ n \in Nat /\ total \in Nat
      /\ \A k \in 0 .. n : Reach(k) \in Nat
      /\ \A k \in 1 .. n : /\ blocks[k].from = Reach(k - 1)
                           /\ blocks[k].from + blocks[k].len = Reach(k)
                           /\ End(blocks[k]) \in Nat
      /\ \A i, k \in 0 .. n : i <= k => Reach(i) <= Reach(k)
      /\ Reach(n) <= total /\ Reach(0) = 0 /\ Range(blocks) = {blocks[k] : k \in 1 .. n}
  BY ReachFacts, BlockTypes DEF EncoderInv, Reach, Range, Lz4TypeOK
<1> HIDE DEF n
<1>2. ASSUME NEW j \in 1 .. Reach(c)
      PROVE  j \in Arrived
  <2> DEFINE T == {k \in 1 .. c : j <= Reach(k)}
  <2>1. T \subseteq Nat /\ T # {}
    <3>1. c # 0
      BY <1>1
    <3> QED
      BY <1>1, <3>1
  <2>2. PICK k \in T : \A i \in T : k <= i
    <3> HIDE DEF T
    <3> QED
      BY <2>1, LeastNumber
  <2>3. k \in 1 .. n /\ k \in 0 .. n /\ k \in 1 .. c /\ j <= Reach(k)
    BY <1>1, <2>2 DEF n
  <2>4. Reach(k - 1) < j
    <3>1. CASE k = 1
      BY <1>1, <3>1
    <3>2. CASE k # 1
      <4>0. k - 1 \in 1 .. c /\ k - 1 \in 0 .. n /\ ~(k <= k - 1)
        BY <1>1, <2>3, <3>2
      <4>1. PICK i : i = k - 1 /\ i \in 1 .. c /\ i \in 0 .. n /\ ~(k <= i)
        BY <4>0
      <4>2. ~(j <= Reach(i)) /\ Reach(i) \in Nat
        BY <1>1, <2>2, <4>1
      <4> QED
        BY <4>1, <4>2
    <3> QED
      BY <3>1, <3>2
  <2>5. blocks[k] \in Range(blocks) /\ End(blocks[k]) <= flen
    BY <1>1, <2>3
  <2>6. j \in 1 .. total
    <3>1. Reach(c) <= Reach(n) /\ Reach(c) \in Nat
      BY <1>1 DEF n
    <3> QED
      BY <1>1, <3>1
  <2>7. blocks[k].from < j /\ j <= blocks[k].from + blocks[k].len
    BY <1>1, <2>3, <2>4
  <2> QED
    BY <2>5, <2>6, <2>7 DEF Arrived
<1>3. ASSUME NEW j \in Arrived
      PROVE  j \in 1 .. Reach(c)
  <2>1. PICK k \in 1 .. n : End(blocks[k]) <= flen /\ j <= blocks[k].from + blocks[k].len
    BY <1>1 DEF Arrived
  <2>2. j \in 1 .. total
    BY DEF Arrived
  <2>3. k <= c
    <3> SUFFICES ASSUME ~(k <= c)
                 PROVE  FALSE
      OBVIOUS
    <3>1. k \in c + 1 .. Len(blocks)
      BY <1>1 DEF n
    <3> QED
      BY <1>1, <2>1, <3>1
  <2>4. Reach(k) <= Reach(c) /\ Reach(k) \in Nat /\ Reach(c) \in Nat
    BY <1>1, <2>3 DEF n
  <2>5. blocks[k].from + blocks[k].len = Reach(k)
    BY <1>1, <2>1
  <2>6. PICK x, y : x = Reach(k) /\ y = Reach(c)
    OBVIOUS
  <2>7. j \in Nat /\ j >= 1 /\ j <= x /\ x <= y /\ x \in Nat /\ y \in Nat
    <3>1. x \in Nat /\ y \in Nat /\ x <= y /\ j <= x
      BY <2>1, <2>4, <2>5, <2>6
    <3>2. j \in Nat /\ j >= 1
      BY <1>1, <2>2
    <3> QED
      BY <3>1, <3>2
  <2>8. j \in 1 .. y
    BY <2>7
  <2> QED
    BY <2>6, <2>8
<1>4. Arrived = 1 .. Reach(c)
  BY <1>2, <1>3
<1>5. Reach(c) \in Nat
  BY <1>1 DEF n
<1>6. Cardinality(1 .. Reach(c)) = Reach(c)
  <2>1. PICK r \in Nat : r = Reach(c)
    BY <1>5
  <2>2. Cardinality(1 .. r) = IF 1 > r THEN 0 ELSE r - 1 + 1
    BY FS_Interval
  <2>3. Cardinality(1 .. r) = r
    BY <2>2
  <2> QED
    BY <2>1, <2>3
<1> QED
  BY <1>4, <1>6

(* Wherever the file is cut, there is such a place. *)
LEMMA CutPlace ==
  ASSUME EncoderInv, flen \in Nat
  PROVE  \E c \in 0 .. Len(blocks) :
           /\ \A k \in 1 .. c : End(blocks[k]) <= flen
           /\ \A k \in c + 1 .. Len(blocks) : End(blocks[k]) > flen
<1> DEFINE n == Len(blocks)
           T == {k \in 0 .. n : k = n \/ End(blocks[k + 1]) > flen}
<1>1. /\ n \in Nat
      /\ \A k \in 1 .. n : End(blocks[k]) \in Nat /\ blocks[k].at \in Nat
                           /\ blocks[k].at < End(blocks[k])
      /\ \A j, k \in 1 .. n : j < k => End(blocks[j]) <= blocks[k].at
  BY BlockTypes DEF EncoderInv, BlocksInStream
<1>2. T \subseteq Nat /\ n \in T
  BY <1>1
<1>3. PICK c \in T : \A k \in T : c <= k
  <2> HIDE DEF T
  <2> QED
    BY <1>2, LeastNumber
<1>4. c \in 0 .. n
  BY <1>3
<1>5. ASSUME NEW k \in 1 .. c
      PROVE  End(blocks[k]) <= flen
  <2>1. PICK i : i = k - 1 /\ i \in 0 .. n /\ i # n /\ ~(c <= i) /\ k = i + 1
    BY <1>1, <1>4
  <2>2. ~(End(blocks[i + 1]) > flen)
    BY <1>3, <2>1
  <2>3. k \in 1 .. n
    BY <1>1, <1>4
  <2> HIDE DEF n, T
  <2> QED
    BY <1>1, <2>1, <2>2, <2>3
<1>6. ASSUME NEW k \in c + 1 .. n
      PROVE  End(blocks[k]) > flen
  <2>1. PICK i : i = c + 1 /\ i \in 1 .. n /\ k \in 1 .. n /\ (k = i \/ i < k)
    BY <1>1, <1>4
  <2>2. c # n
    BY <1>1, <2>1
  <2>3. End(blocks[i]) > flen
    BY <1>3, <2>1, <2>2
  <2> HIDE DEF n, T
  <2> QED
    BY <1>1, <2>1, <2>3
<1> QED
  BY <1>4, <1>5, <1>6

LEMMA ArrivedSome ==
  ASSUME EncoderInv, flen \in Nat
  PROVE  /\ Cardinality(Arrived) \in 0 .. total
         /\ \A k \in 1 .. Len(blocks) : End(blocks[k]) <= flen
              => Reach(k) \in 1 .. Cardinality(Arrived)
<1>1. PICK c \in 0 .. Len(blocks) :
        /\ \A k \in 1 .. c : End(blocks[k]) <= flen
        /\ \A k \in c + 1 .. Len(blocks) : End(blocks[k]) > flen
  BY CutPlace
<1>2. PICK a : a = Cardinality(Arrived)
  OBVIOUS
<1>3. a = Reach(c)
  BY <1>1, <1>2, ArrivedFacts
<1>4. PICK n \in Nat : n = Len(blocks)
  BY ReachFacts
<1>5. /\ total \in Nat /\ (\A k \in 0 .. n : Reach(k) \in Nat)
      /\ \A k \in 1 .. n : Reach(k - 1) < Reach(k) /\ Reach(k - 1) \in Nat
      /\ \A i, k \in 0 .. n : i <= k => Reach(i) <= Reach(k)
      /\ Reach(n) <= total
  BY <1>4, ReachFacts
<1>6. a \in 0 .. total
  <2>1. Reach(c) <= Reach(n) /\ Reach(c) \in Nat /\ Reach(n) \in Nat
    BY <1>1, <1>4, <1>5
  <2> QED
    BY <1>3, <1>5, <2>1
<1>7. ASSUME NEW k \in 1 .. n, End(blocks[k]) <= flen
      PROVE  Reach(k) \in 1 .. a
  <2>1. k <= c
    <3> SUFFICES ASSUME ~(k <= c)
                 PROVE  FALSE
      OBVIOUS
    <3>1. k \in c + 1 .. Len(blocks)
      BY <1>4
    <3>2. End(blocks[k]) \in Nat
      BY <1>4, BlockTypes DEF EncoderInv
    <3> QED
      BY <1>1, <1>7, <3>1, <3>2
  <2>2. Reach(k) <= Reach(c) /\ Reach(k) \in Nat /\ Reach(c) \in Nat /\ Reach(k) > 0
    BY <1>1, <1>4, <1>5, <2>1
  <2> QED
    BY <1>3, <2>2
<1> QED
  BY <1>2, <1>4, <1>6, <1>7

-----------------------------------------------------------------------------
(* The steps. *)

LEMMA StreamBegins == Init => NotOpened /\ Promise!Init
<1> SUFFICES ASSUME Init
             PROVE  NotOpened /\ Promise!Init
  OBVIOUS
<1>1. /\ epc = "open" /\ total = 0 /\ blocks = <<>> /\ flen = 0 /\ dpc = "idle"
      /\ decoded = <<>> /\ cpc = "idle"
  BY DEF Init
<1>2. EncoderInv /\ Len(blocks) = 0 /\ Len(decoded) = 0
  BY <1>1, EncoderInit
<1>3. Reach(0) = 0
  BY DEF Reach
<1>4. DataOf(decoded) = Promise!Bytes(0)
  BY <1>2, <1>3, DataFacts
<1>5. Cardinality(Arrived) = 0
  <2>1. Cardinality(Arrived) = Reach(0)
    BY <1>1, <1>2, ArrivedFacts
  <2> QED
    BY <1>3, <2>1
<1> QED
  BY <1>1, <1>4, <1>5 DEF Promise!Init, NotOpened

LEMMA OpenedStep == Lz4Inv /\ NotOpened /\ [Next]_vars => NotOpened'
<1> SUFFICES ASSUME Lz4Inv, NotOpened, [Next]_vars
             PROVE  NotOpened'
  OBVIOUS
<1>1. cpc' = "idle" => cpc = "idle" /\ flen' = flen
  BY DEF Next, vars, ReadStep, Feed, FlushChunk, Finish, EncodeFails, OpenFile, CheckTooShort,
         CheckBlock, CheckEnds, DecodeBlock, DecodeEmpty, DecodeEnds, fileVars, checkVars
<1> QED
  BY <1>1 DEF NotOpened

LEMMA NothingArrived ==
  ASSUME EncoderInv, flen = 0
  PROVE  Cardinality(Arrived) = 0
<1>1. Len(blocks) \in Nat /\ \A k \in 1 .. Len(blocks) : End(blocks[k]) > 0
  BY BlockTypes DEF EncoderInv
<1>2. Cardinality(Arrived) = Reach(0)
  BY <1>1, ArrivedFacts
<1> QED
  BY <1>2 DEF Reach

LEMMA NothingArrivedNext ==
  (EncoderInv /\ flen = 0)' => (Cardinality(Arrived) = 0)'
<1>1. EncoderInv /\ flen = 0 => Cardinality(Arrived) = 0
  BY NothingArrived
<1> QED
  BY <1>1, PTL

LEMMA ArrivedSomeNext ==
  (EncoderInv /\ flen \in Nat)' => (Cardinality(Arrived) \in 0 .. total)'
<1>1. EncoderInv /\ flen \in Nat => Cardinality(Arrived) \in 0 .. total
  BY ArrivedSome
<1> QED
  BY <1>1, PTL

(* All of the input has arrived with a stream that is closed and not cut.  *)
LEMMA AllArrived ==
  EncoderInv /\ flen \in Nat /\ epc = "closed" /\ flen >= slen
    => Cardinality(Arrived) = total
<1> SUFFICES ASSUME EncoderInv, flen \in Nat, epc = "closed", flen >= slen
             PROVE  Cardinality(Arrived) = total
  OBVIOUS
<1>1. PICK n \in Nat : n = Len(blocks)
  BY ReachFacts
<1>2. /\ slen = (IF n = 0 THEN 4 ELSE End(blocks[n])) /\ slen \in Nat
      /\ \A k \in 1 .. n : End(blocks[k]) \in Nat /\ blocks[k].at < End(blocks[k])
                           /\ blocks[k].at \in Nat
      /\ \A j, k \in 1 .. n : j < k => End(blocks[j]) <= blocks[k].at
  <2>1. Lz4TypeOK /\ slen \in Nat /\ slen = Behind(n)
    BY <1>1 DEF EncoderInv, BlocksInStream, Lz4TypeOK
  <2>2. \A k \in 1 .. n : End(blocks[k]) \in Nat /\ blocks[k].at \in Nat
                           /\ End(blocks[k]) = blocks[k].at + 4 + blocks[k].packed
                           /\ blocks[k].packed \in Nat
    BY <1>1, <2>1, BlockTypes
  <2>3. \A k \in 1 .. n : blocks[k].at < End(blocks[k])
    BY <2>2
  <2>4. \A j, k \in 1 .. n : j < k => End(blocks[j]) <= blocks[k].at
    BY <1>1 DEF EncoderInv, BlocksInStream
  <2> QED
    BY <2>1, <2>2, <2>3, <2>4 DEF Behind
<1>3. ASSUME NEW k \in 1 .. n
      PROVE  End(blocks[k]) <= flen
  <2>1. n \in 1 .. n /\ slen = End(blocks[n])
    BY <1>2
  <2>2. k = n \/ End(blocks[k]) <= blocks[n].at
    BY <1>2, <2>1
  <2> QED
    BY <1>2, <2>1, <2>2
<1>4. Cardinality(Arrived) = Reach(n)
  BY <1>1, <1>3, ArrivedFacts
<1> QED
  BY <1>1, <1>4, ReachFacts

LEMMA AllArrivedNext ==
  (EncoderInv /\ flen \in Nat /\ epc = "closed" /\ flen >= slen)'
    => (Cardinality(Arrived) = total)'
  BY AllArrived, PTL

(* The decoder has the beginning of the input. *)
LEMMA ReadSoFar ==
  ASSUME Lz4Inv
  PROVE  /\ Len(decoded) \in 0 .. Len(blocks)
         /\ DataOf(decoded) = Promise!Bytes(Reach(Len(decoded)))
<1>1. /\ EncoderInv /\ Len(decoded) \in 0 .. Len(blocks)
      /\ \A k \in 1 .. Len(decoded) : decoded[k] = blocks[k]
  BY BlockTypes DEF Lz4Inv, EncoderInv, ReaderInv, DecoderInv, Lz4TypeOK
<1> QED
  BY <1>1, DataFacts

LEMMA ReadSoFarNext ==
  Lz4Inv' => (/\ Len(decoded) \in 0 .. Len(blocks)
              /\ DataOf(decoded) = Promise!Bytes(Reach(Len(decoded))))'
<1>1. Lz4Inv => /\ Len(decoded) \in 0 .. Len(blocks)
                /\ DataOf(decoded) = Promise!Bytes(Reach(Len(decoded)))
  BY ReadSoFar
<1> QED
  BY <1>1, PTL

LEMMA EncoderSends ==
  ASSUME Lz4Inv, Lz4Inv', NotOpened, NotOpened',
         \/ \E n \in Pieces : Feed(n)
         \/ FlushChunk \/ Finish \/ EncodeFails
  PROVE  [Promise!Next]_(Promise!streamVars)
<1>1. /\ epc \in {"open", "flushing"} /\ total' >= total
      /\ UNCHANGED <<flen, trailer, dpc, doff, decoded, cpc, coff>>
  BY PiecesAssumption DEF Feed, FlushChunk, Finish, EncodeFails, fileVars, decoderVars,
     checkVars, Lz4Inv, EncoderInv, Lz4TypeOK
<1>2. cpc = "idle" /\ dpc = "idle" /\ flen = 0
  BY <1>1 DEF Lz4Inv, ReaderInv, FileInv, CheckInv, NotOpened
<1>3. Cardinality(Arrived) = 0
  BY <1>2, NothingArrived DEF Lz4Inv
<1>4. (Cardinality(Arrived))' = 0
  BY <1>1, <1>2, NothingArrivedNext DEF Lz4Inv
<1>5. (DataOf(decoded))' = DataOf(decoded)
  BY <1>1 DEF DataOf
<1>6. total \in Nat /\ total' \in Nat
  BY DEF Lz4Inv, EncoderInv, Lz4TypeOK
<1>7. CASE total' = total
  BY <1>1, <1>2, <1>3, <1>4, <1>5, <1>7 DEF Promise!streamVars
<1>8. CASE total' # total
  <2>1. Promise!Send
    BY <1>1, <1>2, <1>3, <1>4, <1>5, <1>6, <1>8 DEF Promise!Send
  <2> QED
    BY <2>1 DEF Promise!Next
<1> QED
  BY <1>7, <1>8

LEMMA FilePasses ==
  ASSUME Lz4Inv, Lz4Inv', NotOpened, OpenFile
  PROVE  [Promise!Next]_(Promise!streamVars)
<1>1. /\ cpc = "idle" /\ cpc' = "run" /\ dpc = "idle" /\ dpc' = "idle"
      /\ total' = total /\ decoded' = decoded
  BY DEF OpenFile, encoderVars, decoderVars, Lz4Inv, ReaderInv, CheckInv
<1>2. (DataOf(decoded))' = DataOf(decoded)
  BY <1>1 DEF DataOf
<1>3. EncoderInv' /\ (flen \in Nat)'
  BY DEF Lz4Inv, EncoderInv, Lz4TypeOK
<1>4. CASE epc' = "closed" /\ flen' >= slen'
  <2>1. (Cardinality(Arrived))' = total
    BY <1>1, <1>3, <1>4, AllArrivedNext
  <2>2. Promise!Pass
    BY <1>1, <1>2, <1>4, <2>1 DEF Promise!Pass
  <2> QED
    BY <2>2 DEF Promise!Next
<1>5. CASE ~(epc' = "closed" /\ flen' >= slen')
  <2>1. (Cardinality(Arrived))' \in 0 .. total
    BY <1>1, <1>3, ArrivedSomeNext
  <2>2. Promise!Pass
    BY <1>1, <1>2, <1>5, <2>1 DEF Promise!Pass
  <2> QED
    BY <2>2 DEF Promise!Next
<1> QED
  BY <1>4, <1>5

(* A step that changes neither the stream nor the file. *)
LEMMA ReaderFrame ==
  ASSUME UNCHANGED <<epc, total, blocks, slen, flen>>, cpc # "idle", cpc' # "idle"
  PROVE  /\ (Cardinality(Arrived))' = Cardinality(Arrived)
         /\ (IF cpc = "idle" THEN "no"
             ELSE IF epc = "closed" /\ flen >= slen THEN "whole" ELSE "cut")'
            = (IF cpc = "idle" THEN "no"
               ELSE IF epc = "closed" /\ flen >= slen THEN "whole" ELSE "cut")
         /\ (IF cpc = "idle" THEN "no"
             ELSE IF epc = "closed" /\ flen >= slen THEN "whole" ELSE "cut") # "no"
<1>1. Arrived' = Arrived
  BY DEF Arrived, End, Range
<1> QED
  BY <1>1

LEMMA CheckPasses ==
  ASSUME Lz4Inv, CheckTooShort \/ CheckBlock \/ CheckEnds
  PROVE  UNCHANGED Promise!streamVars
<1>1. /\ UNCHANGED <<epc, total, blocks, slen, flen, decoded>>
      /\ cpc = "run" /\ cpc' # "idle" /\ dpc' \in {"run", dpc}
  BY DEF CheckTooShort, CheckBlock, CheckEnds, encoderVars, fileVars, decoderVars
<1>2. dpc = "idle"
  BY <1>1 DEF Lz4Inv, ReaderInv, CheckInv
<1>3. (DataOf(decoded))' = DataOf(decoded)
  BY <1>1 DEF DataOf
<1> QED
  BY <1>1, <1>2, <1>3, ReaderFrame DEF Promise!streamVars

LEMMA BlockReceived ==
  ASSUME Lz4Inv, Lz4Inv', DecodeBlock
  PROVE  [Promise!Next]_(Promise!streamVars)
<1>1. /\ UNCHANGED <<epc, total, blocks, slen, flen, cpc, coff>>
      /\ dpc = "run" /\ dpc' = "run" /\ cpc # "idle"
  BY DEF DecodeBlock, encoderVars, fileVars, checkVars, Lz4Inv, ReaderInv, CheckInv
<1>2. PICK m \in Nat : m = Len(decoded) /\ m \in 0 .. Len(blocks)
  BY ReadSoFar DEF Lz4Inv, EncoderInv, Lz4TypeOK
<1>3. Len(decoded') = m + 1
  <2>1. PICK b \in BlockAt(doff) : decoded' = Append(decoded, b)
    BY DEF DecodeBlock
  <2>2. decoded \in Seq(Block) /\ b \in Block
    BY DEF BlockAt, Range, Lz4Inv, EncoderInv, Lz4TypeOK
  <2> QED
    BY <1>2, <2>1, <2>2, AppendProperties
<1>4. PICK k \in Nat : k = m + 1
  OBVIOUS
<1>5. k \in 1 .. Len(blocks) /\ Reach(k)' = Reach(k)
      /\ (DataOf(decoded))' = Promise!Bytes(Reach(k))
  <2>1. Len(decoded') = k
    BY <1>3, <1>4
  <2>2. Len(decoded') \in 0 .. Len(blocks') /\ (DataOf(decoded))' = (Promise!Bytes(Reach(Len(decoded))))'
    BY ReadSoFarNext
  <2>3. Reach(Len(decoded))' = Reach(k)
    BY <1>1, <2>1 DEF Reach
  <2>4. (Promise!Bytes(Reach(Len(decoded))))' = Promise!Bytes(Reach(k))
    BY <2>3 DEF Promise!Bytes
  <2>5. Reach(k)' = Reach(k)
    BY <1>1 DEF Reach
  <2> QED
    BY <1>1, <1>2, <1>4, <2>1, <2>2, <2>4, <2>5
<1>6. End(blocks[k]) <= flen
  <2>1. doff' = Behind(k) \/ (total = 0 /\ doff' = slen + 4)
    <3>1. Behind(Len(decoded))' = Behind(k)
      BY <1>1, <1>3, <1>4 DEF Behind, End
    <3> QED
      BY <1>1, <3>1 DEF Lz4Inv, ReaderInv, DecoderInv
  <2>2. doff' <= coff /\ coff <= flen /\ doff' \in Nat /\ coff \in Nat /\ flen \in Nat
    BY <1>1 DEF Lz4Inv, ReaderInv, DecoderInv, CheckInv, EncoderInv, Lz4TypeOK
  <2>3. total # 0
    <3>1. Reach(k - 1) < Reach(k) /\ Reach(k - 1) \in Nat /\ Reach(k) \in Nat
      BY <1>2, <1>4, <1>5, ReachFacts DEF Lz4Inv
    <3>2. Reach(k) <= Reach(Len(blocks)) /\ Reach(Len(blocks)) <= total /\ total \in Nat
          /\ Reach(Len(blocks)) \in Nat
      <4>1. Len(blocks) \in Nat /\ k \in 0 .. Len(blocks) /\ Len(blocks) \in 0 .. Len(blocks)
            /\ k <= Len(blocks)
        BY <1>5, ReachFacts DEF Lz4Inv
      <4> QED
        BY <4>1, ReachFacts DEF Lz4Inv
    <3> QED
      BY <3>1, <3>2
  <2>4. Behind(k) = End(blocks[k])
    BY <1>5 DEF Behind
  <2> QED
    BY <2>1, <2>2, <2>3, <2>4
<1>7. Reach(k) \in 1 .. Cardinality(Arrived)
  BY <1>5, <1>6, ArrivedSome DEF Lz4Inv, EncoderInv, Lz4TypeOK
<1>8. DataOf(decoded) = Promise!Bytes(Reach(m)) /\ Reach(m) < Reach(k) /\ Reach(m) \in Nat
      /\ Reach(k) \in Nat
  <2>1. k - 1 = m /\ m \in 0 .. Len(blocks) /\ k \in 0 .. Len(blocks)
    BY <1>2, <1>4, <1>5
  <2>2. Reach(k - 1) < Reach(k)
    BY <1>5, ReachFacts DEF Lz4Inv
  <2> QED
    BY <1>2, <2>1, <2>2, ReadSoFar, ReachFacts DEF Lz4Inv
<1>9. PICK r \in Nat, q \in Nat : r = Reach(m) /\ q = Reach(k) /\ r < q
  BY <1>8
<1>10. Promise!Bytes(r) # Promise!Bytes(q)
       /\ DOMAIN Promise!Bytes(r) \subseteq DOMAIN Promise!Bytes(q)
  <2>1. DOMAIN Promise!Bytes(r) = 1 .. r /\ DOMAIN Promise!Bytes(q) = 1 .. q
    BY DEF Promise!Bytes
  <2>2. q \in 1 .. q /\ q \notin 1 .. r /\ 1 .. r \subseteq 1 .. q
    BY <1>9
  <2> QED
    BY <2>1, <2>2
<1>11. Promise!Receive
  <2>1. /\ DataOf(decoded) = Promise!Bytes(r) /\ (DataOf(decoded))' = Promise!Bytes(q)
        /\ q \in 1 .. Cardinality(Arrived)
    BY <1>5, <1>7, <1>8, <1>9
  <2>2. total' = total /\ dpc = "run" /\ dpc' = "run"
    BY <1>1
  <2> QED
    BY <1>1, <1>10, <2>1, <2>2, ReaderFrame DEF Promise!Receive
<1> QED
  BY <1>11 DEF Promise!Next

LEMMA DecoderFinishes ==
  ASSUME Lz4Inv, Lz4Inv', DecodeEnds
  PROVE  [Promise!Next]_(Promise!streamVars)
<1>1. /\ UNCHANGED <<epc, total, blocks, slen, flen, cpc, coff, decoded>>
      /\ dpc = "run" /\ dpc' \in {"done", "cut"} /\ cpc # "idle"
  BY DEF DecodeEnds, encoderVars, fileVars, checkVars, Lz4Inv, ReaderInv, CheckInv
<1>2. PICK m : m = Len(decoded)
  OBVIOUS
<1>3. m \in 0 .. Len(blocks) /\ DataOf(decoded) = Promise!Bytes(Reach(m))
  BY <1>2, ReadSoFar
<1>4. /\ \A k \in 1 .. m : End(blocks[k]) <= flen
      /\ \A k \in m + 1 .. Len(blocks) : End(blocks[k]) > flen
  <2>1. DecodesComplete'
    BY DEF Lz4Inv, ReaderInv
  <2>2. \A k : End(blocks[k])' = End(blocks[k])
    BY <1>1 DEF End
  <2> QED
    BY <1>1, <1>2, <2>1, <2>2 DEF DecodesComplete
<1>5. Cardinality(Arrived) = Reach(m)
  BY <1>3, <1>4, ArrivedFacts DEF Lz4Inv, EncoderInv, Lz4TypeOK
<1>6. (DataOf(decoded))' = DataOf(decoded)
  BY <1>1 DEF DataOf
<1>7. Promise!Finish
  BY <1>1, <1>3, <1>5, <1>6, ReaderFrame DEF Promise!Finish
<1> QED
  BY <1>7 DEF Promise!Next

LEMMA StreamStep ==
  Lz4Inv /\ Lz4Inv' /\ NotOpened /\ NotOpened' /\ [Next]_vars
    => [Promise!Next]_(Promise!streamVars)
<1> SUFFICES ASSUME Lz4Inv, Lz4Inv', NotOpened, NotOpened', [Next]_vars
             PROVE  [Promise!Next]_(Promise!streamVars)
  OBVIOUS
<1>1. CASE (\E n \in Pieces : Feed(n)) \/ FlushChunk \/ Finish \/ EncodeFails
  BY <1>1, EncoderSends
<1>2. CASE OpenFile
  BY <1>2, FilePasses
<1>3. CASE CheckTooShort \/ CheckBlock \/ CheckEnds
  BY <1>3, CheckPasses
<1>4. CASE DecodeBlock
  BY <1>4, BlockReceived
<1>5. CASE DecodeEnds
  BY <1>5, DecoderFinishes
<1>6. CASE DecodeEmpty \/ UNCHANGED vars
  <2>1. UNCHANGED <<epc, total, blocks, slen, flen, cpc, dpc, decoded>>
    BY <1>6 DEF DecodeEmpty, vars, encoderVars, fileVars, checkVars, decoderVars
  <2>2. Arrived' = Arrived /\ (DataOf(decoded))' = DataOf(decoded)
    BY <2>1 DEF Arrived, End, Range, DataOf
  <2> QED
    BY <2>1, <2>2 DEF Promise!streamVars
<1> QED
  BY <1>1, <1>2, <1>3, <1>4, <1>5, <1>6 DEF Next, ReadStep

(* The encoder, the file and the decoder together are a Stream, for every  *)
(* size of a chunk, every way of feeding and every cut: the decoder is     *)
(* given the input from its beginning, in order, and stops where the bytes *)
(* of the blocks that are complete in the file end.                        *)
THEOREM Lz4ImplementsStream == Spec => Promise!Safe
<1>1. Init => Lz4Inv /\ NotOpened /\ Promise!Init
  BY Lz4Init, StreamBegins
<1>2. Lz4Inv /\ NotOpened /\ [Next]_vars
      => Lz4Inv' /\ NotOpened' /\ [Promise!Next]_(Promise!streamVars)
  BY Lz4Step, OpenedStep, StreamStep
<1> QED
  BY <1>1, <1>2, PTL DEF Spec, Promise!Safe
=============================================================================
