------------------------------- MODULE MCCpio -------------------------------
(***************************************************************************)
(* TLC instance of Cpio: names that normalisation, the loader and the      *)
(* prefix tests treat differently, a regular file and a directory.         *)
(***************************************************************************)
EXTENDS Cpio

MapOrder == <<<<".">>, <<".", "a">>, Trailer, <<"a">>, <<"a", "">>, <<"a", "b">> >>
ArchiveOrder == <<<<".">>, Trailer, <<"a">> >>

LenIn(order) == [n \in {order[j] : j \in DOMAIN order} |->
                   CASE n = Trailer -> 10
                     [] n \in {<<".">>, <<"a">>} -> 1
                     [] n = <<"a", "">> -> 2
                     [] OTHER -> 3]
MapLen == LenIn(MapOrder)
ArchiveLen == LenIn(ArchiveOrder)

MCLens == {5}
MCNewEntries == {[type |-> "reg", data |-> 5, symlink |-> NONE],
                 [type |-> "dir", data |-> NONE, symlink |-> NONE]}

(* The names that are dumped and loaded. *)
ArchiveNames == {<<".">>, Trailer, <<"a">>}

(* The operations on the map are explored for up to three entries of any   *)
(* name, dump and load for up to two with the names above.  Once there is  *)
(* an archive, the map is the one that was dumped or has one entry, and a  *)
(* cut archive is only loaded.                                             *)
Small ==
  arc # <<>> \/ ~Ready =>
    /\ DOMAIN entries \subseteq ArchiveNames
    /\ Cardinality(DOMAIN entries) <= 2

OneAtATime ==
  arc # <<>> /\ Ready =>
    /\ Len(arc) <= 4
    /\ phase = "idle" =>
         entries = dumped \/ (Cardinality(DOMAIN entries) <= 1 /\ ArchiveComplete)

Bounded == Small /\ OneAtATime
=============================================================================
