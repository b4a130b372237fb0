----------------------------- MODULE HexReplace -----------------------------
(***************************************************************************)
(* What the command hex-patch promises: "Search and replace hex patterns   *)
(* in a file" (main.rs).  One step replaces the pattern everywhere, in     *)
(* place; how hexpatch.rs gets there is HexPatch.                          *)
(***************************************************************************)
EXTENDS Naturals, Sequences

VARIABLES
  data,     \* the bytes
  from, to, \* the pattern and its replacement, from is <<>> if there is none
  offsets,  \* where it was replaced, in order
  done

vars == <<data, from, to, offsets, done>>

(* The pattern stands at offset p of d. *)
Occurs(d, p) == \A j \in 1 .. Len(from) : d[p + j] = from[j]

(* S are the offsets at which the pattern is replaced: from the left, each *)
(* occurrence that does not begin inside one that is replaced.             *)
IsLeftmost(d, S) ==
  \A p \in 0 .. Len(d) :
    p \in S <=> /\ p + Len(from) <= Len(d) /\ Occurs(d, p)
                /\ \A q \in S : ~(q < p /\ p < q + Len(from))

Apart(o) == \A k \in 1 .. Len(o) - 1 : o[k] + Len(from) <= o[k + 1]

(* The replacement laid over d at the offsets o; where two overlap, as they*)
(* can when it is longer than the pattern, the later one counts.           *)
Covering(o, b) == {k \in DOMAIN o : o[k] < b /\ b <= o[k] + Len(to)}

Overlaid(d, o, new) ==
  /\ DOMAIN new = DOMAIN d
  /\ \A b \in DOMAIN d :
       IF Covering(o, b) = {} THEN new[b] = d[b]
       ELSE \E k \in Covering(o, b) :
              /\ \A m \in Covering(o, b) : m <= k
              /\ new[b] = to[b - o[k]]

Init ==
  /\ {data, from, to} \subseteq Seq(Nat)
  /\ offsets = <<>> /\ done = FALSE

(* A replacement that is not longer than the pattern goes exactly to its   *)
(* leftmost occurrences in what was there; a longer one may hide some of   *)
(* them, or make new ones.                                                 *)
Replace ==
  /\ ~done /\ done' = TRUE
  /\ IF from = <<>> THEN UNCHANGED <<data, offsets>>
     ELSE /\ offsets' \in Seq(0 .. Len(data) - Len(from)) /\ Apart(offsets')
          /\ Overlaid(data, offsets', data')
          /\ Len(to) <= Len(from) =>
               IsLeftmost(data, {offsets'[k] : k \in DOMAIN offsets'})
  /\ UNCHANGED <<from, to>>

Safe == Init /\ [][Replace]_vars

(* It is done at some time. *)
Spec == Safe /\ <>done
=============================================================================
