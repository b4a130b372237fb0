------------------------------- MODULE Stream -------------------------------
(***************************************************************************)
(* What a compressed stream promises to those at its two ends, whatever    *)
(* its format: what is read is what was written, in order and from the     *)
(* beginning, all of it if the stream arrived whole, and otherwise neither *)
(* less nor more than what arrived.  The bytes are numbered from 1.        *)
(***************************************************************************)
EXTENDS Naturals

VARIABLES
  sent,     \* the number of bytes written
  passed,   \* has the stream passed to the reader, "whole" or "cut"?
  arrived,  \* the number of bytes that can be read from it
  read,     \* the bytes the reader has
  over      \* has it come to the end?

streamVars == <<sent, passed, arrived, read, over>>

Bytes(n) == [k \in 1 .. n |-> k]

Init == sent = 0 /\ passed = "no" /\ arrived = 0 /\ read = Bytes(0) /\ over = FALSE

Send ==
  /\ passed = "no"
  /\ sent' \in Nat /\ sent' > sent
  /\ UNCHANGED <<passed, arrived, read, over>>

Pass ==
  /\ passed = "no"
  /\ \/ passed' = "whole" /\ arrived' = sent
     \/ passed' = "cut" /\ arrived' \in 0 .. sent
  /\ UNCHANGED <<sent, read, over>>

Receive ==
  /\ passed # "no" /\ ~over
  /\ \E n \in 1 .. arrived : read # Bytes(n) /\ read' = Bytes(n)
                             /\ DOMAIN read \subseteq DOMAIN read'
  /\ UNCHANGED <<sent, passed, arrived, over>>

Finish ==
  /\ passed # "no" /\ ~over
  /\ read = Bytes(arrived)
  /\ over' = TRUE
  /\ UNCHANGED <<sent, passed, arrived, read>>

Next == Send \/ Pass \/ Receive \/ Finish

Safe == Init /\ [][Next]_streamVars

(* Reading comes to an end, however the stream was cut.                    *)
Spec == Safe /\ (passed # "no" ~> over)
=============================================================================
