----------------------------- MODULE LossyFifo -----------------------------
(***************************************************************************)
(* What a subscriber may rely on: of the responses offered to its          *)
(* connection it gets some, each at most once and in the order they were   *)
(* offered.  Responses are numbered in that order.                         *)
(***************************************************************************)
EXTENDS Integers, Sequences, SequencesExt

VARIABLES offered,   \* how many responses were offered
          delivered  \* the responses written to the wire

fifoVars == <<offered, delivered>>

Ascending(s, n) ==
  /\ \A i \in 1..Len(s) : s[i] \in 1..n
  /\ \A i, j \in 1..Len(s) : i < j => s[i] < s[j]

Init == offered = 0 /\ delivered = <<>>

Next ==
  /\ offered' \in {offered, offered + 1}
  /\ IsPrefix(delivered, delivered')
  /\ Ascending(delivered', offered')

Spec == Init /\ [][Next]_fifoVars
=============================================================================
