-------------------------------- MODULE Pipe --------------------------------
(***************************************************************************)
(* What a tunnelled connection promises its two ends: each of them may     *)
(* give chunks, which are numbered in the order given, and the other gets  *)
(* them in that order, none twice and none left out.  It does not promise  *)
(* that everything given is got: either end may leave at any time.         *)
(***************************************************************************)
EXTENDS Naturals, Sequences

VARIABLES
  given,   \* how many chunks each direction was given
  got      \* what came out of each direction

vars == <<given, got>>

Dirs == {"up", "down"}

\* A connection may be taken over after some of its input has been read.
Init ==
  /\ given \in [Dirs -> Nat]
  /\ got = [d \in Dirs |-> <<>>]

Give(d) ==
  /\ given' = [given EXCEPT ![d] = @ + 1]
  /\ UNCHANGED got

Get(d) ==
  /\ Len(got[d]) < given[d]
  /\ got' = [got EXCEPT ![d] = Append(@, Len(@) + 1)]
  /\ UNCHANGED given

Next == \E d \in Dirs : Give(d) \/ Get(d)

Spec == Init /\ [][Next]_vars

=============================================================================
