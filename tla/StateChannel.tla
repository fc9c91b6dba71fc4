---------------------------- MODULE StateChannel ----------------------------
(***************************************************************************)
(* What a receiving module promises to the processes that poll its ring    *)
(* file: a channel that shows the states of the remote publisher one after *)
(* the other.  It may be late and it may leave states out, but it shows    *)
(* only states that were made, and never goes back to an earlier one.      *)
(***************************************************************************)
EXTENDS Naturals

VARIABLES
    made,  \* states the remote side has made
    seen   \* the state the channel shows, 0 before the first

channelVars == <<made, seen>>

Init == made = 0 /\ seen = 0

Make == made' = made + 1 /\ UNCHANGED seen

Show == seen' \in seen + 1 .. made /\ UNCHANGED made

Next == Make \/ Show

Spec == Init /\ [][Next]_channelVars
=============================================================================
