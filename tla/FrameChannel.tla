---------------------------- MODULE FrameChannel ----------------------------
(***************************************************************************)
(* What the bridge promises in each direction, seen from outside: frames   *)
(* are numbered as they are offered; an offered frame is either taken into *)
(* the channel or dropped there and then; the frames taken come out whole, *)
(* once each and in order.  Once it was disturbed the channel may also     *)
(* lose frames it has taken, but still never alters, repeats or reorders   *)
(* one.                                                                    *)
(***************************************************************************)
EXTENDS Naturals

VARIABLES latest,      \* the number of frames offered
          channel,     \* the set of frames taken and not yet delivered
          delivered,   \* the frames delivered, each at a moment of its own
          disturbed    \* whether frames taken may be lost

vars == <<latest, channel, delivered, disturbed>>

Init ==
    /\ latest = 0
    /\ channel = {}
    /\ delivered = [moment \in {} |-> 0]
    /\ disturbed = FALSE

Offer ==
    /\ latest' = latest + 1
    /\ channel' \in {channel, channel \cup {latest'}}
    /\ UNCHANGED <<delivered, disturbed>>

\* The frame comes out after all that came out before.
ComesOut(id) ==
    \E moment \in DOMAIN delivered' :
        /\ \A earlier \in DOMAIN delivered : earlier < moment
        /\ delivered' = [at \in DOMAIN delivered \cup {moment} |->
                            IF at = moment THEN id ELSE delivered[at]]

\* Frames come out in the order they were offered.
Deliver ==
    /\ \E id \in channel :
          /\ \A other \in channel : id <= other
          /\ channel' = channel \ {id}
          /\ ComesOut(id)
    /\ disturbed' \in {disturbed, TRUE}
    /\ UNCHANGED latest

Lose ==
    /\ disturbed' = TRUE
    /\ channel' \in SUBSET channel
    /\ UNCHANGED <<latest, delivered>>

Next == Offer \/ Deliver \/ Lose

Spec == Init /\ [][Next]_vars
=============================================================================
