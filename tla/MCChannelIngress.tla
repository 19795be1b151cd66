-------------------------- MODULE MCChannelIngress --------------------------
(***************************************************************************)
(* Instances of ChannelIngress.  A delivery is a pair of an event id and a *)
(* message id, made distinct by a number.                                  *)
(***************************************************************************)
EXTENDS ChannelIngress, TLC

CONSTANTS d1, d2, d3, q1

\* Three deliveries of one message: a plain repetition, and one under a new
\* event id.
RepeatedEventOf == d1 :> "e1" @@ d2 :> "e1" @@ d3 :> "e2"
RepeatedMessageOf == d1 :> "m1" @@ d2 :> "m1" @@ d3 :> "m1"

\* Two messages under ids that agree, the first delivered twice.
StableEventOf == d1 :> "e1" @@ d2 :> "e1" @@ d3 :> "e2"
StableMessageOf == d1 :> "m1" @@ d2 :> "m1" @@ d3 :> "m2"

\* One message delivered twice.
TwiceEventOf == d1 :> "e1" @@ d2 :> "e1"
TwiceMessageOf == d1 :> "m1" @@ d2 :> "m1"
=============================================================================
