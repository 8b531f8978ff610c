------------------------ MODULE MCChannelWidthSearch ------------------------
(***************************************************************************)
(* Instances of ChannelWidthSearch: every first guess up to a bound.       *)
(***************************************************************************)
EXTENDS ChannelWidthSearch

NoFixedWidth == -1
AllStarts    == 1..7
EvenStarts   == {2 * k : k \in 1..20}
=============================================================================
