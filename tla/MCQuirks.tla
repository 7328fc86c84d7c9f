------------------------------ MODULE MCQuirks ------------------------------
(* Quirks over every builder field value the rules tell apart: rates       *)
(* Unspecified and 48000, channel counts Unspecified, 1, 2 and 3, and the  *)
(* SDK versions on each side of O and P.                                   *)
EXTENDS Quirks

MCSampleRates == {0, 48000}
MCChannelCounts == {0, 1, 2, 3}
MCSdkVersions == {25, 26, 27, 28}
=============================================================================
