--------------------------- MODULE MCLightEntity ---------------------------
(* A bi-colour light with one effect, and the calls that change each thing a   *)
(* turn_on can change: the effect, the mode, the level, the power.             *)
EXTENDS LightEntity

On(look, level) == [kind |-> "on", look |-> look, level |-> level]
Off == [kind |-> "off", look |-> "same", level |-> Keep]

OneEffect == {"flash"}
TwoLevels == {1, 2}
Calls == {On("flash", Keep), On("cct", 2), On("same", 1), Off}
=============================================================================
