------------------------------ MODULE MCPlayer ------------------------------
(* Instances of the player for TLC.                                        *)
EXTENDS Player, TLC

CONSTANTS VideoLength, AudioLength

MCLength == (0 :> VideoLength) @@ (1 :> AudioLength)

MCOne == {<<1>>}
=============================================================================
