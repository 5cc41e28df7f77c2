---------------------------- MODULE MCQuicEngine ----------------------------
(* Instances of the engine for TLC.                                        *)
EXTENDS QuicEngineProps, TLC

CONSTANTS r1, r2, h1, h2, badUrl, p1

MCUrlOf == [r \in Requests |-> h1]
MCUrls  == [r \in Requests |-> IF r = r1 THEN h1 ELSE h2]
=============================================================================
