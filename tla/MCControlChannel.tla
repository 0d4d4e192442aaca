-------------------------- MODULE MCControlChannel --------------------------
EXTENDS ControlChannel, TLC

CONSTANTS p1, p2

MCQuota == p1 :> 2 @@ p2 :> 1
=============================================================================
