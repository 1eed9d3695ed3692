-------------------------- MODULE MCOperatorObserver --------------------------
EXTENDS OperatorObserver, TLC

CONSTANTS node, brain

OwnClaims == (node :> {node}) @@ (brain :> {brain})
=============================================================================
