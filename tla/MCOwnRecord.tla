---------------------------- MODULE MCOwnRecord ----------------------------
EXTENDS OwnRecord

CONSTANTS home, away
=============================================================================
