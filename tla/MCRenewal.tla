----------------------------- MODULE MCRenewal -----------------------------
EXTENDS Renewal

MCLadder == <<0, 1>>
=============================================================================
