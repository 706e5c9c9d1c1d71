------------------------------ MODULE MCUpgrade -----------------------------
EXTENDS Upgrade
=============================================================================
