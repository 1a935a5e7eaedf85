------------------------------ MODULE MCScripts ------------------------------
EXTENDS AcceptanceScripts

CONSTANTS b1, b2, b3, b4

MCBuyers == {b1, b2, b3, b4}
MCTokens == {1, 2, 3}
=============================================================================
