----------------------------- MODULE MCStunFinder -----------------------------
EXTENDS StunFinder

CONSTANTS s1, s2, s3, e1, e2

=============================================================================
