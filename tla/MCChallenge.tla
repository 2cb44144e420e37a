---------------------------- MODULE MCChallenge ----------------------------
\* Challenge and CircuitBreaker on a small instance.
EXTENDS Challenge

CONSTANTS v1, v2
=============================================================================
