-------------------------- MODULE MCNavigator20Web --------------------------
EXTENDS Navigator20Web
CONSTANTS a, b, p, q
=============================================================================
