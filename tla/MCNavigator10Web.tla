-------------------------- MODULE MCNavigator10Web --------------------------
EXTENDS Navigator10Web
CONSTANTS a, b, c, s1, s2, s3
=============================================================================
