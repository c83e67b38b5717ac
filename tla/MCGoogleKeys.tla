---------------------------- MODULE MCGoogleKeys ----------------------------
\* GoogleKeys on a small instance: two callbacks, and a key that replaces another
\* one while the cache turns over.
EXTENDS GoogleKeys

CONSTANTS c1, c2
=============================================================================
