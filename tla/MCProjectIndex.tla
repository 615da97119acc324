--------------------------- MODULE MCProjectIndex ---------------------------
(* Requests for TLC; each .cfg chooses which kinds take part.              *)
EXTENDS ProjectIndex

CONSTANTS i1, i2, s1, s2, t1, k1, w1
=============================================================================
