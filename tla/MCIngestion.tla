---------------------------- MODULE MCIngestion ----------------------------
\* Ingestion on a small instance.  Requests are interchangeable.  The descriptors
\* lie on both sides of every limit of Validate.
EXTENDS Ingestion, TLC

Symmetry == Permutations(Requests)

Good == [primary |-> TRUE, wellNamed |-> TRUE, source |-> "git", rto |-> 10, rpo |-> 60,
         standbys |-> 1]

MCDescriptors ==
    {Good, [Good EXCEPT !.source = "image", !.rto = 300, !.rpo = 1],
     [Good EXCEPT !.primary = FALSE], [Good EXCEPT !.wellNamed = FALSE],
     [Good EXCEPT !.source = "zip"], [Good EXCEPT !.standbys = 0],
     [Good EXCEPT !.rto = 9], [Good EXCEPT !.rto = 301],
     [Good EXCEPT !.rpo = 0], [Good EXCEPT !.rpo = 61]}
=============================================================================
