-------------------------- MODULE MCDocumentService --------------------------
(* Instances of DocumentService for TLC. *)
EXTENDS DocumentService, TLC

CONSTANTS r1, r2, r3, d1, d2, w1, w2

ThreeRequests == {r1, r2, r3}
OneDoc  == {d1}
TwoDocs == {d1, d2}
TwoWorkers == {w1, w2}

ContentOps == {"ingest", "upload", "download"}
EitherBucket == BOOLEAN
BucketThere  == {TRUE}
NoBucket     == {FALSE}

SearchOps  == {"ingest", "search"}

Symmetry == Permutations(Requests) \cup Permutations(Docs) \cup Permutations(Workers)
=============================================================================
