--------------------------- MODULE MCDirectUpload ---------------------------
EXTENDS DirectUpload, TLC

\* Requests and uploads are interchangeable; the two loops are not.
Interchangeable == Permutations(Requests) \cup Permutations(Uploads)
=============================================================================
