------------------------------ MODULE MCCaches ------------------------------
\* The instances of MCIndexer with the answers of the API.
EXTENDS MCIndexer, Caches

=============================================================================
