------------------------------ MODULE MCServer ------------------------------
\* The API process with one address and short windows.
EXTENDS Server
=============================================================================
