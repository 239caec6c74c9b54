------------------------------ MODULE MCReads ------------------------------
\* A small instance of Reads for TLC: three tasks at two places, so that some
\* tasks are tied and others are not.
EXTENDS Reads, TLC
=============================================================================
