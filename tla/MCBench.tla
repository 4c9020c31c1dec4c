------------------------------ MODULE MCBench ------------------------------
EXTENDS Bench
=============================================================================
