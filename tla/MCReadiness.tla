------------------------------ MODULE MCReadiness ------------------------------
EXTENDS Readiness
===============================================================================
