------------------------------ MODULE MCReadiness ------------------------------
EXTENDS Readiness

CONSTANTS audit, email
=============================================================================
