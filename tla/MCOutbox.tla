------------------------------- MODULE MCOutbox --------------------------------
EXTENDS Outbox

CONSTANTS d1, d2
=============================================================================
