----------------------------- MODULE MCPolling ------------------------------
EXTENDS Polling
=============================================================================
