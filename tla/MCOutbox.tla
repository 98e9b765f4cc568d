------------------------------ MODULE MCOutbox ------------------------------
EXTENDS Outbox, TLC
MCAction == 1..2
MCOneAction == 1..1
=============================================================================
