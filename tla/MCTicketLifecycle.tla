------------------------- MODULE MCTicketLifecycle -------------------------
EXTENDS TicketLifecycle, TLC

CONSTANTS f1, f2

=============================================================================
