---------------------------- MODULE MCEmailOutbox ----------------------------
EXTENDS EmailOutbox, TLC

CONSTANTS mfa1, mfa2, pass1, w1, w2

MCTypeOf ==
    [j \in Jobs |-> IF j = pass1 THEN "temporary_password" ELSE "mfa_setup"]

=============================================================================
