------------------------------ MODULE MCRelay -------------------------------
EXTENDS Relay

\* Both directions of one connection, more bytes than a buffer holds.
LimitOne == <<4, 1>>
=============================================================================
