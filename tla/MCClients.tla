------------------------------ MODULE MCClients ------------------------------
EXTENDS Clients, TLC
=============================================================================
