----------------------------- MODULE MCLwipSend ------------------------------
EXTENDS LwipSend
=============================================================================
