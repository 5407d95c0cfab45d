---- MODULE MCReadBuffer ----
EXTENDS ReadBuffer
====
