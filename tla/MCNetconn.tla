---- MODULE MCNetconn ----
EXTENDS Netconn
====
