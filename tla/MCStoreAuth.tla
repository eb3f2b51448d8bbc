---------------------------- MODULE MCStoreAuth ----------------------------
EXTENDS StoreAuth

MCWorkers == {"w1", "w2"}
=============================================================================
