---------------------------- MODULE MCTxHistory ----------------------------
EXTENDS TxHistory
=============================================================================
