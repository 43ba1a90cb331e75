----------------------------- MODULE MCCoinSync -----------------------------
EXTENDS CoinSync
=============================================================================
