----------------------------- MODULE MCRelayer -----------------------------
EXTENDS Relayer

SomeBulks == {<<1>>, <<2, 1>>, <<Invalid, 2>>}
=============================================================================
