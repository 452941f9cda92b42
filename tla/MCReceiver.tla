----------------------------- MODULE MCReceiver -----------------------------
EXTENDS Receiver

BidirConfig == [bidir |-> TRUE, numPkts |-> MaxChunk + 1]
PlainConfig == [bidir |-> FALSE, numPkts |-> MaxChunk + 1]

OnlyBidir == {BidirConfig}
BothModes == {BidirConfig, PlainConfig}
NoSync == {}

\* Every answer is the chunk that was asked for.
RelaysKeepPromises ==
  Init /\ [][Next /\ \A k \in Chunk : RespArrives(k) => k \in asked]_vars
=============================================================================
