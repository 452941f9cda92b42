------------------------------ MODULE MCSender ------------------------------
EXTENDS Sender

\* Requests as the relayer forwards them: at least one entry is still valid.
SomeBulks == {<<Invalid, 1>>, <<2, 0>>}

\* The transfer is started once, and what else calls for a step is a bulk
\* request that comes while it is on.
OneStart ==
  Init /\ [][ /\ Next
              /\ ShellStart => iperfState = "IDLE"
              /\ BulkReqArrives => iperfState = "SENDING"
              /\ ~PktReqArrives ]_vars
=============================================================================
