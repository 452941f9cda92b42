---------------------------- MODULE MCLifecycle ----------------------------
EXTENDS Lifecycle

\* Two transfers of three packets and one of four, which wraps in a count of 4.
SomeSettings ==
  {[bidir |-> TRUE, size |-> 6, payload |-> 2], [bidir |-> FALSE, size |-> 6, payload |-> 2],
   [bidir |-> TRUE, size |-> 4, payload |-> 1]}
=============================================================================
