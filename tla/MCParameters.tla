---------------------------- MODULE MCParameters ----------------------------
(* A read-only row that is not persistent, a persistent one with a write    *)
(* window, and one that no longer fits the blob.                            *)
EXTENDS Parameters

MCTable ==
    << [name |-> "kp",    size |-> 4, persistent |-> FALSE, writable |-> FALSE, min |-> 0, max |-> 0],
       [name |-> "pairs", size |-> 1, persistent |-> TRUE,  writable |-> TRUE, min |-> 0, max |-> 1],
       [name |-> "gain",  size |-> 4, persistent |-> TRUE,  writable |-> FALSE, min |-> 0, max |-> 0] >>
==============================================================================
