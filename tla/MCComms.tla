------------------------------- MODULE MCComms -------------------------------
(* Three entries, of which one names no PDO and two together do not fit.    *)
EXTENDS Comms

MCEntries  == {"small", "large", "private"}
MCMappable == {"small", "large"}
MCSize     == [e \in MCEntries |-> IF e = "large" THEN 2 ELSE 1]
==============================================================================
