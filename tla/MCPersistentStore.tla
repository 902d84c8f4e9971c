------------------------- MODULE MCPersistentStore -------------------------
(* The store with two-word payloads whose halves all differ, so that a     *)
(* record mixed from two of them is recognisable.                          *)
EXTENDS PersistentStore

MCWord    == {"u", "v"}
MCPayload == {<<"u", "u">>, <<"v", "v">>}
=============================================================================
