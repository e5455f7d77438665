----------------------------- MODULE MCMemory -------------------------------
(***************************************************************************)
(* Instances of MemoryStore for TLC: two builds of one application and the *)
(* library both pin, the same edge declared twice and by two attestations, *)
(* the same stamp brought twice, and a key revoked twice.                  *)
(***************************************************************************)
EXTENDS MemoryStore

MCNames == {"app", "lib"}
MCDigests == {"d1", "d2"}
MCLower == [d \in MCDigests |-> d]
MCEnvelopes == {"e1", "e2"}
MCContent == [e \in MCEnvelopes |-> [form |-> "unparseable", sigs |-> <<>>, st |-> NoStatement]]
MCPolicy == [id |-> "p1", builders |-> {"builder"}, sources |-> {"repo"}, from |-> 0, until |-> 10]

MCUploads == {[name |-> "app", sha |-> "d1"], [name |-> "app", sha |-> "d2"],
              [name |-> "lib", sha |-> "d1"]}
MCProofs == {[envelope |-> "e1", acceptedKey |-> "key"]}
Lib(d) == [name |-> "lib", sha |-> d]
MCPinLists == {<<Lib("d1"), Lib("d2"), Lib("d1")>>}
Stamp(t) == [envelope |-> "e1", tsa |-> "tsa", time |-> t]
MCStamps == {Stamp(3), Stamp(5)}
MCEvents == {[key |-> "key", comp |-> 5, version |-> 1], [key |-> "key", comp |-> 4, version |-> 2],
             [key |-> "tsa", comp |-> 1, version |-> 2]}
=============================================================================
