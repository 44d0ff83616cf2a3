------------------------------ MODULE MCPqPsk ------------------------------
(* A small instance of PqPsk. *)
EXTENDS PqPsk

External(id, suite) == [id |-> id, suite |-> suite, type |-> "external", key |-> "right"]
Ticket == [id |-> "ticket", suite |-> "s1", type |-> "ticket", key |-> "right"]

MCModes == {{"psk_dhe"}, {"psk", "psk_dhe"}, {"psk"}}
MCKnown == {[a |-> x, b |-> y] : x \in {"none", "right", "wrong"},
                                 y \in {"none", "right"}}

\* Two peers that run this code.  The second list has an entry that
\* HelloRetryRequest filters out.
TwoPeers ==
    [psks |-> {<<External("a", "s1")>>,
               <<External("b", "s2"), External("a", "s1")>>,
               <<External("a", "s1"), External("b", "s1")>>,
               <<Ticket>>,
               <<External("a", "s1"), Ticket>>},
     known |-> MCKnown, modes |-> MCModes, odd |-> {Nobody}, changes |-> 0]

\* The policies of the two contexts change during the handshake.
PolicyChanges ==
    [psks |-> {<<External("b", "s2"), External("a", "s1")>>},
     known |-> {[a |-> x, b |-> "none"] : x \in {"none", "right", "wrong"}},
     modes |-> {{"psk_dhe"}, {"psk"}}, odd |-> {Nobody}, changes |-> 2]

\* One peer does not run this code.
OddPeer ==
    [psks |-> {<<>>, <<External("a", "s1")>>, <<External("a", "s1"), Ticket>>},
     known |-> {[a |-> x, b |-> "none"] : x \in {"none", "right", "wrong"}},
     modes |-> {{}, {"psk_dhe"}, {"psk", "psk_dhe"}},
     odd |-> {[side |-> s, ids |-> ids, cert |-> cert] :
                  s \in Sides, ids \in SUBSET {"a"}, cert \in BOOLEAN},
     changes |-> 0]

MCScenarios == <<TwoPeers, PolicyChanges, OddPeer>>
=============================================================================
