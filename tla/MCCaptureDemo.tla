--------------------------- MODULE MCCaptureDemo ----------------------------
(* Small instance of CaptureDemo: every short extension, well formed or not. *)
EXTENDS CaptureDemo

MCData == {<<0, lo>> \o body : lo \in 0..6,
                               body \in UNION {[1..n -> 0..1] : n \in 0..4}}
          \cup {<<>>, <<0>>, <<1, 2, 0, 1>>, <<0, 6, 0, 0, 0, 0, 0, 1>>,
                <<0, 4, 0, 0, 0, 1, 0>>, <<0, 4, 0, 1, 0, 0, 0, 0>>}
MCSecond == {<<0, 2, 0, 1>>, <<0, 2, 0, 0>>, <<0, 3, 0, 1, 0>>}

Pqkex(data) == [type |-> "pqkex", data |-> data]
Broken == [type |-> "broken", data |-> <<>>]

MCStrangerHellos ==
    {<<>>, <<[type |-> "known", data |-> <<>>]>>}
    \cup {<<Pqkex(d)>> : d \in MCData}
    \cup {<<Pqkex(d), [type |-> "known", data |-> <<>>], Pqkex(e)>> :
              d \in MCSecond, e \in MCSecond}
    \cup {<<Broken>>}
    \cup {<<Pqkex(d), Broken>> : d \in MCSecond}
    \cup {<<Broken, Pqkex(d)>> : d \in MCSecond}

=============================================================================
