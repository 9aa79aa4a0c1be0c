-------------------------- MODULE MCBlockPipeline --------------------------
(* Three epochs with two or three events each. *)
EXTENDS BlockPipeline, TLC

MCEvent == {"a1", "b1", "c1", "a2", "b2", "a3"}
MCEpochOf == [a1 |-> 1, b1 |-> 1, c1 |-> 1, a2 |-> 2, b2 |-> 2, a3 |-> 3]
MCParents == [a1 |-> {}, b1 |-> {}, c1 |-> {"a1"}, a2 |-> {}, b2 |-> {"a2"}, a3 |-> {}]
MCLamport == [a1 |-> 1, b1 |-> 1, c1 |-> 2, a2 |-> 1, b2 |-> 2, a3 |-> 1]

Frame(a, applied, t, txs, cheaters, mps, advance) ==
    [atropos |-> a, applied |-> applied, time |-> t, txs |-> txs,
     cheaters |-> cheaters, mps |-> mps, gas |-> 1, advance |-> advance]

\* Epoch 1: a block that asks for one more epoch; an empty frame that is skipped
\* but carries a proof against v2; a block that seals the epoch; a frame that is
\* never reached.  Epoch 2: an empty block that is late enough; the same Atropos
\* again, which sees v3 cheat; a block that seals.  Epoch 3: two blocks.
MCFrames == <<
    <<Frame("A1", TRUE, 5, TRUE, <<>>, <<>>, 1),
      Frame("A2", TRUE, 6, FALSE, <<>>, <<"v2">>, 0),
      Frame("A3", TRUE, 6, TRUE, <<>>, <<>>, 0),
      Frame("A4", TRUE, 7, TRUE, <<>>, <<>>, 0)>>,
    <<Frame("B1", TRUE, 16, FALSE, <<>>, <<>>, 0),
      Frame("B1", FALSE, 0, FALSE, <<"v3">>, <<>>, 0),
      Frame("B2", TRUE, 17, TRUE, <<>>, <<>>, 0)>>,
    <<Frame("C1", TRUE, 18, TRUE, <<>>, <<>>, 0),
      Frame("C2", TRUE, 18, TRUE, <<>>, <<>>, 0)>> >>

MCLastDecided == <<
    [S \in SUBSET {"a1", "b1", "c1"} |-> <<0, 1, 2, 4>>[Cardinality(S) + 1]],
    [S \in SUBSET {"a2", "b2"} |-> <<0, 1, 3>>[Cardinality(S) + 1]],
    [S \in SUBSET {"a3"} |-> 2 * Cardinality(S)]>>
=============================================================================
