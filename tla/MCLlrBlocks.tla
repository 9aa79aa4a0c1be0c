---------------------------- MODULE MCLlrBlocks ----------------------------
(* Instances of LlrBlocks: three validators of weight 1, 1 and 2. *)
EXTENDS LlrBlocks, TLC

MCEpoch == 1..2
MCIndex == 0..2
MCOwnHash == [b \in Block |-> "h"]
MCIdx == [g \in MCEpoch |-> [v1 |-> 0, v2 |-> 1, v3 |-> 2]]
WeightOf == <<1, 1, 2>>
MCW == [g \in MCEpoch |-> [S \in SUBSET MCIndex |->
           MapThenSumSet(LAMBDA i : WeightOf[i + 1], S)]]

Votes(c, g, n, e, s, vs) ==
    [creator |-> c, signed |-> g, seq |-> n, epoch |-> e, start |-> s, votes |-> vs]

\* v1 votes for both blocks in one batch; v2 signs a wrong record for block 1 in
\* two events; the votes of v3 are signed in the next epoch.
VotesBVs == {
    Votes("v1", 1, 1, 1, 1, <<"h", "h">>),
    Votes("v2", 1, 1, 1, 1, <<"w">>),
    Votes("v2", 1, 2, 1, 1, <<"w", "h">>),
    Votes("v3", 2, 1, 1, 1, <<"h", "h">>)}

\* v3 decides alone; its votes for the last blocks come in a batch of their own.
FillBVs == {
    Votes("v3", 1, 1, 1, 1, <<"h">>),
    Votes("v3", 1, 2, 1, 2, <<"h", "h">>)}

\* The stakes change from epoch 1 to epoch 2, and so does the order of the group
\* (by weight): v2 overtakes v1.  v1 signs its votes for the blocks of epoch 1
\* in epoch 1, v2 in epoch 2.
ReorderIdx == <<[v1 |-> 0, v2 |-> 1, v3 |-> 2], [v2 |-> 0, v1 |-> 1, v3 |-> 2]>>
ReorderWeight == <<<<2, 1, 1>>, <<3, 2, 1>>>>
ReorderW == [g \in MCEpoch |-> [S \in SUBSET MCIndex |->
                MapThenSumSet(LAMBDA i : ReorderWeight[g][i + 1], S)]]
ReorderBVs == {
    Votes("v1", 1, 1, 1, 1, <<"h", "h">>),
    Votes("v2", 2, 1, 1, 1, <<"h", "h">>)}
=============================================================================
