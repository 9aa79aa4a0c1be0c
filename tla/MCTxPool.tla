------------------------------ MODULE MCTxPool ------------------------------
(***************************************************************************)
(* Small instances of TxPool: two accounts and a handful of transactions,  *)
(* one of which replaces another and leaves a poor account unable to pay.  *)
(***************************************************************************)
EXTENDS TxPool

CONSTANTS alice, bob

tx(from, nonce, price, cost) ==
    [from |-> from, nonce |-> nonce, price |-> price, cost |-> cost]

MCTx == {tx(alice, 0, 1, 1), tx(alice, 0, 2, 2), tx(alice, 1, 2, 1), tx(alice, 2, 1, 1),
         tx(bob, 0, 2, 1)}
MCBatches == {<<t>> : t \in MCTx}

\* What the safety properties and the steps depend on: events and announced
\* decide neither.
MCView ==
    <<pool, chain, headCh, requests, [next EXCEPT !.events = {}],
      IF reorg.pc \in {"launched", "announce"} THEN [reorg EXCEPT !.events = {}] ELSE reorg,
      journal, restarts>>

\* The instance with a journal: one account, and a batch.
MCFewTx == MCTx \ {tx(alice, 2, 1, 1), tx(bob, 0, 2, 1)}
MCFewBatches == {<<t>> : t \in MCFewTx} \cup {<<tx(alice, 1, 2, 1), tx(alice, 0, 2, 2)>>}
=============================================================================
