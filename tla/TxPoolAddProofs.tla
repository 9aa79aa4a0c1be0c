-------------------------- MODULE TxPoolAddProofs ---------------------------
(***************************************************************************)
(* What a call of add and a batch of addTxs do to the transaction pool,    *)
(* for all accounts, transactions, batches and limits: they keep what      *)
(* TxPoolReorgProofs shows of a run, make room before the pool grows past  *)
(* its limits, and let a transaction of a local account give way only to   *)
(* one with its nonce.                                                     *)
(***************************************************************************)
EXTENDS TxPoolReorgProofs

-----------------------------------------------------------------------------
(* Adding a transaction. *)

\* r is p with tx, in place of the transaction of its nonce if there is one.
Inserts(p, tx, isLocal, r) ==
    /\ Good(r) /\ r.state = p.state /\ p.locals \subseteq r.locals
    /\ tx \in All(r) /\ All(r) \subseteq All(p) \cup {tx}
    /\ \A t \in All(p) \ All(r) : Same(tx, t)
    /\ isLocal => r.remotes \subseteq p.remotes

\* A transaction in a list of transactions with different nonces takes the
\* place of the one with its nonce.
OldOf(list, tx) == {t \in list : Same(t, tx)}
NewOf(list, tx) == {t \in list : ~Same(t, tx)} \cup {tx}

LEMMA PutOne ==
    ASSUME NEW list, NEW tx, CanAdd(list, tx)
    PROVE  /\ Added(list, {tx}) = {tx} /\ Replaced(list, {tx}) = OldOf(list, tx)
           /\ Put(list, {tx}) = NewOf(list, tx)
<1>1. Added(list, {tx}) = {tx}
  BY Zenon DEF Added
<1>2. Replaced(list, {tx}) = OldOf(list, tx)
  BY Zenon, <1>1 DEF Replaced, OldOf
<1> QED
  BY Zenon, <1>1, <1>2 DEF Put, OldOf, NewOf

\* Where a pool keeps a transaction it gets.
Holds(p, tx, isLocal, old, r) ==
    /\ ~isLocal => r.localTxs = p.localTxs \ old /\ r.remotes = (p.remotes \ old) \cup {tx}
    /\ isLocal => r.localTxs = (p.localTxs \ old) \cup {tx} /\ r.remotes = p.remotes \ old

\* The lookup set stays right when tx takes the place of old.
LEMMA HoldsCore ==
    ASSUME NEW p, Core(p), NEW tx, tx \notin p.pending \cup p.queue, NEW isLocal,
           ~isLocal => tx.from \notin p.locals,
           NEW old \in SUBSET (p.pending \cup p.queue),
           \A t \in p.pending \cup p.queue : t \in old <=> Same(t, tx),
           NEW r \in Pools, Holds(p, tx, isLocal, old, r), r.locals = p.locals,
           r.pending \cup r.queue = ((p.pending \cup p.queue) \ old) \cup {tx},
           r.pending \cap r.queue = {},
           \A t \in r.queue : r.beats[t.from] # 0
    PROVE  Core(r) /\ (isLocal => r.remotes \subseteq p.remotes)
<1>1. /\ p.localTxs \cup p.remotes = p.pending \cup p.queue
      /\ p.localTxs \cap p.remotes = {}
      /\ \A s, t \in p.pending \cup p.queue : Same(s, t) => s = t
      /\ \A t \in p.remotes : t.from \notin p.locals
  BY Zenon DEF Core
<1>2. tx \notin p.localTxs /\ tx \notin p.remotes
  BY Zenon, <1>1
<1>3. /\ r.localTxs \cup r.remotes = r.pending \cup r.queue
      /\ r.localTxs \cap r.remotes = {}
      /\ \A t \in r.remotes : t.from \notin r.locals
      /\ isLocal => r.remotes \subseteq p.remotes
  <2>1. CASE ~isLocal
    <3>1. r.localTxs = p.localTxs \ old /\ r.remotes = (p.remotes \ old) \cup {tx}
      BY Zenon, <2>1 DEF Holds
    <3>2. r.localTxs \cup r.remotes = r.pending \cup r.queue
      BY <3>1, <1>1
    <3>3. r.localTxs \cap r.remotes = {}
      BY <3>1, <1>1, <1>2
    <3>4. \A t \in r.remotes : t.from \notin r.locals
      BY Zenon, <3>1, <1>1, <2>1
    <3> QED
      BY Zenon, <3>2, <3>3, <3>4, <2>1
  <2>2. CASE isLocal
    <3>1. r.localTxs = (p.localTxs \ old) \cup {tx} /\ r.remotes = p.remotes \ old
      BY Zenon, <2>2 DEF Holds
    <3>2. r.localTxs \cup r.remotes = r.pending \cup r.queue
      BY <3>1, <1>1
    <3>3. r.localTxs \cap r.remotes = {}
      BY <3>1, <1>1, <1>2
    <3>4. \A t \in r.remotes : t.from \notin r.locals
      BY Zenon, <3>1, <1>1
    <3>5. r.remotes \subseteq p.remotes
      BY Zenon, <3>1
    <3> QED
      BY Zenon, <3>2, <3>3, <3>4, <3>5
  <2> QED
    BY Zenon, <2>1, <2>2
<1>4. ASSUME NEW s \in r.pending \cup r.queue, NEW t \in r.pending \cup r.queue, Same(s, t)
      PROVE  s = t
  <2>1. \A x : x \in r.pending \cup r.queue =>
            x = tx \/ (x \in p.pending \cup p.queue /\ ~Same(x, tx))
    BY Zenon
  <2>2. Same(t, s)
    BY Zenon, <1>4 DEF Same
  <2> QED
    BY Zenon, <2>1, <2>2, <1>1, <1>4
<1> QED
  BY Zenon, <1>3, <1>4 DEF Core

\* A transaction that validateTx lets through and that is not in the pool.
Valid(p, tx, isLocal) ==
    /\ tx \in Tx /\ tx \notin All(p)
    /\ p.state.nonce[tx.from] <= tx.nonce /\ tx.cost <= p.state.balance[tx.from]
    /\ ~isLocal => tx.from \notin p.locals

\* A transaction more in the lookup set.
Looked(p, tx, isLocal, r) ==
    /\ r \in Pools /\ r.pending = p.pending /\ r.queue = p.queue
    /\ r.locals = p.locals /\ r.nonces = p.nonces /\ r.state = p.state
    /\ r.beats = p.beats /\ Holds(p, tx, isLocal, {}, r)

LEMMA AllAddFacts ==
    ASSUME NEW p \in Pools, NEW tx \in Tx, NEW isLocal, NEW r, r = AllAdd(p, tx, isLocal)
    PROVE  Looked(p, tx, isLocal, r)
<1>1. CASE isLocal
  <2>1. r = [p EXCEPT !.localTxs = p.localTxs \cup {tx}]
    BY Zenon, <1>1 DEF AllAdd
  <2>2. /\ r \in Pools /\ r.pending = p.pending /\ r.queue = p.queue
        /\ r.locals = p.locals /\ r.nonces = p.nonces /\ r.state = p.state
        /\ r.beats = p.beats /\ r.localTxs = (p.localTxs \ {}) \cup {tx}
        /\ r.remotes = p.remotes \ {}
    BY <2>1 DEF Pools
  <2> QED
    BY Zenon, <2>2, <1>1 DEF Holds, Looked
<1>2. CASE ~isLocal
  <2>1. r = [p EXCEPT !.remotes = p.remotes \cup {tx}]
    BY Zenon, <1>2 DEF AllAdd
  <2>2. /\ r \in Pools /\ r.pending = p.pending /\ r.queue = p.queue
        /\ r.locals = p.locals /\ r.nonces = p.nonces /\ r.state = p.state
        /\ r.beats = p.beats /\ r.localTxs = p.localTxs \ {}
        /\ r.remotes = (p.remotes \ {}) \cup {tx}
    BY <2>1 DEF Pools
  <2> QED
    BY Zenon, <2>2, <1>2 DEF Holds, Looked
<1> QED
  BY Zenon, <1>1, <1>2

\* A pool without old that gets tx.
LEMMA HoldsAfter ==
    ASSUME NEW p, NEW q, NEW tx, NEW isLocal, NEW old, NEW r,
           q.localTxs = p.localTxs \ old, q.remotes = p.remotes \ old,
           Holds(q, tx, isLocal, {}, r)
    PROVE  Holds(p, tx, isLocal, old, r)
<1>1. q.localTxs \ {} = p.localTxs \ old /\ q.remotes \ {} = p.remotes \ old
  BY Zenon
<1> QED
  BY Zenon, <1>1 DEF Holds

LEMMA ReplacePendingFacts ==
    ASSUME NEW p, Good(p), NEW tx, NEW isLocal, Valid(p, tx, isLocal),
           NEW one \in p.pending, Same(one, tx), CanAdd(p.pending, tx),
           NEW r, r = replacePending(p, tx, isLocal)
    PROVE  Inserts(p, tx, isLocal, r)
<1>1. /\ p \in Pools /\ p.pending \cap p.queue = {}
      /\ p.localTxs \cup p.remotes = p.pending \cup p.queue
      /\ \A s, t \in p.pending \cup p.queue : Same(s, t) => s = t
      /\ \A t \in p.queue : p.beats[t.from] # 0
      /\ Core(p) /\ tx \in Tx
  BY Zenon DEF Good, Core, Valid
<1>2. PICK old : old = {t \in p.pending : Same(t, tx)} /\ old = OldOf(p.pending, tx)
  BY Zenon DEF OldOf
<1>3. PICK list : /\ list = {t \in p.pending : ~Same(t, tx)} \cup {tx}
                  /\ list = NewOf(p.pending, tx)
  BY Zenon DEF NewOf
<1>4. Replaced(p.pending, {tx}) = old /\ Put(p.pending, {tx}) = list
  <2>1. old = OldOf(p.pending, tx) /\ list = NewOf(p.pending, tx)
    BY Zenon, <1>2, <1>3
  <2> QED
    BY Zenon, <2>1, PutOne
<1>5. PICK b : b = Beats(p.beats, {}, {tx.from}, Now)
  BY Zenon
<1>6. p.beats \in [Account -> Nat] /\ p.pending \in SUBSET Tx
  BY Zenon, <1>1, PoolTypes
<1>7. BeatsLive(p.beats, {}, {tx.from}, b)
  BY Zenon, <1>5, <1>6, BeatsFacts, OrdersRank
<1>8. b \in [Account -> Nat]
  BY Zenon, <1>7 DEF BeatsLive
<1>9. list \in SUBSET Tx
  BY Zenon, <1>1, <1>3, <1>6
<1>10. PICK p1 : p1 = AllRemove(p, old)
  BY Zenon
<1>11. p1 = [p EXCEPT !.localTxs = p.localTxs \ old, !.remotes = p.remotes \ old]
  BY Zenon, <1>10 DEF AllRemove
<1>12. p \in Pools
  BY Zenon, <1>1
<1>13. /\ p1 \in Pools /\ p1.pending = p.pending /\ p1.queue = p.queue
       /\ p1.locals = p.locals /\ p1.nonces = p.nonces /\ p1.state = p.state
       /\ p1.beats = p.beats
       /\ p1.localTxs = p.localTxs \ old /\ p1.remotes = p.remotes \ old
  BY <1>11, <1>12 DEF Pools
<1>14. PICK q : q = [p1 EXCEPT !.pending = list, !.beats = b]
  BY Zenon
<1>15. /\ q \in Pools /\ q.pending = list /\ q.queue = p1.queue
       /\ q.locals = p1.locals /\ q.nonces = p1.nonces /\ q.state = p1.state
       /\ q.beats = b /\ q.localTxs = p1.localTxs /\ q.remotes = p1.remotes
  BY <1>8, <1>9, <1>13, <1>14 DEF Pools
<1>16. r = AllAdd(q, tx, isLocal)
  <2>1. p1.pending = p.pending /\ p1.beats = p.beats
    BY Zenon, <1>13
  <2> QED
    BY Zenon, <2>1, <1>4, <1>5, <1>10, <1>14 DEF replacePending
<1>17. /\ r \in Pools /\ r.pending = q.pending /\ r.queue = q.queue
       /\ r.locals = q.locals /\ r.nonces = q.nonces /\ r.state = q.state
       /\ r.beats = q.beats /\ Holds(q, tx, isLocal, {}, r)
  <2>1. q \in Pools /\ tx \in Tx
    BY Zenon, <1>1, <1>15
  <2> QED
    BY Zenon, <2>1, <1>16, AllAddFacts DEF Looked
<1>18. /\ r \in Pools /\ r.pending = list /\ r.queue = p.queue
       /\ r.locals = p.locals /\ r.nonces = p.nonces /\ r.state = p.state /\ r.beats = b
  BY Zenon, <1>13, <1>15, <1>17
<1>19. Holds(p, tx, isLocal, old, r)
  <2>1. q.localTxs = p.localTxs \ old /\ q.remotes = p.remotes \ old
    BY Zenon, <1>13, <1>15
  <2> QED
    BY Zenon, <2>1, <1>17, HoldsAfter
<1>20. ASSUME NEW t \in p.pending \cup p.queue PROVE t \in old <=> Same(t, tx)
  <2>1. Same(t, tx) => Same(t, one)
    BY Zenon DEF Same
  <2> QED
    BY Zenon, <2>1, <1>1, <1>2
<1>21. tx \notin p.pending \cup p.queue
  BY Zenon, <1>1 DEF Valid, All
<1>22. r.pending \cup r.queue = ((p.pending \cup p.queue) \ old) \cup {tx}
  <2>1. p.queue \ old = p.queue
    BY Zenon, <1>1, <1>2
  <2>2. list = (p.pending \ old) \cup {tx}
    BY Zenon, <1>2, <1>3
  <2> QED
    BY <2>1, <2>2, <1>18
<1>23. r.pending \cap r.queue = {}
  BY Zenon, <1>1, <1>3, <1>18, <1>21
<1>24. \A t \in r.queue : r.beats[t.from] # 0
  <2> SUFFICES ASSUME NEW t \in p.queue PROVE b[t.from] # 0
    BY Zenon, <1>18
  <2>1. t.from \in Account
    BY Zenon, <1>1, PoolTypes
  <2> QED
    BY Zenon, <2>1, <1>1, <1>7 DEF BeatsLive
<1>25. Core(r) /\ (isLocal => r.remotes \subseteq p.remotes)
  <2>1. old \in SUBSET (p.pending \cup p.queue) /\ (~isLocal => tx.from \notin p.locals)
    BY Zenon, <1>2 DEF Valid
  <2>2. r \in Pools /\ r.locals = p.locals /\ Core(p)
    BY Zenon, <1>1, <1>18
  <2> QED
    BY Zenon, <2>1, <2>2, <1>19, <1>20, <1>21, <1>22, <1>23, <1>24, HoldsCore
<1>26. Usable(r)
  BY Zenon, <1>3, <1>18 DEF Usable, Good, Valid
<1>27. tx.from = one.from /\ tx.nonce = one.nonce
  BY Zenon DEF Same
<1>28. \A t \in p.pending : \E s \in list : s.from = t.from /\ s.nonce = t.nonce
  BY Zenon, <1>3, <1>27 DEF Same
<1>29. \A t \in list : \E s \in p.pending : s.from = t.from /\ s.nonce = t.nonce
  BY Zenon, <1>3, <1>27
<1>30. Filled(r)
  <2>1. ASSUME NEW t \in list, NEW n \in Nat, p.state.nonce[t.from] <= n, n < t.nonce
        PROVE  \E s \in list : s.from = t.from /\ s.nonce = n
    <3>1. PICK u \in p.pending : u.from = t.from /\ u.nonce = t.nonce
      BY Zenon, <1>29
    <3>2. p.state.nonce[u.from] <= n /\ n < u.nonce
      BY Zenon, <2>1, <3>1
    <3>3. PICK s \in p.pending : s.from = u.from /\ s.nonce = n
      BY Zenon, <3>2 DEF Good, Filled
    <3> QED
      BY Zenon, <3>1, <3>3, <1>28
  <2>2. r.pending = list /\ r.state = p.state
    BY Zenon, <1>18
  <2> QED
    BY <2>1, <2>2 DEF Filled
<1>31. Exact(r)
  <2>1. ASSUME NEW a \in Account
        PROVE  /\ p.state.nonce[a] <= p.nonces[a]
               /\ \A t \in list : t.from = a => t.nonce < p.nonces[a]
               /\ \/ p.nonces[a] = p.state.nonce[a]
                  \/ \E t \in list : t.from = a /\ p.nonces[a] = t.nonce + 1
    <3>1. /\ p.state.nonce[a] <= p.nonces[a]
          /\ \A t \in p.pending : t.from = a => t.nonce < p.nonces[a]
          /\ \/ p.nonces[a] = p.state.nonce[a]
             \/ \E t \in p.pending : t.from = a /\ p.nonces[a] = t.nonce + 1
      BY Zenon DEF Good, Exact
    <3>2. ASSUME NEW t \in list, t.from = a PROVE t.nonce < p.nonces[a]
      <4>1. PICK u \in p.pending : u.from = a /\ u.nonce = t.nonce
        BY Zenon, <1>29, <3>2
      <4> QED
        BY Zenon, <4>1, <3>1
    <3>3. ASSUME NEW t \in p.pending, t.from = a, p.nonces[a] = t.nonce + 1
          PROVE  \E s \in list : s.from = a /\ p.nonces[a] = s.nonce + 1
      BY Zenon, <1>28, <3>3
    <3> QED
      BY Zenon, <3>1, <3>2, <3>3
  <2>2. r.pending = list /\ r.state = p.state /\ r.nonces = p.nonces
    BY Zenon, <1>18
  <2> QED
    BY <2>1, <2>2 DEF Exact
<1>32. All(r) = r.pending \cup r.queue /\ All(p) = p.pending \cup p.queue
  BY Zenon, <1>1, <1>25 DEF Core, All
<1>33. tx \in All(r) /\ All(r) \subseteq All(p) \cup {tx}
  BY Zenon, <1>22, <1>32
<1>34. \A t \in All(p) \ All(r) : Same(tx, t)
  <2>1. \A t \in All(p) \ All(r) : t \in old
    BY Zenon, <1>22, <1>32
  <2> QED
    BY Zenon, <2>1, <1>2 DEF Same
<1> QED
  BY Zenon, <1>18, <1>25, <1>26, <1>30, <1>31, <1>33, <1>34 DEF Inserts, Good

\* Goodness does not depend on the queue but through Core.
LEMMA SamePending ==
    ASSUME NEW p, Good(p), NEW r, Core(r),
           r.pending = p.pending, r.state = p.state, r.nonces = p.nonces
    PROVE  Good(r)
<1>1. Usable(r)
  BY DEF Good, Usable
<1>2. Filled(r)
  BY DEF Good, Filled
<1>3. Exact(r)
  BY DEF Good, Exact
<1> QED
  BY Zenon, <1>1, <1>2, <1>3 DEF Good

LEMMA EnqueueOneFacts ==
    ASSUME NEW p, Good(p), NEW tx, NEW isLocal, Valid(p, tx, isLocal),
           \A t \in p.pending : ~Same(t, tx), CanAdd(p.queue, tx),
           NEW r, r = AllAdd(enqueueTx(p, {tx}, Now), tx, isLocal)
    PROVE  Inserts(p, tx, isLocal, r)
<1>1. /\ p \in Pools /\ p.pending \cap p.queue = {}
      /\ p.localTxs \cup p.remotes = p.pending \cup p.queue
      /\ \A t \in p.queue : p.beats[t.from] # 0
      /\ Core(p) /\ tx \in Tx
  BY Zenon DEF Good, Core, Valid
<1>2. PICK old : old = {t \in p.queue : Same(t, tx)} /\ old = OldOf(p.queue, tx)
  BY Zenon DEF OldOf
<1>3. PICK list : /\ list = {t \in p.queue : ~Same(t, tx)} \cup {tx}
                  /\ list = NewOf(p.queue, tx)
  BY Zenon DEF NewOf
<1>4. /\ Replaced(p.queue, {tx}) = old /\ Put(p.queue, {tx}) = list
      /\ Added(p.queue, {tx}) = {tx}
  <2>1. old = OldOf(p.queue, tx) /\ list = NewOf(p.queue, tx)
    BY Zenon, <1>2, <1>3
  <2> QED
    BY Zenon, <2>1, PutOne
<1>5. PICK first : first = {a \in From({tx}) : p.beats[a] = 0}
  BY Zenon
<1>6. PICK b : b = Beats(p.beats, {}, first, Now)
  BY Zenon
<1>7. p.beats \in [Account -> Nat] /\ p.queue \in SUBSET Tx
  BY Zenon, <1>1, PoolTypes
<1>8. BeatsLive(p.beats, {}, first, b)
  BY Zenon, <1>6, <1>7, BeatsFacts, OrdersRank
<1>9. b \in [Account -> Nat] /\ list \in SUBSET Tx
  BY Zenon, <1>1, <1>3, <1>7, <1>8 DEF BeatsLive
<1>10. PICK q : q = enqueueTx(p, {tx}, Now)
  BY Zenon
<1>11. q = [p EXCEPT !.queue = list, !.localTxs = p.localTxs \ old,
                     !.remotes = p.remotes \ old, !.beats = b]
  BY Zenon, <1>4, <1>5, <1>6, <1>10 DEF enqueueTx
<1>12. p \in Pools
  BY Zenon, <1>1
<1>13. /\ q \in Pools /\ q.pending = p.pending /\ q.queue = list
       /\ q.locals = p.locals /\ q.nonces = p.nonces /\ q.state = p.state
       /\ q.beats = b /\ q.localTxs = p.localTxs \ old /\ q.remotes = p.remotes \ old
  BY <1>9, <1>11, <1>12 DEF Pools
<1>14. /\ r \in Pools /\ r.pending = q.pending /\ r.queue = q.queue
       /\ r.locals = q.locals /\ r.nonces = q.nonces /\ r.state = q.state
       /\ r.beats = q.beats /\ Holds(q, tx, isLocal, {}, r)
  <2>1. q \in Pools /\ tx \in Tx /\ r = AllAdd(q, tx, isLocal)
    BY Zenon, <1>1, <1>10, <1>13
  <2> QED
    BY Zenon, <2>1, AllAddFacts DEF Looked
<1>15. /\ r \in Pools /\ r.pending = p.pending /\ r.queue = list
       /\ r.locals = p.locals /\ r.nonces = p.nonces /\ r.state = p.state /\ r.beats = b
  BY Zenon, <1>13, <1>14
<1>16. Holds(p, tx, isLocal, old, r)
  BY Zenon, <1>13, <1>14, HoldsAfter
<1>17. \A t \in p.pending \cup p.queue : t \in old <=> Same(t, tx)
  BY Zenon, <1>2
<1>18. tx \notin p.pending \cup p.queue
  BY Zenon, <1>1 DEF Valid, All
<1>19. r.pending \cup r.queue = ((p.pending \cup p.queue) \ old) \cup {tx}
  <2>1. p.pending \ old = p.pending
    BY Zenon, <1>1, <1>2
  <2>2. list = (p.queue \ old) \cup {tx}
    BY Zenon, <1>2, <1>3
  <2> QED
    BY <2>1, <2>2, <1>15
<1>20. r.pending \cap r.queue = {}
  BY Zenon, <1>1, <1>3, <1>15, <1>18
<1>21. \A t \in r.queue : r.beats[t.from] # 0
  <2> SUFFICES ASSUME NEW t \in list PROVE b[t.from] # 0
    BY Zenon, <1>15
  <2>1. t.from \in Account
    BY Zenon, <1>9, TxTypes
  <2>2. p.beats[t.from] # 0 \/ t.from \in first
    BY Zenon, <1>1, <1>3, <1>5 DEF From
  <2> QED
    BY Zenon, <2>1, <2>2, <1>8 DEF BeatsLive
<1>22. Core(r) /\ (isLocal => r.remotes \subseteq p.remotes)
  <2>1. old \in SUBSET (p.pending \cup p.queue) /\ (~isLocal => tx.from \notin p.locals)
    BY Zenon, <1>2 DEF Valid
  <2>2. r \in Pools /\ r.locals = p.locals /\ Core(p)
    BY Zenon, <1>1, <1>15
  <2> QED
    BY Zenon, <2>1, <2>2, <1>16, <1>17, <1>18, <1>19, <1>20, <1>21, HoldsCore
<1>23. Good(r)
  BY Zenon, <1>15, <1>22, SamePending
<1>24. All(r) = r.pending \cup r.queue /\ All(p) = p.pending \cup p.queue
  BY Zenon, <1>1, <1>22 DEF Core, All
<1>25. tx \in All(r) /\ All(r) \subseteq All(p) \cup {tx}
  BY Zenon, <1>19, <1>24
<1>26. \A t \in All(p) \ All(r) : Same(tx, t)
  <2>1. \A t \in All(p) \ All(r) : t \in old
    BY Zenon, <1>19, <1>24
  <2> QED
    BY Zenon, <2>1, <1>2 DEF Same
<1> QED
  BY Zenon, <1>15, <1>22, <1>23, <1>25, <1>26 DEF Inserts

\* txLookup.RemoteToLocals moves transactions, no more.
LEMMA MarkLocalFacts ==
    ASSUME NEW p, Good(p), NEW a \in Account, NEW r, r = markLocal(p, a)
    PROVE  /\ Good(r) /\ r.state = p.state /\ p.locals \subseteq r.locals
           /\ All(r) = All(p) /\ r.remotes \subseteq p.remotes
<1>1. /\ p \in Pools
      /\ p.localTxs \cap p.remotes = {}
      /\ Core(p)
  BY Zenon DEF Good, Core
<1>2. PICK moved : moved = {tx \in p.remotes : tx.from \in p.locals \cup {a}}
  BY Zenon
<1>3. r = [p EXCEPT !.locals = p.locals \cup {a}, !.remotes = p.remotes \ moved,
                    !.localTxs = p.localTxs \cup moved]
  BY Zenon, <1>2 DEF markLocal
<1>4. p.remotes \in SUBSET Tx /\ moved \in SUBSET p.remotes /\ moved \in SUBSET Tx
  BY Zenon, <1>1, <1>2, PoolTypes
<1>5. /\ r \in Pools /\ r.pending = p.pending /\ r.queue = p.queue
      /\ r.locals = p.locals \cup {a} /\ r.nonces = p.nonces /\ r.state = p.state
      /\ r.beats = p.beats
      /\ r.localTxs = p.localTxs \cup moved /\ r.remotes = p.remotes \ moved
  <2>1. p \in Pools
    BY Zenon, <1>1
  <2>2. PICK l, t : l = p.locals \cup {a} /\ t = p.localTxs \cup moved
    BY Zenon
  <2>3. l \in SUBSET Account /\ t \in SUBSET Tx
    BY <2>1, <2>2, <1>4, PoolTypes
  <2>4. r = [p EXCEPT !.locals = l, !.remotes = p.remotes \ moved, !.localTxs = t]
    BY Zenon, <2>2, <1>3
  <2>5. /\ r \in Pools /\ r.pending = p.pending /\ r.queue = p.queue
        /\ r.locals = l /\ r.nonces = p.nonces /\ r.state = p.state
        /\ r.beats = p.beats /\ r.localTxs = t /\ r.remotes = p.remotes \ moved
    BY <2>1, <2>3, <2>4 DEF Pools
  <2> QED
    BY Zenon, <2>2, <2>5
<1>6. /\ r.localTxs \cup r.remotes = p.localTxs \cup p.remotes
      /\ r.localTxs \cap r.remotes = {}
  BY <1>1, <1>4, <1>5
<1>7. \A tx \in r.remotes : tx.from \notin r.locals
  BY Zenon, <1>2, <1>5
<1>8. Core(r)
  BY Zenon, <1>1, <1>5, <1>6, <1>7 DEF Core
<1>9. Good(r)
  BY Zenon, <1>5, <1>8, SamePending
<1>10. r.remotes \subseteq p.remotes /\ p.locals \subseteq r.locals
  BY Zenon, <1>5
<1> QED
  BY Zenon, <1>5, <1>6, <1>9, <1>10 DEF All

LEMMA InsertFacts ==
    ASSUME NEW p, Good(p), NEW tx, NEW local, NEW isLocal, Valid(p, tx, isLocal),
           local => isLocal, insert(p, tx, local, isLocal).ok
    PROVE  Inserts(p, tx, isLocal, insert(p, tx, local, isLocal).p)
<1>1. PICK q : q = AllAdd(enqueueTx(p, {tx}, Now), tx, isLocal)
  BY Zenon
<1>2. PICK r : r = insert(p, tx, local, isLocal)
  BY Zenon
<1>3. CASE \E old \in p.pending : Same(old, tx)
  <2>1. r = [ok |-> CanAdd(p.pending, tx), replaced |-> TRUE,
             event |-> {tx}, p |-> replacePending(p, tx, isLocal)]
    BY Zenon, <1>2, <1>3 DEF insert
  <2>2. r.ok = CanAdd(p.pending, tx) /\ r.p = replacePending(p, tx, isLocal)
    BY Zenon, <2>1
  <2>3. CanAdd(p.pending, tx)
    BY Zenon, <2>2, <1>2
  <2> QED
    BY Zenon, <2>2, <2>3, <1>2, <1>3, ReplacePendingFacts
<1>4. CASE ~\E old \in p.pending : Same(old, tx)
  <2>1. r = [ok |-> CanAdd(p.queue, tx),
             replaced |-> \E old \in p.queue : Same(old, tx), event |-> {},
             p |-> IF local /\ tx.from \notin p.locals THEN markLocal(q, tx.from) ELSE q]
    BY Zenon, <1>1, <1>2, <1>4 DEF insert
  <2>2. /\ r.ok = CanAdd(p.queue, tx)
        /\ r.p = IF local /\ tx.from \notin p.locals THEN markLocal(q, tx.from) ELSE q
    BY Zenon, <2>1
  <2>3. CanAdd(p.queue, tx)
    BY Zenon, <2>2, <1>2
  <2>4. Inserts(p, tx, isLocal, q)
    BY Zenon, <2>3, <1>1, <1>4, EnqueueOneFacts
  <2>5. CASE r.p = q
    BY Zenon, <2>4, <2>5, <1>2
  <2>6. CASE r.p = markLocal(q, tx.from)
    <3>1. Good(q) /\ tx.from \in Account
      BY Zenon, <2>4, TxTypes DEF Inserts, Valid
    <3>2. /\ Good(r.p) /\ r.p.state = q.state /\ q.locals \subseteq r.p.locals
          /\ All(r.p) = All(q) /\ r.p.remotes \subseteq q.remotes
      BY Zenon, <3>1, <2>6, MarkLocalFacts
    <3>3. Inserts(p, tx, isLocal, r.p)
      BY Zenon, <3>2, <2>4 DEF Inserts
    <3> QED
      BY Zenon, <3>3, <1>2
  <2> QED
    BY Zenon, <2>2, <2>5, <2>6
<1> QED
  BY Zenon, <1>3, <1>4

\* The pool holds no more than the sum of its limits while a remote
\* transaction is left to drop.
Room(p) == Cardinality(All(p)) <= GlobalSlots + GlobalQueue \/ p.remotes = {}

\* What a call of add keeps: a transaction of a local account stays, or gives
\* way to one with its nonce.
Keeps(p, r) ==
    /\ p.locals \subseteq r.locals
    /\ \A t \in All(p) : t.from \in p.locals => \E s \in All(r) : Same(s, t)

Steps(p, r) == Good(r) /\ r.state = p.state /\ Keeps(p, r) /\ Room(r)

LEMMA KeepsTransitive ==
    ASSUME NEW p, NEW q, NEW r, Keeps(p, q), Keeps(q, r)
    PROVE  Keeps(p, r)
<1>1. p.locals \subseteq q.locals /\ q.locals \subseteq r.locals
  BY Zenon DEF Keeps
<1>2. ASSUME NEW t \in All(p), t.from \in p.locals PROVE \E s \in All(r) : Same(s, t)
  <2>1. PICK u \in All(q) : Same(u, t)
    BY Zenon, <1>2 DEF Keeps
  <2>2. u.from \in q.locals
    BY Zenon, <2>1, <1>1, <1>2 DEF Same
  <2>3. PICK s \in All(r) : Same(s, u)
    BY Zenon, <2>2 DEF Keeps
  <2>4. Same(s, t)
    BY Zenon, <2>1, <2>3 DEF Same
  <2> QED
    BY Zenon, <2>4
<1> QED
  BY Zenon, <1>1, <1>2 DEF Keeps

LEMMA StepsItself ==
    ASSUME NEW p, Good(p), Room(p)
    PROVE  Steps(p, p)
<1>1. \A t : Same(t, t)
  BY Zenon DEF Same
<1> QED
  BY Zenon, <1>1 DEF Steps, Keeps

LEMMA StepsTransitive ==
    ASSUME NEW p, NEW q, NEW r, Steps(p, q), Steps(q, r)
    PROVE  Steps(p, r)
<1>1. Keeps(p, r)
  BY Zenon, KeepsTransitive DEF Steps
<1> QED
  BY Zenon, <1>1 DEF Steps

LEMMA AllFinite ==
    ASSUME NEW p, Core(p)
    PROVE  /\ IsFiniteSet(All(p)) /\ Cardinality(All(p)) \in Nat
           /\ All(p) \in SUBSET Tx /\ All(p) = p.pending \cup p.queue
           /\ p.remotes \in SUBSET All(p) /\ IsFiniteSet(p.remotes)
           /\ Cardinality(p.remotes) \in Nat
<1>1. All(p) = p.pending \cup p.queue
  BY Zenon DEF Core, All
<1>2. All(p) \in SUBSET Tx
  BY Zenon, <1>1, PoolTypes DEF Core
<1>3. p.remotes \in SUBSET All(p)
  BY Zenon DEF All
<1>4. IsFiniteSet(All(p)) /\ IsFiniteSet(p.remotes)
  BY Zenon, <1>2, <1>3, TxTypes, FS_Subset
<1> QED
  BY Zenon, <1>1, <1>2, <1>3, <1>4, FS_CardinalityType

LEMMA OverflowFacts ==
    ASSUME NEW p, Core(p)
    PROVE  /\ Overflow(p) \in Nat
           /\ Overflow(p) = 0 => Cardinality(All(p)) + 1 <= GlobalSlots + GlobalQueue
           /\ Overflow(p) # 0 =>
                  Overflow(p) = Cardinality(All(p)) + 1 - (GlobalSlots + GlobalQueue)
<1>1. PICK k : k = Cardinality(All(p)) + 1 - (GlobalSlots + GlobalQueue)
  BY Zenon
<1>2. Cardinality(All(p)) \in Nat /\ GlobalSlots \in Nat /\ GlobalQueue \in Nat
  BY Zenon, AllFinite, LimitTypes
<1>3. k \in Int
  BY <1>1, <1>2
<1>4. \E x \in {0, k} : \A y \in {0, k} : x >= y
  BY <1>3
<1>5. Overflow(p) = CHOOSE x \in {0, k} : \A y \in {0, k} : x >= y
  BY Zenon, <1>1 DEF Overflow, Max
<1>6. Overflow(p) \in {0, k} /\ \A y \in {0, k} : Overflow(p) >= y
  BY Zenon, <1>4, <1>5
<1>7. PICK n : n = Overflow(p)
  BY Zenon
<1>8. (n = 0 \/ n = k) /\ n >= 0 /\ n >= k
  BY Zenon, <1>6, <1>7
<1>9. n \in Nat /\ (n = 0 => k <= 0) /\ (n # 0 => n = k)
  BY <1>3, <1>8
<1>10. k <= 0 => Cardinality(All(p)) + 1 <= GlobalSlots + GlobalQueue
  BY <1>1, <1>2
<1> QED
  BY Zenon, <1>1, <1>7, <1>9, <1>10

\* The ways through add: nothing changes, or a transaction that may be new is
\* inserted or not, where room for it was made if need be.
MakesRoom(p, isLocal, q) ==
    \/ Overflow(p) = 0 /\ q = p
    \/ /\ Overflow(p) # 0
       /\ isLocal \/ ~(Cardinality(p.remotes) < Overflow(p))
       /\ \E D \in Discard(p, Overflow(p)), o \in Orders : q = removeTx(p, D, o)

IsLocal(p, tx, local) == local \/ tx.from \in p.locals

AddWays(p, tx, local, tip, isLocal, out) ==
    \/ out = p
    \/ /\ tx \notin All(p) /\ validateTx(p, tx, isLocal, tip)
       /\ \E q : /\ MakesRoom(p, isLocal, q)
                 /\ \/ out = q
                    \/ /\ insert(q, tx, local, isLocal).ok
                       /\ out = insert(q, tx, local, isLocal).p

LEMMA AddCases ==
    ASSUME NEW p, NEW tx, NEW local, NEW tip, NEW r \in add(p, tx, local, tip)
    PROVE  AddWays(p, tx, local, tip, IsLocal(p, tx, local), r.p)
<1> DEFINE isLocal == IsLocal(p, tx, local)
           fail(q) == [ok |-> FALSE, replaced |-> FALSE, event |-> {}, p |-> q]
           done(q) == IF insert(q, tx, local, isLocal).ok
                      THEN insert(q, tx, local, isLocal) ELSE fail(q)
           out == IF tx \in All(p) \/ ~validateTx(p, tx, isLocal, tip) THEN {fail(p)}
                  ELSE IF Overflow(p) = 0 THEN {done(p)}
                  ELSE IF /\ ~isLocal
                          /\ Underpriced(p, tx) \/ Cardinality(p.remotes) < Overflow(p)
                  THEN {fail(p)}
                  ELSE UNION {{done(removeTx(p, D, o)) : o \in Orders} :
                                  D \in Discard(p, Overflow(p))}
<1>1. r \in out
  BY DEF add, IsLocal
<1>2. \A q : fail(q).p = q
  BY Zenon
<1>3. \A q : \/ done(q).p = q
             \/ /\ insert(q, tx, local, isLocal).ok
                /\ done(q).p = insert(q, tx, local, isLocal).p
  BY Zenon
<1> HIDE DEF fail, done
<1>4. CASE tx \in All(p) \/ ~validateTx(p, tx, isLocal, tip)
  BY Zenon, <1>1, <1>2, <1>4 DEF AddWays
<1>5. CASE /\ tx \notin All(p) /\ validateTx(p, tx, isLocal, tip)
           /\ Overflow(p) = 0
  <2>1. r = done(p)
    BY Zenon, <1>1, <1>5
  <2>2. MakesRoom(p, isLocal, p)
    BY Zenon, <1>5 DEF MakesRoom
  <2> QED
    BY Zenon, <2>1, <2>2, <1>3, <1>5 DEF AddWays
<1>6. CASE /\ tx \notin All(p) /\ validateTx(p, tx, isLocal, tip)
           /\ Overflow(p) # 0
           /\ ~isLocal /\ (Underpriced(p, tx) \/ Cardinality(p.remotes) < Overflow(p))
  BY Zenon, <1>1, <1>2, <1>6 DEF AddWays
<1>7. CASE /\ tx \notin All(p) /\ validateTx(p, tx, isLocal, tip)
           /\ Overflow(p) # 0
           /\ ~(~isLocal /\ (Underpriced(p, tx) \/ Cardinality(p.remotes) < Overflow(p)))
  <2>1. PICK D \in Discard(p, Overflow(p)), o \in Orders : r = done(removeTx(p, D, o))
    BY Zenon, <1>1, <1>7
  <2>2. PICK q : q = removeTx(p, D, o)
    BY Zenon
  <2>3. MakesRoom(p, isLocal, q)
    BY Zenon, <2>1, <2>2, <1>7 DEF MakesRoom
  <2> QED
    BY Zenon, <2>1, <2>2, <2>3, <1>3, <1>7 DEF AddWays
<1> QED
  BY Zenon, <1>4, <1>5, <1>6, <1>7

\* Making room drops remote transactions only, and enough of them.
LEMMA MakesRoomFacts ==
    ASSUME NEW p, Good(p), Room(p), NEW isLocal, NEW q, MakesRoom(p, isLocal, q)
    PROVE  /\ Steps(p, q) /\ q.locals = p.locals /\ All(q) \subseteq All(p)
           /\ \/ Cardinality(All(q)) + 1 <= GlobalSlots + GlobalQueue
              \/ isLocal /\ q.remotes = {}
<1>1. Core(p) /\ p \in Pools
  BY Zenon DEF Good, Core
<1>2. /\ IsFiniteSet(All(p)) /\ Cardinality(All(p)) \in Nat
      /\ p.remotes \in SUBSET All(p) /\ IsFiniteSet(p.remotes)
      /\ Cardinality(p.remotes) \in Nat
  BY Zenon, <1>1, AllFinite
<1>3. GlobalSlots \in Nat /\ GlobalQueue \in Nat
  BY Zenon, LimitTypes
<1>4. CASE Overflow(p) = 0 /\ q = p
  BY Zenon, <1>1, <1>4, StepsItself, OverflowFacts
<1>5. CASE /\ Overflow(p) # 0
           /\ isLocal \/ ~(Cardinality(p.remotes) < Overflow(p))
           /\ \E D \in Discard(p, Overflow(p)), o \in Orders : q = removeTx(p, D, o)
  <2>1. PICK D \in Discard(p, Overflow(p)), o \in Orders : q = removeTx(p, D, o)
    BY Zenon, <1>5
  <2>2. /\ D \in SUBSET p.remotes
        /\ Cardinality(D) = Min({Overflow(p), Cardinality(p.remotes)})
    BY Zenon DEF Discard
  <2>3. D \cap All(p) = D /\ o \in Ranks /\ IsFiniteSet(D) /\ Cardinality(D) \in Nat
    BY Zenon, <2>2, <1>2, OrdersRank, FS_Subset, FS_CardinalityType
  <2>4. Removed(p, D, q)
    BY Zenon, <2>1, <2>3, <1>1, RemoveFacts
  <2>5. Core(q) /\ q.state = p.state
    BY Zenon, <2>4, <1>1, RemovedShrinks, ShrinksCore
  <2>6. Usable(q) /\ Filled(q) /\ Exact(q)
    BY Zenon, <2>4, <1>1, RemovedRuns DEF Good
  <2>7. /\ q.locals = p.locals /\ All(q) = All(p) \ D /\ q.remotes = p.remotes \ D
    BY Zenon, <2>4 DEF Removed, All
  <2>8. Keeps(p, q)
    <3>1. \A t \in D : t.from \notin p.locals
      BY Zenon, <2>2, <1>1 DEF Core
    <3>2. \A t : Same(t, t)
      BY Zenon DEF Same
    <3> QED
      BY Zenon, <3>1, <3>2, <2>7 DEF Keeps
  <2>9. Cardinality(All(q)) = Cardinality(All(p)) - Cardinality(D)
    <3>1. PICK X : X = All(p)
      BY Zenon
    <3>2. IsFiniteSet(X) /\ X \cap D = D /\ All(q) = X \ D /\ IsFiniteSet(D)
      BY Zenon, <3>1, <2>3, <2>7, <1>2
    <3>3. Cardinality(X \ D) = Cardinality(X) - Cardinality(X \cap D)
      BY Zenon, <3>2, FS_Difference
    <3> QED
      BY Zenon, <3>1, <3>2, <3>3
  <2>10. \/ Cardinality(All(q)) + 1 <= GlobalSlots + GlobalQueue
         \/ isLocal /\ q.remotes = {}
    <3>1. PICK n : n = Overflow(p)
      BY Zenon
    <3>2. n \in Nat /\ n # 0 /\ n = Cardinality(All(p)) + 1 - (GlobalSlots + GlobalQueue)
      BY Zenon, <3>1, <1>1, <1>5, OverflowFacts
    <3>3. CASE p.remotes = {}
      <4>1. Cardinality(p.remotes) = 0
        BY Zenon, <3>3, FS_EmptySet
      <4>2. Cardinality(p.remotes) < n
        BY <4>1, <3>2
      <4> QED
        BY Zenon, <4>2, <3>1, <3>3, <2>7, <1>5
    <3>4. CASE p.remotes # {}
      <4>1. Cardinality(All(p)) <= GlobalSlots + GlobalQueue
        BY Zenon, <3>4 DEF Room
      <4>2. n = 1
        BY <4>1, <3>2, <1>2, <1>3
      <4>3. Cardinality(p.remotes) # 0
        BY Zenon, <3>4, <1>2, FS_EmptySet
      <4>4. PICK S : S = {n, Cardinality(p.remotes)}
        BY Zenon
      <4>5. S \in SUBSET Nat /\ S # {}
        BY Zenon, <4>4, <3>2, <1>2
      <4>6. Min(S) \in S
        BY Zenon, <4>5, MinFacts
      <4>7. Cardinality(D) = Min(S)
        BY Zenon, <4>4, <3>1, <2>2
      <4>8. Cardinality(D) # 0
        BY Zenon, <4>3, <4>4, <4>6, <4>7, <3>2
      <4>9. PICK d : d = Cardinality(D)
        BY Zenon
      <4>10. d \in Nat /\ d # 0 /\ Cardinality(All(q)) = Cardinality(All(p)) - d
        BY Zenon, <4>8, <4>9, <2>3, <2>9
      <4> QED
        BY <4>1, <4>10, <1>2, <1>3
    <3> QED
      BY Zenon, <3>3, <3>4
  <2>11. Room(q)
    <3>1. Cardinality(All(q)) \in Nat
      BY Zenon, <2>5, AllFinite
    <3>2. Cardinality(All(q)) + 1 <= GlobalSlots + GlobalQueue =>
              Cardinality(All(q)) <= GlobalSlots + GlobalQueue
      BY <3>1, <1>3
    <3> QED
      BY Zenon, <3>2, <2>10 DEF Room
  <2> QED
    BY Zenon, <2>5, <2>6, <2>7, <2>8, <2>10, <2>11 DEF Steps, Good
<1> QED
  BY Zenon, <1>4, <1>5 DEF MakesRoom

LEMMA InsertSteps ==
    ASSUME NEW q, Good(q), NEW tx, NEW isLocal, NEW r, Inserts(q, tx, isLocal, r),
           \/ Cardinality(All(q)) + 1 <= GlobalSlots + GlobalQueue
           \/ isLocal /\ q.remotes = {}
    PROVE  Steps(q, r)
<1>1. Keeps(q, r)
  <2>1. \A t : Same(t, t)
    BY Zenon DEF Same
  <2> QED
    BY Zenon, <2>1 DEF Keeps, Inserts
<1>2. Room(r)
  <2>1. CASE isLocal /\ q.remotes = {}
    BY Zenon, <2>1 DEF Room, Inserts
  <2>2. CASE Cardinality(All(q)) + 1 <= GlobalSlots + GlobalQueue
    <3>1. IsFiniteSet(All(q)) /\ Cardinality(All(q)) \in Nat
      BY Zenon, AllFinite DEF Good
    <3>2. PICK S : S = All(q) \cup {tx}
      BY Zenon
    <3>3. IsFiniteSet(S) /\ (Cardinality(S) = Cardinality(All(q)) + 1
                             \/ Cardinality(S) = Cardinality(All(q)))
      BY Zenon, <3>1, <3>2, FS_AddElement
    <3>4. All(r) \subseteq S
      BY Zenon, <3>2 DEF Inserts
    <3>5. /\ Cardinality(All(r)) <= Cardinality(S) /\ Cardinality(All(r)) \in Nat
          /\ Cardinality(S) \in Nat
      BY Zenon, <3>3, <3>4, FS_Subset, FS_CardinalityType
    <3>6. GlobalSlots \in Nat /\ GlobalQueue \in Nat
      BY Zenon, LimitTypes
    <3>7. Cardinality(All(r)) <= GlobalSlots + GlobalQueue
      BY <3>1, <3>3, <3>5, <3>6, <2>2
    <3> QED
      BY Zenon, <3>7 DEF Room
  <2> QED
    BY Zenon, <2>1, <2>2
<1> QED
  BY Zenon, <1>1, <1>2 DEF Steps, Inserts

\* TxPool.add, whatever it does with the transaction.
LEMMA AddFacts ==
    ASSUME NEW p, Good(p), Room(p), NEW tx \in Tx, NEW local, NEW tip,
           NEW r \in add(p, tx, local, tip)
    PROVE  Steps(p, r.p)
<1>1. PICK isLocal : isLocal = IsLocal(p, tx, local)
  BY Zenon
<1>2. CASE r.p = p
  BY Zenon, <1>2, StepsItself
<1>3. CASE r.p # p
  <2>1. /\ tx \notin All(p) /\ validateTx(p, tx, isLocal, tip)
        /\ \E q : /\ MakesRoom(p, isLocal, q)
                  /\ \/ r.p = q
                     \/ /\ insert(q, tx, local, isLocal).ok
                        /\ r.p = insert(q, tx, local, isLocal).p
    <3>1. AddWays(p, tx, local, tip, isLocal, r.p)
      BY Zenon, <1>1, AddCases
    <3> QED
      BY Zenon, <3>1, <1>3 DEF AddWays
  <2>2. PICK q : /\ MakesRoom(p, isLocal, q)
                 /\ \/ r.p = q
                    \/ /\ insert(q, tx, local, isLocal).ok
                       /\ r.p = insert(q, tx, local, isLocal).p
    BY Zenon, <2>1
  <2>3. /\ Steps(p, q) /\ q.locals = p.locals /\ All(q) \subseteq All(p)
        /\ \/ Cardinality(All(q)) + 1 <= GlobalSlots + GlobalQueue
           \/ isLocal /\ q.remotes = {}
    BY Zenon, <2>2, MakesRoomFacts
  <2>4. CASE r.p = q
    BY Zenon, <2>3, <2>4
  <2>5. CASE insert(q, tx, local, isLocal).ok /\ r.p = insert(q, tx, local, isLocal).p
    <3>1. Good(q) /\ q.state = p.state
      BY Zenon, <2>3 DEF Steps
    <3>2. p.state.nonce[tx.from] <= tx.nonce /\ tx.cost <= p.state.balance[tx.from]
      <4>1. tx.nonce >= p.state.nonce[tx.from] /\ tx.cost <= p.state.balance[tx.from]
        BY Zenon, <2>1 DEF validateTx
      <4>2. tx.from \in Account /\ tx.nonce \in Nat
        BY Zenon, TxTypes
      <4>3. p \in Pools
        BY Zenon DEF Good, Core
      <4>4. p.state.nonce[tx.from] \in Nat
        BY <4>2, <4>3, PoolTypes
      <4> QED
        BY <4>1, <4>2, <4>4
    <3>3. Valid(q, tx, isLocal) /\ (local => isLocal)
      BY Zenon, <3>1, <3>2, <2>1, <2>3, <1>1 DEF Valid, IsLocal
    <3>4. Inserts(q, tx, isLocal, r.p)
      BY Zenon, <3>1, <3>3, <2>5, InsertFacts
    <3>5. Steps(q, r.p)
      BY Zenon, <3>1, <3>4, <2>3, InsertSteps
    <3> QED
      BY Zenon, <3>5, <2>3, StepsTransitive
  <2> QED
    BY Zenon, <2>2, <2>4, <2>5
<1> QED
  BY Zenon, <1>2, <1>3

-----------------------------------------------------------------------------
(* A batch. *)

Batched(acc, tx, local, tip) == {Noted(acc, tx, r) : r \in add(acc.p, tx, local, tip)}
AfterStep(start, txs, local, tip, f, i) ==
    IF i = 0 THEN {start}
    ELSE UNION {Batched(acc, txs[i], local, tip) : acc \in f[i - 1]}

\* f holds the outcomes of the first k calls of add.
Outcomes(start, txs, local, tip, f, k) ==
    f = [i \in 0..k |-> AfterStep(start, txs, local, tip, f, i)]

LEMMA OutcomesOneMore ==
    ASSUME NEW k \in Nat, NEW start, NEW txs, NEW local, NEW tip, NEW f,
           Outcomes(start, txs, local, tip, f, k)
    PROVE  \E g : Outcomes(start, txs, local, tip, g, k + 1)
<1> DEFINE g == [i \in 0..(k + 1) |-> AfterStep(start, txs, local, tip, f, i)]
<1>1. ASSUME NEW i \in 0..(k + 1), i # 0 PROVE g[i - 1] = f[i - 1]
  <2>1. i - 1 \in 0..k /\ i - 1 \in 0..(k + 1)
    BY <1>1
  <2>2. g[i - 1] = AfterStep(start, txs, local, tip, f, i - 1)
    BY Zenon, <2>1
  <2>3. f[i - 1] = AfterStep(start, txs, local, tip, f, i - 1)
    BY Zenon, <2>1 DEF Outcomes
  <2> QED
    BY Zenon, <2>2, <2>3
<1> HIDE DEF g
<1>2. \A i \in 0..(k + 1) : AfterStep(start, txs, local, tip, f, i)
                          = AfterStep(start, txs, local, tip, g, i)
  BY Zenon, <1>1 DEF AfterStep
<1>3. g = [i \in 0..(k + 1) |-> AfterStep(start, txs, local, tip, f, i)]
  BY Zenon DEF g
<1>4. g = [i \in 0..(k + 1) |-> AfterStep(start, txs, local, tip, g, i)]
  BY Zenon, <1>2, <1>3
<1> QED
  BY Zenon, <1>4 DEF Outcomes

LEMMA OutcomesExist ==
    ASSUME NEW k \in Nat, NEW start, NEW txs, NEW local, NEW tip
    PROVE  \E f : Outcomes(start, txs, local, tip, f, k)
<1> DEFINE S == {n \in Nat : ~\E f : Outcomes(start, txs, local, tip, f, n)}
<1> SUFFICES ASSUME S # {} PROVE FALSE
  BY Zenon
<1>1. S \in SUBSET Nat
  BY Zenon
<1>2. PICK n \in S : \A m \in S : n <= m
  BY Zenon, <1>1, LeastNatural
<1>3. n \in Nat /\ ~\E f : Outcomes(start, txs, local, tip, f, n)
  BY Zenon
<1>4. n # 0
  <2> DEFINE f == [i \in 0..0 |-> {start}]
  <2>1. \A i \in 0..0 : {start} = AfterStep(start, txs, local, tip, f, i)
    BY DEF AfterStep
  <2>2. Outcomes(start, txs, local, tip, f, 0)
    BY Zenon, <2>1 DEF Outcomes
  <2> QED
    BY Zenon, <1>3, <2>2
<1>5. n - 1 \in Nat /\ ~(n <= n - 1) /\ n - 1 + 1 = n
  BY <1>3, <1>4
<1>6. \E f : Outcomes(start, txs, local, tip, f, n - 1)
  BY Zenon, <1>2, <1>5
<1> QED
  BY Zenon, <1>3, <1>5, <1>6, OutcomesOneMore

\* addTxsLocked: the pool after a batch, and the accounts to promote.
LEMMA BatchFacts ==
    ASSUME NEW start, Good(start.p), Room(start.p), start.dirty \in SUBSET Account,
           start.journal \in SUBSET Tx, NEW txs \in Seq(Tx), NEW local, NEW tip,
           NEW out \in addTxsLocked(start, txs, local, tip)
    PROVE  /\ Steps(start.p, out.p) /\ out.dirty \in SUBSET Account
           /\ out.journal \in SUBSET Tx
<1> DEFINE after == CHOOSE f : Outcomes(start, txs, local, tip, f, Len(txs))
<1>1. addTxsLocked(start, txs, local, tip) = after[Len(txs)]
  BY Zenon DEF addTxsLocked, Outcomes, AfterStep, Batched
<1>2. Len(txs) \in Nat /\ \A i \in 1..Len(txs) : txs[i] \in Tx
  OBVIOUS
<1>3. Outcomes(start, txs, local, tip, after, Len(txs))
  BY Zenon, <1>2, OutcomesExist
<1> HIDE DEF after
<1>4. \A i \in 0..Len(txs) : after[i] = AfterStep(start, txs, local, tip, after, i)
  BY Zenon, <1>3 DEF Outcomes
<1> DEFINE Fine(acc) == /\ Steps(start.p, acc.p) /\ acc.dirty \in SUBSET Account
                        /\ acc.journal \in SUBSET Tx
           Bad == {k \in 0..Len(txs) : \E acc \in after[k] : ~Fine(acc)}
<1>5. 0 \notin Bad
  <2>1. 0 \in 0..Len(txs)
    BY <1>2
  <2>2. after[0] = {start}
    BY Zenon, <1>4, <2>1 DEF AfterStep
  <2>3. Fine(start)
    BY Zenon, StepsItself
  <2> QED
    BY Zenon, <2>2, <2>3
<1>6. ASSUME NEW k \in 1..Len(txs), k - 1 \notin Bad PROVE k \notin Bad
  <2> SUFFICES ASSUME NEW new \in after[k] PROVE Fine(new)
    BY Zenon
  <2>1. k \in 0..Len(txs) /\ k - 1 \in 0..Len(txs) /\ k # 0
    BY <1>2, <1>6
  <2>2. after[k] = UNION {Batched(acc, txs[k], local, tip) : acc \in after[k - 1]}
    BY Zenon, <1>4, <2>1 DEF AfterStep
  <2>3. PICK acc \in after[k - 1] : new \in Batched(acc, txs[k], local, tip)
    BY Zenon, <2>2
  <2>4. PICK r \in add(acc.p, txs[k], local, tip) : new = Noted(acc, txs[k], r)
    BY Zenon, <2>3 DEF Batched
  <2>5. Fine(acc)
    BY Zenon, <2>1, <1>6
  <2>6. txs[k] \in Tx /\ txs[k].from \in Account
    BY Zenon, <1>2, TxTypes
  <2>7. Good(acc.p) /\ Room(acc.p)
    BY Zenon, <2>5 DEF Steps
  <2>8. Steps(acc.p, r.p)
    BY Zenon, <2>6, <2>7, AddFacts
  <2>9. Steps(start.p, r.p)
    BY Zenon, <2>5, <2>8, StepsTransitive
  <2>10. new.p = r.p /\ new.dirty = acc.dirty \cup (IF r.ok /\ ~r.replaced
                                                    THEN {txs[k].from} ELSE {})
    BY Zenon, <2>4 DEF Noted
  <2>11. new.dirty \in SUBSET Account
    BY <2>5, <2>6, <2>10
  <2>12. new.journal = acc.journal \cup
             (IF Journal /\ r.ok /\ txs[k].from \in r.p.locals THEN {txs[k]} ELSE {})
    BY Zenon, <2>4 DEF Noted
  <2>13. new.journal \in SUBSET Tx
    BY <2>5, <2>6, <2>12
  <2> QED
    BY Zenon, <2>9, <2>10, <2>11, <2>13
<1> HIDE DEF Fine
<1>7. Bad = {}
  <2> SUFFICES ASSUME Bad # {} PROVE FALSE
    BY Zenon
  <2>1. Bad \in SUBSET Nat
    BY <1>2
  <2> HIDE DEF Bad
  <2>2. PICK k \in Bad : \A j \in Bad : k <= j
    BY Zenon, <2>1, LeastNatural
  <2>3. k \in 0..Len(txs)
    BY Zenon DEF Bad
  <2>4. k # 0
    BY Zenon, <1>5, <2>2
  <2>5. k \in 1..Len(txs) /\ ~(k <= k - 1)
    BY <1>2, <2>3, <2>4
  <2> QED
    BY Zenon, <1>6, <2>2, <2>5
<1>8. Len(txs) \in 0..Len(txs)
  BY <1>2
<1>9. Fine(out)
  BY Zenon, <1>1, <1>7, <1>8
<1> QED
  BY Zenon, <1>9 DEF Fine
=============================================================================
