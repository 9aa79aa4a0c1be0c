-------------------------- MODULE TxPoolReorgProofs --------------------------
(***************************************************************************)
(* What a run of the transaction pool does to its lists, for all accounts, *)
(* transactions and limits: removal, promotion, demotion and truncation    *)
(* keep the lists apart and the nonces of the pending transactions without *)
(* a gap, drop only what they may, and bring the pool within its limits.   *)
(***************************************************************************)
EXTENDS TxPool, TLAPS, FiniteSetTheorems

-----------------------------------------------------------------------------
(* Numbers. *)

\* A nonempty set of naturals has a least element.
LEMMA LeastNatural ==
    ASSUME NEW S \in SUBSET Nat, S # {}
    PROVE  \E n \in S : \A m \in S : n <= m
<1> DEFINE Less == {p \in Nat \X Nat : p[1] < p[2]}
<1>1. OpToRel(<, Nat) = Less
  BY Zenon DEF OpToRel
<1>2. IsWellFoundedOn(Less, Nat)
  BY Zenon, <1>1, NatLessThanWellFounded
<1>3. \A x, y \in Nat : <<y, x>> \in Less <=> y < x
  BY DEF Less
<1> HIDE DEF Less
<1>4. PICK n \in S : \A m \in S : ~(<<m, n>> \in Less)
  BY Zenon, <1>2, WFMin
<1>5. \A m \in S : ~(m < n)
  BY Zenon, <1>3, <1>4
<1> QED
  BY <1>5

LEMMA MinFacts ==
    ASSUME NEW S \in SUBSET Nat, S # {}
    PROVE  Min(S) \in S /\ \A m \in S : Min(S) <= m
<1>1. \E n \in S : \A m \in S : n <= m
  BY Zenon, LeastNatural
<1> QED
  BY Zenon, <1>1 DEF Min

\* A nonempty set of naturals below a bound has a greatest element.
LEMMA MaxFacts ==
    ASSUME NEW S \in SUBSET Nat, S # {}, NEW b \in Nat, \A n \in S : n <= b
    PROVE  Max(S) \in S /\ \A m \in S : m <= Max(S)
<1> DEFINE D == {d \in Nat : b - d \in S}
<1>1. D # {} /\ D \in SUBSET Nat
  <2>1. PICK n \in S : TRUE
    BY Zenon
  <2>2. b - n \in Nat /\ b - (b - n) = n
    BY <2>1
  <2> QED
    BY <2>2
<1>2. PICK d \in D : \A m \in D : d <= m
  BY Zenon, <1>1, LeastNatural
<1>3. ASSUME NEW m \in S PROVE m <= b - d
  <2>1. b - m \in D
    BY <1>3
  <2> QED
    BY <1>2, <1>3, <2>1
<1>4. b - d \in S
  BY Zenon
<1>5. \E n \in S : \A m \in S : n >= m
  BY <1>3, <1>4
<1>6. Max(S) \in S /\ \A m \in S : Max(S) >= m
  BY Zenon, <1>5 DEF Max
<1> QED
  BY <1>6
-----------------------------------------------------------------------------
(* Transactions and pools. *)

LEMMA TxTypes ==
    /\ IsFiniteSet(Account) /\ IsFiniteSet(Tx)
    /\ \A tx \in Tx : tx.from \in Account /\ tx.nonce \in Nat /\ tx.cost \in Nat
  BY Zenon, ConstantsAssumption

LEMMA LimitTypes ==
    /\ AccountSlots \in Nat /\ AccountQueue \in Nat /\ GlobalSlots \in Nat
    /\ GlobalQueue \in Nat /\ Rich \in Nat /\ Poor \in Nat
<1>1. /\ AccountSlots \in Nat \ {0} /\ AccountQueue \in Nat \ {0}
      /\ GlobalSlots \in Nat \ {0} /\ GlobalQueue \in Nat \ {0}
      /\ Rich \in Nat /\ Poor \in Nat
  BY Zenon, ConstantsAssumption
<1> QED
  BY Zenon, <1>1

Heads == [nonce : [Account -> Nat], balance : [Account -> Nat]]
Pools == [pending : SUBSET Tx, queue : SUBSET Tx, locals : SUBSET Account,
          localTxs : SUBSET Tx, remotes : SUBSET Tx, nonces : [Account -> Nat],
          state : Heads, beats : [Account -> Nat]]
Ranks == [Account -> Nat \ {0}]

LEMMA OrdersRank == Now \in Ranks /\ \A o \in Orders : o \in Ranks
<1>1. Cardinality(Account) \in Nat
  BY Zenon, TxTypes, FS_CardinalityType
<1> QED
  BY <1>1 DEF Now, Orders, Ranks

\* Who has a heartbeat after some accounts lost theirs and others got one.
BeatsLive(b, dead, up, c) ==
    /\ c \in [Account -> Nat]
    /\ \A a \in Account : c[a] # 0 <=> a \in up \/ (a \notin dead /\ b[a] # 0)

LEMMA BeatsFacts ==
    ASSUME NEW b \in [Account -> Nat], NEW dead, NEW up, NEW o \in Ranks
    PROVE  BeatsLive(b, dead, up, Beats(b, dead, up, o))
<1> DEFINE time == [a \in Account |-> IF a \in up THEN Cardinality(Account) + o[a]
                                      ELSE IF a \in dead THEN 0 ELSE b[a]]
           upTo(a) == {x \in Account : 0 < time[x] /\ time[x] <= time[a]}
<1>1. Cardinality(Account) \in Nat
  BY Zenon, TxTypes, FS_CardinalityType
<1>2. \A a \in Account : time[a] \in Nat
  BY <1>1 DEF Ranks
<1>3. \A a \in Account : time[a] # 0 <=> a \in up \/ (a \notin dead /\ b[a] # 0)
  BY <1>1 DEF Ranks
<1> HIDE DEF time
<1>4. Beats(b, dead, up, o) = [a \in Account |-> Cardinality(upTo(a))]
  BY Zenon DEF Beats, time
<1>5. ASSUME NEW a \in Account
      PROVE  Cardinality(upTo(a)) \in Nat /\ (Cardinality(upTo(a)) # 0 <=> time[a] # 0)
  <2>1. IsFiniteSet(upTo(a))
    BY Zenon, TxTypes, FS_Subset
  <2>2. Cardinality(upTo(a)) \in Nat /\ (Cardinality(upTo(a)) = 0 <=> upTo(a) = {})
    BY Zenon, <2>1, FS_CardinalityType, FS_EmptySet
  <2>3. upTo(a) = {} <=> time[a] = 0
    BY <1>2
  <2> QED
    BY Zenon, <2>2, <2>3
<1> HIDE DEF upTo
<1> QED
  BY <1>3, <1>4, <1>5 DEF BeatsLive

-----------------------------------------------------------------------------
(* Moving and removing transactions. *)

\* The part of the invariant that every operation on the pool keeps.
Core(p) ==
    /\ p \in Pools
    /\ p.localTxs \cup p.remotes = p.pending \cup p.queue
    /\ p.localTxs \cap p.remotes = {}
    /\ p.pending \cap p.queue = {}
    /\ \A s, t \in p.pending \cup p.queue : Same(s, t) => s = t
    /\ \A tx \in p.queue : p.beats[tx.from] # 0
    /\ \A tx \in p.remotes : tx.from \notin p.locals

\* q holds transactions of p, in lists of its own, and has dropped the others.
Shrinks(p, q) ==
    /\ q \in Pools
    /\ q.pending \cup q.queue \subseteq p.pending \cup p.queue
    /\ q.pending \cap q.queue = {}
    /\ q.localTxs = p.localTxs \cap (q.pending \cup q.queue)
    /\ q.remotes = p.remotes \cap (q.pending \cup q.queue)
    /\ q.locals = p.locals
    /\ \A tx \in q.queue : q.beats[tx.from] # 0

LEMMA ShrinksCore ==
    ASSUME NEW p, NEW q, Core(p), Shrinks(p, q)
    PROVE  Core(q)
<1>1. q.localTxs \cup q.remotes = q.pending \cup q.queue
  BY DEF Core, Shrinks
<1>2. q.localTxs \cap q.remotes = {}
  BY DEF Core, Shrinks
<1>3. \A tx \in q.remotes : tx.from \notin q.locals
  BY Zenon DEF Core, Shrinks
<1>4. \A s, t \in q.pending \cup q.queue : Same(s, t) => s = t
  BY Zenon DEF Core, Shrinks
<1> QED
  BY Zenon, <1>1, <1>2, <1>3, <1>4 DEF Core, Shrinks

LEMMA ShrinksTransitive ==
    ASSUME NEW p, NEW q, NEW r, Shrinks(p, q), Shrinks(q, r)
    PROVE  Shrinks(p, r)
  BY DEF Shrinks

\* Transactions that go into lists without a transaction of their nonce.
LEMMA PutFresh ==
    ASSUME NEW list, NEW txs, \A old \in list, tx \in txs : ~Same(old, tx)
    PROVE  /\ Added(list, txs) = txs /\ Replaced(list, txs) = {}
           /\ Put(list, txs) = list \cup txs
<1>1. Added(list, txs) = txs
  BY Zenon DEF Added, CanAdd
<1>2. Replaced(list, txs) = {}
  BY Zenon, <1>1 DEF Replaced
<1> QED
  BY Zenon, <1>1, <1>2 DEF Put

Enqueued(p, txs, r) ==
    /\ r \in Pools
    /\ r.pending = p.pending /\ r.queue = p.queue \cup txs
    /\ r.localTxs = p.localTxs /\ r.remotes = p.remotes
    /\ r.locals = p.locals /\ r.nonces = p.nonces /\ r.state = p.state
    /\ \A a \in Account : r.beats[a] # 0 <=> a \in From(txs) \/ p.beats[a] # 0

LEMMA EnqueueFresh ==
    ASSUME NEW p \in Pools, NEW txs \in SUBSET Tx, NEW o \in Ranks,
           \A old \in p.queue, tx \in txs : ~Same(old, tx)
    PROVE  Enqueued(p, txs, enqueueTx(p, txs, o))
<1>1. /\ Added(p.queue, txs) = txs /\ Replaced(p.queue, txs) = {}
      /\ Put(p.queue, txs) = p.queue \cup txs
  BY Zenon, PutFresh
<1>2. PICK first : first = {a \in From(txs) : p.beats[a] = 0}
  BY Zenon
<1>3. PICK b : b = Beats(p.beats, {}, first, o)
  BY Zenon
<1>4. BeatsLive(p.beats, {}, first, b)
  <2>1. p.beats \in [Account -> Nat]
    BY DEF Pools
  <2> QED
    BY Zenon, <1>3, <2>1, BeatsFacts
<1>5. b \in [Account -> Nat]
  BY Zenon, <1>4 DEF BeatsLive
<1>6. \A a \in Account : b[a] # 0 <=> a \in From(txs) \/ p.beats[a] # 0
  BY Zenon, <1>2, <1>4 DEF BeatsLive
<1>7. PICK r : r = enqueueTx(p, txs, o)
  BY Zenon
<1>8. r = [p EXCEPT !.queue = p.queue \cup txs, !.localTxs = p.localTxs \ {},
                    !.remotes = p.remotes \ {}, !.beats = b]
  BY Zenon, <1>1, <1>2, <1>3, <1>7 DEF enqueueTx
<1>9. /\ r \in Pools
      /\ r.pending = p.pending /\ r.queue = p.queue \cup txs
      /\ r.localTxs = p.localTxs /\ r.remotes = p.remotes
      /\ r.locals = p.locals /\ r.nonces = p.nonces /\ r.state = p.state /\ r.beats = b
  BY <1>5, <1>8 DEF Pools
<1> QED
  BY Zenon, <1>6, <1>7, <1>9 DEF Enqueued

\* The nonce of each account lowered to the lowest of the transactions.
Lowered(nonces, txs) == [a \in Account |-> Min({nonces[a]} \cup Nonces(Of(txs, a)))]

IsLowered(ns, txs, out) ==
    /\ out \in [Account -> Nat]
    /\ \A a \in Account :
        /\ out[a] <= ns[a]
        /\ \A tx \in txs : tx.from = a => out[a] <= tx.nonce
        /\ out[a] = ns[a] \/ \E tx \in txs : tx.from = a /\ out[a] = tx.nonce

LEMMA LoweredFacts ==
    ASSUME NEW ns \in [Account -> Nat], NEW txs \in SUBSET Tx
    PROVE  IsLowered(ns, txs, Lowered(ns, txs))
<1> SUFFICES ASSUME NEW a \in Account
             PROVE  LET m == Min({ns[a]} \cup Nonces(Of(txs, a)))
                    IN  /\ m \in Nat
                        /\ m <= ns[a]
                        /\ \A tx \in txs : tx.from = a => m <= tx.nonce
                        /\ m = ns[a] \/ \E tx \in txs : tx.from = a /\ m = tx.nonce
  BY DEF Lowered, IsLowered
<1> DEFINE S == {ns[a]} \cup Nonces(Of(txs, a))
<1>1. S \in SUBSET Nat /\ S # {}
  BY TxTypes DEF Nonces, Of
<1>2. Min(S) \in S /\ \A m \in S : Min(S) <= m
  BY Zenon, <1>1, MinFacts
<1>3. \A tx \in txs : tx.from = a => tx.nonce \in S
  BY Zenon DEF Nonces, Of
<1>4. ns[a] \in S
  BY Zenon
<1>5. \A m \in S : m = ns[a] \/ \E tx \in txs : tx.from = a /\ m = tx.nonce
  BY Zenon DEF Nonces, Of
<1> HIDE DEF S
<1>6. PICK m : m = Min(S)
  BY Zenon
<1>7. /\ m \in Nat /\ m <= ns[a]
      /\ \A tx \in txs : tx.from = a => m <= tx.nonce
      /\ m = ns[a] \/ \E tx \in txs : tx.from = a /\ m = tx.nonce
  BY Zenon, <1>1, <1>2, <1>3, <1>4, <1>5, <1>6
<1> QED
  BY Zenon, <1>6, <1>7 DEF S

\* What is left of p once the transactions of gone are removed.
Ahead(list, gone) ==
    {t \in list : \A h \in gone \cap list : h.from = t.from => t.nonce < h.nonce}
Removed(p, gone, r) ==
    /\ r \in Pools
    /\ r.pending = Ahead(p.pending, gone)
    /\ r.pending \cup r.queue = (p.pending \cup p.queue) \ gone
    /\ r.pending \cap r.queue = {}
    /\ r.localTxs = p.localTxs \ gone /\ r.remotes = p.remotes \ gone
    /\ r.locals = p.locals /\ r.state = p.state
    /\ r.nonces = Lowered(p.nonces, gone \cap p.pending)
    /\ \A tx \in r.queue : r.beats[tx.from] # 0

LEMMA RemoveFacts ==
    ASSUME NEW p, Core(p), NEW txs, NEW o \in Ranks
    PROVE  Removed(p, txs \cap All(p), removeTx(p, txs, o))
<1>1. /\ p \in Pools /\ p.localTxs \cup p.remotes = p.pending \cup p.queue
      /\ p.pending \cap p.queue = {}
      /\ \A s, t \in p.pending \cup p.queue : Same(s, t) => s = t
  BY Zenon DEF Core
<1>2. /\ p.pending \in SUBSET Tx /\ p.queue \in SUBSET Tx
      /\ p.nonces \in [Account -> Nat] /\ p.beats \in [Account -> Nat]
      /\ p.localTxs \in SUBSET Tx /\ p.remotes \in SUBSET Tx
  BY <1>1 DEF Pools
<1>3. PICK gone : gone = txs \cap All(p)
  BY Zenon
<1>4. gone \subseteq p.pending \cup p.queue
  BY Zenon, <1>1, <1>3 DEF All
<1>5. \A t : Same(t, t)
  BY Zenon DEF Same
<1>6. PICK hit : hit = gone \cap p.pending
  BY Zenon
<1>7. {t \in p.pending : \E g \in gone : Same(t, g)} = hit
  BY Zenon, <1>1, <1>4, <1>5, <1>6
<1>8. PICK miss : miss = gone \ p.pending
  BY Zenon
<1>9. {g \in gone : ~\E t \in hit : Same(t, g)} = miss
  BY Zenon, <1>1, <1>4, <1>5, <1>6, <1>8
<1>10. PICK left : left = p.queue \ gone
  BY Zenon
<1>11. {t \in p.queue : ~\E g \in miss : Same(t, g)} = left
  BY Zenon, <1>1, <1>4, <1>5, <1>8, <1>10
<1>12. PICK stay : stay = Ahead(p.pending, gone)
  BY Zenon
<1>13. {t \in p.pending : \A h \in Of(hit, t.from) : t.nonce < h.nonce} = stay
  BY Zenon, <1>6, <1>12 DEF Ahead, Of
<1>14. PICK back : back = (p.pending \ stay) \ hit
  BY Zenon
<1>15. stay \cap hit = {} /\ stay \subseteq p.pending
  <2>1. ASSUME NEW t \in stay, t \in hit PROVE FALSE
    <3>1. t \in p.pending /\ t \in gone \cap p.pending
      BY Zenon, <2>1, <1>6
    <3>2. t.nonce < t.nonce
      BY Zenon, <2>1, <3>1, <1>12 DEF Ahead
    <3> QED
      BY <3>1, <3>2, <1>2, TxTypes
  <2> QED
    BY Zenon, <2>1, <1>12 DEF Ahead
<1>16. PICK b : b = Beats(p.beats, From(miss) \ From(left), {}, o)
  BY Zenon
<1>17. BeatsLive(p.beats, From(miss) \ From(left), {}, b)
  BY Zenon, <1>2, <1>16, BeatsFacts
<1>18. PICK ns : ns = Lowered(p.nonces, hit)
  BY Zenon
<1>19. ns \in [Account -> Nat] /\ b \in [Account -> Nat]
  <2>1. hit \in SUBSET Tx
    BY Zenon, <1>2, <1>6
  <2> QED
    BY Zenon, <2>1, <1>2, <1>17, <1>18, LoweredFacts DEF BeatsLive, IsLowered
<1>20. PICK q : q = [p EXCEPT !.pending = stay, !.queue = left,
                             !.localTxs = @ \ gone, !.remotes = @ \ gone,
                             !.nonces = ns, !.beats = b]
  BY Zenon
<1>21. /\ q \in Pools /\ q.pending = stay /\ q.queue = left
       /\ q.localTxs = p.localTxs \ gone /\ q.remotes = p.remotes \ gone
       /\ q.nonces = ns /\ q.beats = b /\ q.locals = p.locals /\ q.state = p.state
  <2>1. stay \in SUBSET Tx /\ left \in SUBSET Tx
    BY Zenon, <1>2, <1>10, <1>15
  <2> QED
    BY <1>1, <1>19, <1>20, <2>1 DEF Pools
<1>22. removeTx(p, txs, o) = enqueueTx(q, back, o)
  BY Zenon, <1>3, <1>7, <1>9, <1>11, <1>13, <1>14, <1>16, <1>18, <1>20
     DEF removeTx, Lowered
<1>23. Enqueued(q, back, enqueueTx(q, back, o))
  <2>1. back \in SUBSET Tx
    BY Zenon, <1>2, <1>14
  <2>2. \A old \in q.queue, tx \in back : ~Same(old, tx)
    BY Zenon, <1>1, <1>10, <1>14, <1>21
  <2> QED
    BY Zenon, <2>1, <2>2, <1>21, EnqueueFresh
<1>24. PICK r : r = removeTx(p, txs, o)
  BY Zenon
<1>25. Enqueued(q, back, r)
  BY Zenon, <1>22, <1>23, <1>24
<1>26. stay \cup (left \cup back) = (p.pending \cup p.queue) \ gone
  BY <1>1, <1>6, <1>10, <1>14, <1>15
<1>27. stay \cap (left \cup back) = {}
  BY <1>1, <1>10, <1>14, <1>15
<1>28. ASSUME NEW tx \in r.queue PROVE r.beats[tx.from] # 0
  <2>1. tx \in left \/ tx \in back
    BY Zenon, <1>21, <1>25 DEF Enqueued
  <2>2. tx.from \in Account
    BY Zenon, <2>1, <1>2, <1>10, <1>14, TxTypes
  <2>3. CASE tx \in back
    BY Zenon, <2>2, <2>3, <1>25 DEF Enqueued, From
  <2>4. CASE tx \in left
    <3>1. tx.from \in From(left) /\ p.beats[tx.from] # 0
      BY Zenon, <2>4, <1>10 DEF Core, From
    <3>2. b[tx.from] # 0
      BY Zenon, <3>1, <2>2, <1>17 DEF BeatsLive
    <3> QED
      BY Zenon, <3>2, <2>2, <1>21, <1>25 DEF Enqueued
  <2> QED
    BY Zenon, <2>1, <2>3, <2>4
<1>29. /\ r \in Pools /\ r.pending = stay /\ r.queue = left \cup back
       /\ r.localTxs = p.localTxs \ gone /\ r.remotes = p.remotes \ gone
       /\ r.nonces = ns /\ r.locals = p.locals /\ r.state = p.state
  BY Zenon, <1>21, <1>25 DEF Enqueued
<1>30. Removed(p, gone, r)
  BY Zenon, <1>6, <1>12, <1>18, <1>26, <1>27, <1>28, <1>29 DEF Removed
<1> QED
  BY Zenon, <1>3, <1>24, <1>30

LEMMA RemovedShrinks ==
    ASSUME NEW p, Core(p), NEW gone, NEW r, Removed(p, gone, r)
    PROVE  Shrinks(p, r) /\ r.state = p.state
<1>1. /\ p.localTxs \subseteq p.pending \cup p.queue
      /\ p.remotes \subseteq p.pending \cup p.queue
  BY DEF Core
<1>2. r.localTxs = p.localTxs \cap (r.pending \cup r.queue)
  BY <1>1 DEF Removed
<1>3. r.remotes = p.remotes \cap (r.pending \cup r.queue)
  BY <1>1 DEF Removed
<1>4. r.pending \cup r.queue \subseteq p.pending \cup p.queue
  BY DEF Removed
<1> QED
  BY Zenon, <1>2, <1>3, <1>4 DEF Removed, Shrinks

-----------------------------------------------------------------------------
(* Pending transactions run from the nonce of their account on. *)

\* Pending transactions are payable and not used.
Usable(p) ==
    \A tx \in p.pending : /\ p.state.nonce[tx.from] <= tx.nonce
                          /\ tx.cost <= p.state.balance[tx.from]

\* No pending transaction misses one before it.
Filled(p) ==
    \A tx \in p.pending, n \in Nat :
        p.state.nonce[tx.from] <= n /\ n < tx.nonce =>
            \E t \in p.pending : t.from = tx.from /\ t.nonce = n

\* The virtual nonces are those behind the pending transactions.
Exact(p) ==
    \A a \in Account :
        /\ p.state.nonce[a] <= p.nonces[a]
        /\ \A tx \in p.pending : tx.from = a => tx.nonce < p.nonces[a]
        /\ \/ p.nonces[a] = p.state.nonce[a]
           \/ \E tx \in p.pending : tx.from = a /\ p.nonces[a] = tx.nonce + 1

NoGap(list, nonces) ==
    \A tx \in list, n \in Nat :
        nonces[tx.from] <= n /\ n < tx.nonce =>
            \E t \in list : t.from = tx.from /\ t.nonce = n

LEMMA FilledBy ==
    ASSUME NEW p, NEW r, NEW list, r.pending = list, r.state = p.state,
           NoGap(list, p.state.nonce)
    PROVE  Filled(r)
  BY Zenon DEF Filled, NoGap

LEMMA PoolTypes ==
    ASSUME NEW p \in Pools
    PROVE  /\ p.pending \in SUBSET Tx /\ p.queue \in SUBSET Tx
           /\ p.localTxs \in SUBSET Tx /\ p.remotes \in SUBSET Tx
           /\ p.locals \in SUBSET Account
           /\ p.nonces \in [Account -> Nat] /\ p.beats \in [Account -> Nat]
           /\ p.state \in Heads
           /\ p.state.nonce \in [Account -> Nat] /\ p.state.balance \in [Account -> Nat]
           /\ \A tx \in p.pending \cup p.queue : tx.from \in Account /\ tx.nonce \in Nat
<1>1. /\ p.pending \in SUBSET Tx /\ p.queue \in SUBSET Tx
      /\ p.localTxs \in SUBSET Tx /\ p.remotes \in SUBSET Tx
      /\ p.locals \in SUBSET Account
      /\ p.nonces \in [Account -> Nat] /\ p.beats \in [Account -> Nat]
      /\ p.state \in Heads
  BY DEF Pools
<1>2. p.state.nonce \in [Account -> Nat] /\ p.state.balance \in [Account -> Nat]
  BY <1>1 DEF Heads
<1>3. \A tx \in p.pending \cup p.queue : tx.from \in Account /\ tx.nonce \in Nat
  BY Zenon, <1>1, TxTypes
<1> QED
  BY Zenon, <1>1, <1>2, <1>3

LEMMA RemovedRuns ==
    ASSUME NEW p \in Pools, Usable(p), Filled(p), Exact(p), NEW gone, NEW r, Removed(p, gone, r)
    PROVE  Usable(r) /\ Filled(r) /\ Exact(r)
<1>1. /\ r.pending = Ahead(p.pending, gone) /\ r.state = p.state
      /\ r.nonces = Lowered(p.nonces, gone \cap p.pending)
  BY Zenon DEF Removed
<1>2. r.pending \subseteq p.pending
  BY Zenon, <1>1 DEF Ahead
<1>3. ASSUME NEW s \in p.pending, NEW tx \in r.pending, s.from = tx.from, s.nonce < tx.nonce
      PROVE  s \in r.pending
  <2>1. ASSUME NEW h \in gone \cap p.pending, h.from = s.from PROVE s.nonce < h.nonce
    <3>1. tx.nonce < h.nonce
      BY Zenon, <1>1, <1>3, <2>1 DEF Ahead
    <3>2. s.nonce \in Nat /\ tx.nonce \in Nat /\ h.nonce \in Nat
      BY Zenon, <1>2, PoolTypes
    <3> QED
      BY <3>1, <3>2, <1>3
  <2> QED
    BY Zenon, <2>1, <1>1 DEF Ahead
<1>4. Usable(r) /\ Filled(r)
  <2>1. \A tx \in r.pending : /\ r.state.nonce[tx.from] <= tx.nonce
                              /\ tx.cost <= r.state.balance[tx.from]
    BY Zenon, <1>1, <1>2 DEF Usable, Filled
  <2>2. ASSUME NEW tx \in r.pending, NEW n \in Nat,
               p.state.nonce[tx.from] <= n, n < tx.nonce
        PROVE  \E t \in r.pending : t.from = tx.from /\ t.nonce = n
    BY Zenon, <1>2, <1>3, <2>2 DEF Usable, Filled
  <2> QED
    BY Zenon, <2>1, <2>2, <1>1 DEF Usable, Filled
<1>5. ASSUME NEW a \in Account
      PROVE  /\ p.state.nonce[a] <= r.nonces[a]
             /\ \A tx \in r.pending : tx.from = a => tx.nonce < r.nonces[a]
             /\ \/ r.nonces[a] = p.state.nonce[a]
                \/ \E tx \in r.pending : tx.from = a /\ r.nonces[a] = tx.nonce + 1
  <2> DEFINE hit == gone \cap p.pending
  <2>1. /\ p.nonces \in [Account -> Nat] /\ hit \in SUBSET Tx
        /\ p.state.nonce[a] \in Nat /\ p.nonces[a] \in Nat
    BY PoolTypes
  <2>2. /\ r.nonces[a] \in Nat
        /\ r.nonces[a] <= p.nonces[a]
        /\ \A tx \in hit : tx.from = a => r.nonces[a] <= tx.nonce
        /\ r.nonces[a] = p.nonces[a] \/
               \E tx \in hit : tx.from = a /\ r.nonces[a] = tx.nonce
    <3>1. IsLowered(p.nonces, hit, r.nonces)
      BY Zenon, <1>1, <2>1, LoweredFacts
    <3> QED
      BY <3>1 DEF IsLowered
  <2>3. /\ p.state.nonce[a] <= p.nonces[a]
        /\ \A tx \in p.pending : tx.from = a => tx.nonce < p.nonces[a]
        /\ \/ p.nonces[a] = p.state.nonce[a]
           \/ \E tx \in p.pending : tx.from = a /\ p.nonces[a] = tx.nonce + 1
    BY Zenon DEF Exact
  <2>4. CASE r.nonces[a] = p.nonces[a]
    <3>1. ASSUME NEW h \in hit, h.from = a PROVE FALSE
      <4>1. h.nonce < p.nonces[a] /\ p.nonces[a] <= h.nonce /\ h.nonce \in Nat
        BY Zenon, <2>2, <2>3, <2>4, <3>1, PoolTypes
      <4> QED
        BY <4>1, <2>1
    <3>2. \A tx \in p.pending : tx.from = a => tx \in r.pending
      BY Zenon, <3>1, <1>1 DEF Ahead
    <3> QED
      BY Zenon, <3>2, <2>3, <2>4, <1>2
  <2>5. CASE \E tx \in hit : tx.from = a /\ r.nonces[a] = tx.nonce
    <3>1. PICK h \in hit : h.from = a /\ r.nonces[a] = h.nonce
      BY Zenon, <2>5
    <3>2. p.state.nonce[a] <= h.nonce /\ h.nonce \in Nat
      BY Zenon, <3>1, PoolTypes DEF Usable, Filled
    <3>3. \A tx \in r.pending : tx.from = a => tx.nonce < h.nonce
      BY Zenon, <3>1, <1>1 DEF Ahead
    <3>4. ASSUME h.nonce # p.state.nonce[a]
          PROVE  \E tx \in r.pending : tx.from = a /\ h.nonce = tx.nonce + 1
      <4>1. PICK n : n = h.nonce - 1
        BY Zenon
      <4>2. n \in Nat /\ p.state.nonce[a] <= n /\ n < h.nonce /\ h.nonce = n + 1
        BY <4>1, <3>2, <3>4, <2>1
      <4>3. PICK t \in p.pending : t.from = a /\ t.nonce = n
        BY Zenon, <4>2, <3>1 DEF Usable, Filled
      <4>4. ASSUME NEW g \in hit, g.from = a PROVE t.nonce < g.nonce
        <5>1. h.nonce <= g.nonce /\ g.nonce \in Nat
          BY Zenon, <4>4, <3>1, <2>2, PoolTypes
        <5> QED
          BY <5>1, <4>2, <4>3
      <4>5. t \in r.pending
        BY Zenon, <4>3, <4>4, <1>1 DEF Ahead
      <4> QED
        BY Zenon, <4>2, <4>3, <4>5
    <3> QED
      BY Zenon, <3>1, <3>2, <3>3, <3>4
  <2> QED
    BY Zenon, <2>2, <2>4, <2>5
<1>6. Exact(r)
  BY Zenon, <1>1, <1>5 DEF Exact
<1> QED
  BY Zenon, <1>4, <1>6

-----------------------------------------------------------------------------
(* Promotion and demotion. *)

\* A finite set of naturals has a bound.
LEMMA FiniteBounded ==
    ASSUME NEW S \in SUBSET Nat, IsFiniteSet(S)
    PROVE  \E b \in Nat : \A n \in S : n <= b
<1> DEFINE Bounded(T) == \E b \in Nat : \A n \in T : n <= b
           Bad == {c \in Nat : \E T \in SUBSET S : Cardinality(T) = c /\ ~Bounded(T)}
<1> SUFFICES ASSUME ~Bounded(S) PROVE FALSE
  BY Zenon
<1>1. Cardinality(S) \in Bad
  BY Zenon, FS_CardinalityType
<1>2. PICK c \in Bad : \A d \in Bad : c <= d
  <2>1. Bad \in SUBSET Nat /\ Bad # {}
    BY Zenon, <1>1
  <2> QED
    BY Zenon, <2>1, LeastNatural
<1>3. PICK T \in SUBSET S : Cardinality(T) = c /\ ~Bounded(T)
  BY Zenon, <1>2
<1>4. PICK x \in T : TRUE
  <2>1. T # {}
    BY <1>3
  <2> QED
    BY Zenon, <2>1
<1>5. PICK U : U = T \ {x}
  BY Zenon
<1>6. IsFiniteSet(T) /\ Cardinality(U) = Cardinality(T) - 1 /\ U \in SUBSET S
  BY Zenon, <1>3, <1>4, <1>5, FS_Subset, FS_RemoveElement
<1>7. c - 1 \in Nat /\ ~(c <= c - 1)
  <2>1. Cardinality(U) \in Nat
    BY Zenon, <1>6, FS_Subset, FS_CardinalityType
  <2> QED
    BY <2>1, <1>3, <1>6
<1>8. Bounded(U)
  BY Zenon, <1>2, <1>3, <1>6, <1>7
<1>9. PICK b \in Nat : \A n \in U : n <= b
  BY Zenon, <1>8
<1>10. x \in Nat
  BY <1>3, <1>4
<1>11. \A n \in T : n <= b + x
  BY <1>3, <1>5, <1>9, <1>10
<1>12. b + x \in Nat
  BY <1>9, <1>10
<1> QED
  BY Zenon, <1>3, <1>11, <1>12

\* The nonce of each account raised behind the last of the transactions.
Raised(nonces, new) ==
    [a \in Account |-> IF a \in From(new) THEN Max(Nonces(Of(new, a))) + 1 ELSE nonces[a]]

IsRaised(ns, new, out) ==
    /\ out \in [Account -> Nat]
    /\ \A a \in Account :
        \/ (\A tx \in new : tx.from # a) /\ out[a] = ns[a]
        \/ /\ \A tx \in new : tx.from = a => tx.nonce < out[a]
           /\ \E tx \in new : tx.from = a /\ out[a] = tx.nonce + 1

LEMMA RaisedFacts ==
    ASSUME NEW ns \in [Account -> Nat], NEW new \in SUBSET Tx
    PROVE  IsRaised(ns, new, Raised(ns, new))
<1>1. ASSUME NEW a \in Account, \A tx \in new : tx.from # a
      PROVE  Raised(ns, new)[a] = ns[a]
  BY Zenon, <1>1 DEF Raised, From
<1>2. ASSUME NEW a \in Account, NEW s \in new, s.from = a
      PROVE  /\ Raised(ns, new)[a] \in Nat
             /\ \A tx \in new : tx.from = a => tx.nonce < Raised(ns, new)[a]
             /\ \E tx \in new : tx.from = a /\ Raised(ns, new)[a] = tx.nonce + 1
  <2>1. PICK S : S = Nonces(Of(new, a))
    BY Zenon
  <2>2. S \in SUBSET Nat /\ \A tx \in new : tx.from = a => tx.nonce \in S
    BY Zenon, <2>1, TxTypes DEF Nonces, Of
  <2>3. S # {} /\ \A n \in S : \E tx \in new : tx.from = a /\ n = tx.nonce
    BY Zenon, <1>2, <2>1 DEF Nonces, Of
  <2>4. IsFiniteSet(S)
    <3>1. IsFiniteSet(Of(new, a))
      BY Zenon, TxTypes, FS_Subset DEF Of
    <3>2. PICK f : f = [tx \in Of(new, a) |-> tx.nonce]
      BY Zenon
    <3>3. f \in Surjection(Of(new, a), S)
      BY <2>1, <3>2 DEF Surjection, Nonces
    <3> QED
      BY Zenon, <3>1, <3>3, FS_Surjection
  <2>5. PICK b \in Nat : \A n \in S : n <= b
    BY Zenon, <2>2, <2>4, FiniteBounded
  <2>6. Max(S) \in S /\ \A m \in S : m <= Max(S)
    BY Zenon, <2>2, <2>3, <2>5, MaxFacts
  <2>7. Raised(ns, new)[a] = Max(S) + 1
    BY Zenon, <1>2, <2>1 DEF Raised, From
  <2>8. PICK m : m = Max(S)
    BY Zenon
  <2>9. m \in Nat /\ \A tx \in new : tx.from = a => tx.nonce <= m /\ tx.nonce \in Nat
    BY Zenon, <2>2, <2>6, <2>8
  <2>10. m + 1 \in Nat /\ \A tx \in new : tx.from = a => tx.nonce < m + 1
    BY <2>9
  <2>11. PICK t \in new : t.from = a /\ m = t.nonce
    BY Zenon, <2>3, <2>6, <2>8
  <2>12. Raised(ns, new)[a] = m + 1
    BY Zenon, <2>7, <2>8
  <2>13. \E tx \in new : tx.from = a /\ m + 1 = tx.nonce + 1
    BY Zenon, <2>11
  <2> QED
    BY Zenon, <2>10, <2>12, <2>13
<1>3. \A a \in Account : Raised(ns, new)[a] \in Nat
  BY Zenon, <1>1, <1>2
<1>4. Raised(ns, new) \in [Account -> Nat]
  <2>1. Raised(ns, new) = [a \in Account |-> Raised(ns, new)[a]]
    BY Zenon DEF Raised
  <2> QED
    BY Zenon, <1>3, <2>1
<1> QED
  BY Zenon, <1>1, <1>2, <1>4 DEF IsRaised

\* A transaction that is promoted: payable, not used, and the last of a run of
\* promoted ones that starts at the account's nonce or below.
NextUp(p, ready, tx) ==
    /\ p.state.nonce[tx.from] <= tx.nonce /\ tx.cost <= p.state.balance[tx.from]
    /\ \E m \in Nat :
        /\ p.state.nonce[tx.from] <= m /\ m <= p.nonces[tx.from] /\ m <= tx.nonce
        /\ \A n \in Nat : m <= n /\ n <= tx.nonce =>
               \E t \in ready : t.from = tx.from /\ t.nonce = n

LEMMA ReadyFacts ==
    ASSUME NEW p \in Pools, NEW live \in SUBSET Tx,
           \A tx \in live : /\ p.state.nonce[tx.from] <= tx.nonce
                            /\ tx.cost <= p.state.balance[tx.from]
    PROVE  \A tx \in Ready(live, p.nonces) : NextUp(p, Ready(live, p.nonces), tx)
<1> SUFFICES ASSUME NEW tx \in Ready(live, p.nonces)
             PROVE  NextUp(p, Ready(live, p.nonces), tx)
  BY Zenon
<1>1. PICK ns : ns = Nonces(Of(live, tx.from))
  BY Zenon
<1>2. /\ tx \in live /\ Min(ns) <= p.nonces[tx.from]
      /\ Min(ns)..tx.nonce \subseteq ns
  BY Zenon, <1>1 DEF Ready
<1>3. ns \in SUBSET Nat /\ tx.nonce \in ns
  BY Zenon, <1>1, <1>2, TxTypes DEF Nonces, Of
<1>4. \A n \in ns : \E t \in live : t.from = tx.from /\ t.nonce = n
  BY Zenon, <1>1 DEF Nonces, Of
<1>5. Min(ns) \in ns /\ \A m \in ns : Min(ns) <= m
  BY Zenon, <1>3, MinFacts
<1>6. PICK m : m = Min(ns)
  BY Zenon
<1>7. m \in Nat /\ m <= tx.nonce /\ m <= p.nonces[tx.from] /\ p.state.nonce[tx.from] <= m
  BY Zenon, <1>2, <1>3, <1>4, <1>5, <1>6
<1>8. ASSUME NEW n \in Nat, m <= n, n <= tx.nonce
      PROVE  \E t \in Ready(live, p.nonces) : t.from = tx.from /\ t.nonce = n
  <2>0. tx.nonce \in Nat
    BY Zenon, <1>3
  <2>1. n \in m..tx.nonce /\ m..n \subseteq m..tx.nonce
    BY <2>0, <1>7, <1>8
  <2>2. n \in ns /\ m..n \subseteq ns
    BY Zenon, <2>1, <1>2, <1>6
  <2>3. PICK t \in live : t.from = tx.from /\ t.nonce = n
    BY Zenon, <2>2, <1>4
  <2>4. ns = Nonces(Of(live, t.from)) /\ m <= p.nonces[t.from] /\ m..t.nonce \subseteq ns
    BY Zenon, <2>2, <2>3, <1>1, <1>7
  <2>5. t \in Ready(live, p.nonces)
    BY Zenon, <2>4, <1>6 DEF Ready
  <2> QED
    BY Zenon, <2>3, <2>5
<1> QED
  BY Zenon, <1>2, <1>7, <1>8 DEF NextUp

\* A transaction that may be dropped even from a local account.
Spent(p, tx) == \/ tx.nonce < p.state.nonce[tx.from]
                \/ tx.cost > p.state.balance[tx.from]

Promoted(p, ready, gone, r) ==
    /\ ready \in SUBSET p.queue /\ gone \in SUBSET p.queue /\ ready \cap gone = {}
    /\ \A tx \in ready : NextUp(p, ready, tx)
    /\ \A tx \in gone : Spent(p, tx) \/ tx.from \notin p.locals
    /\ r \in Pools
    /\ r.pending = p.pending \cup ready /\ r.queue = p.queue \ (gone \cup ready)
    /\ r.localTxs = p.localTxs \ gone /\ r.remotes = p.remotes \ gone
    /\ r.locals = p.locals /\ r.state = p.state
    /\ r.nonces = Raised(p.nonces, ready)
    /\ \A tx \in r.queue : r.beats[tx.from] # 0

LEMMA PromoteFacts ==
    ASSUME NEW p, Core(p), NEW accs, NEW o \in Ranks
    PROVE  \E ready, gone : Promoted(p, ready, gone, promoteExecutables(p, accs, o))
<1>1. /\ p \in Pools /\ p.pending \cap p.queue = {}
      /\ \A s, t \in p.pending \cup p.queue : Same(s, t) => s = t
      /\ \A tx \in p.queue : p.beats[tx.from] # 0
  BY Zenon DEF Core
<1>2. PICK list : list = {tx \in p.queue : tx.from \in accs}
  BY Zenon
<1>3. PICK stale : stale = {tx \in list : \/ tx.nonce < p.state.nonce[tx.from]
                                          \/ tx.cost > p.state.balance[tx.from]}
  BY Zenon
<1>4. PICK ready : ready = Ready(list \ stale, p.nonces)
  BY Zenon
<1>5. PICK caps : caps = {tx \in Capped(list \ (stale \cup ready), AccountQueue) :
                             tx.from \notin p.locals}
  BY Zenon
<1>6. PICK gone : gone = stale \cup caps
  BY Zenon
<1>7. PICK queue : queue = p.queue \ (gone \cup ready)
  BY Zenon
<1>8. /\ p.pending \in SUBSET Tx /\ p.queue \in SUBSET Tx /\ list \in SUBSET Tx
      /\ p.nonces \in [Account -> Nat] /\ p.beats \in [Account -> Nat]
      /\ list \in SUBSET p.queue
  <2>1. list \in SUBSET p.queue
    BY Zenon, <1>2
  <2> QED
    BY Zenon, <2>1, <1>1, PoolTypes
<1>9. /\ ready \in SUBSET (list \ stale) /\ stale \in SUBSET list
      /\ caps \in SUBSET (list \ (stale \cup ready))
  BY Zenon, <1>3, <1>4, <1>5 DEF Ready, Capped
<1>10. /\ ready \in SUBSET p.queue /\ gone \in SUBSET p.queue /\ ready \cap gone = {}
       /\ ready \in SUBSET Tx
  BY Zenon, <1>6, <1>8, <1>9
<1>11. \A tx \in ready : NextUp(p, ready, tx)
  <2>1. PICK live : live = list \ stale
    BY Zenon
  <2>2. ASSUME NEW tx \in live
        PROVE  p.state.nonce[tx.from] <= tx.nonce /\ tx.cost <= p.state.balance[tx.from]
    <3>1. ~(tx.nonce < p.state.nonce[tx.from]) /\ ~(tx.cost > p.state.balance[tx.from])
      BY Zenon, <2>1, <1>3
    <3>2. tx.nonce \in Nat /\ tx.cost \in Nat /\ tx.from \in Account
      BY Zenon, <2>1, <1>8, TxTypes
    <3>3. p.state.nonce[tx.from] \in Nat /\ p.state.balance[tx.from] \in Nat
      BY <3>2, <1>1, PoolTypes
    <3> QED
      BY <3>1, <3>2, <3>3
  <2>3. live \in SUBSET Tx /\ ready = Ready(live, p.nonces)
    BY Zenon, <2>1, <1>4, <1>8
  <2> QED
    BY Zenon, <2>2, <2>3, <1>1, ReadyFacts
<1>12. \A tx \in gone : Spent(p, tx) \/ tx.from \notin p.locals
  BY Zenon, <1>3, <1>5, <1>6 DEF Spent
<1>13. /\ Added(p.pending, ready) = ready /\ Replaced(p.pending, ready) = {}
       /\ Put(p.pending, ready) = p.pending \cup ready
  <2>1. \A old \in p.pending, tx \in ready : ~Same(old, tx)
    BY Zenon, <1>1, <1>10
  <2> QED
    BY Zenon, <2>1, PutFresh
<1>14. PICK b : b = Beats(p.beats, {}, From(ready), o)
  BY Zenon
<1>15. BeatsLive(p.beats, {}, From(ready), b)
  BY Zenon, <1>8, <1>14, BeatsFacts
<1>16. b \in [Account -> Nat]
  BY Zenon, <1>15 DEF BeatsLive
<1>17. PICK c : c = Beats(b, From(list) \ From(queue), {}, o)
  BY Zenon
<1>18. BeatsLive(b, From(list) \ From(queue), {}, c)
  BY Zenon, <1>16, <1>17, BeatsFacts
<1>19. c \in [Account -> Nat]
  BY Zenon, <1>18 DEF BeatsLive
<1>20. \A tx \in queue : c[tx.from] # 0
  <2> SUFFICES ASSUME NEW tx \in queue PROVE c[tx.from] # 0
    BY Zenon
  <2>1. tx \in p.queue /\ tx.from \in Account /\ tx.from \in From(queue)
    BY Zenon, <1>7, <1>8, TxTypes DEF From
  <2>2. b[tx.from] # 0
    BY Zenon, <2>1, <1>1, <1>15 DEF BeatsLive
  <2> QED
    BY Zenon, <2>1, <2>2, <1>18 DEF BeatsLive
<1>21. PICK ns : ns = Raised(p.nonces, ready)
  BY Zenon
<1>22. ns \in [Account -> Nat]
  BY Zenon, <1>8, <1>10, <1>21, RaisedFacts DEF IsRaised
<1>23. PICK q : q = promoteTx(p, ready, o)
  BY Zenon
<1>24. q = [p EXCEPT !.pending = p.pending \cup ready,
                     !.localTxs = p.localTxs \ ((ready \ ready) \cup {}),
                     !.remotes = p.remotes \ ((ready \ ready) \cup {}),
                     !.nonces = ns, !.beats = b]
  BY Zenon, <1>13, <1>14, <1>21, <1>23 DEF promoteTx, Raised
<1>25. /\ q \in Pools /\ q.pending = p.pending \cup ready
       /\ q.localTxs = p.localTxs /\ q.remotes = p.remotes
       /\ q.locals = p.locals /\ q.state = p.state /\ q.nonces = ns /\ q.beats = b
  BY ZenonT(30), <1>1, <1>10, <1>16, <1>22, <1>24 DEF Pools
<1>26. PICK r : r = promoteExecutables(p, accs, o)
  BY Zenon
<1>27. r = [q EXCEPT !.queue = queue, !.localTxs = q.localTxs \ gone,
                     !.remotes = q.remotes \ gone, !.beats = c]
  <2>1. q.beats = b
    BY Zenon, <1>25
  <2> QED
    BY ZenonT(30), <2>1, <1>2, <1>3, <1>4, <1>5, <1>6, <1>7, <1>17, <1>23, <1>26
       DEF promoteExecutables
<1>28. queue \in SUBSET Tx
  BY Zenon, <1>7, <1>8
<1>29. /\ r \in Pools /\ r.pending = q.pending /\ r.queue = queue
       /\ r.localTxs = q.localTxs \ gone /\ r.remotes = q.remotes \ gone
       /\ r.locals = q.locals /\ r.state = q.state /\ r.nonces = q.nonces /\ r.beats = c
  BY ZenonT(30), <1>19, <1>25, <1>27, <1>28 DEF Pools
<1>30. Promoted(p, ready, gone, r)
  BY Zenon, <1>7, <1>10, <1>11, <1>12, <1>20, <1>21, <1>25, <1>29 DEF Promoted
<1> QED
  BY Zenon, <1>26, <1>30

\* The virtual nonces on the way through a reorganisation: those of the state,
\* or those behind pending transactions that stay payable.
Near(p) ==
    \A a \in Account :
        /\ p.state.nonce[a] <= p.nonces[a]
        /\ \/ p.nonces[a] = p.state.nonce[a]
           \/ /\ \E tx \in p.pending : tx.from = a /\ p.nonces[a] = tx.nonce + 1
              /\ \A tx \in p.pending : tx.from = a =>
                     /\ tx.nonce < p.nonces[a]
                     /\ p.state.nonce[a] <= tx.nonce => tx.cost <= p.state.balance[a]

\* The promoted transactions of an account follow its pending ones.
Follows(p, ready, tx) ==
    /\ p.nonces[tx.from] <= tx.nonce
    /\ \A n \in Nat : p.nonces[tx.from] <= n /\ n <= tx.nonce =>
           \E t \in ready : t.from = tx.from /\ t.nonce = n
    /\ \A s \in p.pending : s.from = tx.from => s.nonce < p.nonces[tx.from]
    /\ \A n \in Nat : p.state.nonce[tx.from] <= n /\ n < p.nonces[tx.from] =>
           \E s \in p.pending : s.from = tx.from /\ s.nonce = n

LEMMA PromotedFollow ==
    ASSUME NEW p, Core(p), Filled(p), Near(p), NEW ready \in SUBSET p.queue,
           \A tx \in ready : NextUp(p, ready, tx),
           NEW tx \in ready
    PROVE  Follows(p, ready, tx)
<1>1. /\ p \in Pools /\ p.pending \cap p.queue = {}
      /\ \A s, t \in p.pending \cup p.queue : Same(s, t) => s = t
  BY Zenon DEF Core
<1>2. /\ tx.from \in Account /\ tx.nonce \in Nat
      /\ \A s \in p.pending : s.nonce \in Nat
  BY Zenon, <1>1, PoolTypes
<1>3. PICK a : a = tx.from
  BY Zenon
<1>4. PICK top : top = p.nonces[a]
  BY Zenon
<1>5. PICK low : low = p.state.nonce[a]
  BY Zenon
<1>6. top \in Nat /\ low \in Nat
  BY <1>1, <1>2, <1>3, <1>4, <1>5, PoolTypes
<1>7. PICK m \in Nat :
        /\ low <= m /\ m <= top /\ m <= tx.nonce
        /\ \A n \in Nat : m <= n /\ n <= tx.nonce =>
               \E t \in ready : t.from = a /\ t.nonce = n
  BY Zenon, <1>3, <1>4, <1>5 DEF NextUp
<1>8. ASSUME NEW s \in p.pending, s.from = a, s.nonce = m PROVE FALSE
  <2>1. m <= m
    BY <1>7
  <2>2. PICK t \in ready : t.from = a /\ t.nonce = m
    BY Zenon, <2>1, <1>7
  <2>3. Same(s, t)
    BY Zenon, <2>2, <1>8 DEF Same
  <2> QED
    BY Zenon, <2>3, <1>1
<1>9. ASSUME NEW s \in p.pending, NEW n \in Nat, s.from = a, low <= n, n < s.nonce
      PROVE  \E t \in p.pending : t.from = a /\ t.nonce = n
  <2>1. p.state.nonce[s.from] <= n
    BY Zenon, <1>5, <1>9
  <2> QED
    BY Zenon, <2>1, <1>9 DEF Filled
<1>10. ASSUME NEW s \in p.pending, s.from = a PROVE s.nonce < m
  <2>1. ~(m < s.nonce)
    BY Zenon, <1>7, <1>8, <1>9, <1>10
  <2>2. s.nonce # m
    BY Zenon, <1>8, <1>10
  <2> QED
    BY <2>1, <2>2, <1>2, <1>7
<1>11. \/ top = low
       \/ \E s \in p.pending : s.from = a /\ top = s.nonce + 1
  BY Zenon, <1>2, <1>3, <1>4, <1>5 DEF Near
<1>12. m = top
  <2>1. CASE top = low
    BY <2>1, <1>6, <1>7
  <2>2. CASE \E s \in p.pending : s.from = a /\ top = s.nonce + 1
    <3>1. PICK s \in p.pending : s.from = a /\ top = s.nonce + 1
      BY Zenon, <2>2
    <3>2. s.nonce < m /\ s.nonce \in Nat
      BY Zenon, <3>1, <1>2, <1>10
    <3> QED
      BY <3>1, <3>2, <1>6, <1>7
  <2> QED
    BY Zenon, <2>1, <2>2, <1>11
<1>13. ASSUME NEW n \in Nat, low <= n, n < top
       PROVE  \E s \in p.pending : s.from = a /\ s.nonce = n
  <2>1. top # low
    BY <1>13, <1>6
  <2>2. PICK s \in p.pending : s.from = a /\ top = s.nonce + 1
    BY Zenon, <2>1, <1>11
  <2>3. s.nonce = n \/ n < s.nonce
    <3>1. s.nonce \in Nat
      BY Zenon, <1>2
    <3> QED
      BY <3>1, <2>2, <1>13
  <2> QED
    BY Zenon, <2>2, <2>3, <1>9, <1>13
<1> QED
  BY Zenon, <1>3, <1>4, <1>5, <1>7, <1>10, <1>12, <1>13 DEF Follows

LEMMA PromotedRuns ==
    ASSUME NEW p, Core(p), Filled(p), Near(p), NEW ready, NEW gone, NEW r,
           Promoted(p, ready, gone, r)
    PROVE  Filled(r) /\ Near(r) /\ (Usable(p) => Usable(r))
<1>1. /\ r.pending = p.pending \cup ready /\ r.state = p.state
      /\ r.nonces = Raised(p.nonces, ready)
      /\ ready \in SUBSET p.queue /\ \A tx \in ready : NextUp(p, ready, tx)
      /\ p \in Pools
  BY Zenon DEF Promoted, Core
<1>2. /\ p.nonces \in [Account -> Nat] /\ ready \in SUBSET Tx
      /\ \A tx \in p.pending \cup p.queue : tx.from \in Account /\ tx.nonce \in Nat
  BY Zenon, <1>1, PoolTypes
<1> IsRaised(p.nonces, ready, r.nonces)
  BY Zenon, <1>1, <1>2, RaisedFacts
<1>3. Usable(p) => Usable(r)
  BY Zenon, <1>1 DEF Usable, NextUp
<1>4. Filled(r)
  <2>1. ASSUME NEW tx \in r.pending, NEW n \in Nat,
               p.state.nonce[tx.from] <= n, n < tx.nonce
        PROVE  \E t \in r.pending : t.from = tx.from /\ t.nonce = n
    <3>1. CASE tx \in p.pending
      BY ZenonT(30), <2>1, <3>1, <1>1 DEF Filled
    <3>2. CASE tx \in ready
      <4>1. tx.nonce \in Nat /\ p.nonces[tx.from] \in Nat
        BY <3>2, <1>1, <1>2
      <4>2. n < p.nonces[tx.from] \/ (p.nonces[tx.from] <= n /\ n <= tx.nonce)
        BY <4>1, <2>1
      <4>3. Follows(p, ready, tx)
        BY Zenon, <3>2, <1>1, PromotedFollow
      <4> QED
        BY Zenon, <4>2, <4>3, <2>1, <1>1 DEF Follows
    <3> QED
      BY Zenon, <3>1, <3>2, <1>1
  <2> QED
    BY Zenon, <2>1, <1>1 DEF Filled
<1>5. ASSUME NEW a \in Account
      PROVE  /\ p.state.nonce[a] <= r.nonces[a]
             /\ \/ r.nonces[a] = p.state.nonce[a]
                \/ /\ \E tx \in r.pending : tx.from = a /\ r.nonces[a] = tx.nonce + 1
                   /\ \A tx \in r.pending : tx.from = a =>
                          /\ tx.nonce < r.nonces[a]
                          /\ p.state.nonce[a] <= tx.nonce => tx.cost <= p.state.balance[a]
  <2>1. CASE \A tx \in ready : tx.from # a
    <3>1. r.nonces[a] = p.nonces[a]
      BY Zenon, <2>1 DEF IsRaised
    <3>2. \A tx \in r.pending : tx.from = a => tx \in p.pending
      BY Zenon, <2>1, <1>1
    <3> QED
      BY ZenonT(30), <3>1, <3>2, <1>1 DEF Near
  <2>2. CASE \E tx \in ready : tx.from = a
    <3>1. /\ \A tx \in ready : tx.from = a => tx.nonce < r.nonces[a]
          /\ \E tx \in ready : tx.from = a /\ r.nonces[a] = tx.nonce + 1
      BY Zenon, <2>2 DEF IsRaised
    <3>2. PICK t \in ready : t.from = a /\ r.nonces[a] = t.nonce + 1
      BY Zenon, <3>1
    <3>3. /\ p.nonces[a] <= t.nonce
          /\ \A s \in p.pending : s.from = a => s.nonce < p.nonces[a]
      BY Zenon, <3>2, <1>1, PromotedFollow DEF Follows
    <3>4. /\ p.state.nonce[a] <= p.nonces[a]
          /\ p.nonces[a] \in Nat /\ p.state.nonce[a] \in Nat /\ t.nonce \in Nat
      <4>1. p.state.nonce[a] <= p.nonces[a]
        BY Zenon DEF Near
      <4>2. t.nonce \in Nat
        BY Zenon, <1>1, <1>2
      <4>3. p.nonces[a] \in Nat /\ p.state.nonce[a] \in Nat
        BY <1>1, PoolTypes
      <4> QED
        BY Zenon, <4>1, <4>2, <4>3
    <3>5. p.state.nonce[a] <= r.nonces[a]
      BY <3>2, <3>3, <3>4
    <3>6. ASSUME NEW s \in p.pending, s.from = a
          PROVE  /\ s.nonce < r.nonces[a]
                 /\ p.state.nonce[a] <= s.nonce => s.cost <= p.state.balance[a]
      <4>1. s.nonce < p.nonces[a] /\ s.nonce \in Nat
        BY Zenon, <3>3, <3>6, <1>2
      <4>2. s.nonce < r.nonces[a]
        BY <4>1, <3>2, <3>3, <3>4
      <4>3. ASSUME p.state.nonce[a] <= s.nonce PROVE p.nonces[a] # p.state.nonce[a]
        BY <4>1, <4>3, <3>4
      <4> QED
        BY Zenon, <4>2, <4>3, <3>6 DEF Near
    <3>7. \A s \in ready : s.from = a => s.cost <= p.state.balance[a]
      BY Zenon, <1>1 DEF NextUp
    <3> QED
      BY Zenon, <3>1, <3>5, <3>6, <3>7, <1>1
  <2> QED
    BY Zenon, <2>1, <2>2
<1> QED
  BY Zenon, <1>1, <1>3, <1>4, <1>5 DEF Near

\* r is p without the transactions of gone, some of them moved.
Dropped(p, gone, r) ==
    /\ r \in Pools
    /\ r.pending \cup r.queue = (p.pending \cup p.queue) \ gone
    /\ r.pending \cap r.queue = {}
    /\ r.localTxs = p.localTxs \ gone /\ r.remotes = p.remotes \ gone
    /\ r.locals = p.locals /\ r.state = p.state
    /\ \A tx \in r.queue : r.beats[tx.from] # 0

LEMMA DroppedShrinks ==
    ASSUME NEW p, Core(p), NEW gone, NEW r, Dropped(p, gone, r)
    PROVE  Shrinks(p, r) /\ r.state = p.state
<1>1. /\ p.localTxs \subseteq p.pending \cup p.queue
      /\ p.remotes \subseteq p.pending \cup p.queue
  BY DEF Core
<1>2. r.localTxs = p.localTxs \cap (r.pending \cup r.queue)
  BY Zenon, <1>1 DEF Dropped
<1>3. r.remotes = p.remotes \cap (r.pending \cup r.queue)
  BY Zenon, <1>1 DEF Dropped
<1>4. r.pending \cup r.queue \subseteq p.pending \cup p.queue
  BY Zenon DEF Dropped
<1> QED
  BY Zenon, <1>2, <1>3, <1>4 DEF Dropped, Shrinks

LEMMA PromotedDropped ==
    ASSUME NEW p, Core(p), NEW ready, NEW gone, NEW r, Promoted(p, ready, gone, r)
    PROVE  Dropped(p, gone, r)
<1>1. p.pending \cap p.queue = {}
  BY Zenon DEF Core
<1>2. /\ r.pending = p.pending \cup ready /\ r.queue = p.queue \ (gone \cup ready)
      /\ ready \in SUBSET p.queue /\ gone \in SUBSET p.queue /\ ready \cap gone = {}
  BY Zenon DEF Promoted
<1>3. r.pending \cup r.queue = (p.pending \cup p.queue) \ gone
  BY <1>1, <1>2
<1>4. r.pending \cap r.queue = {}
  BY <1>1, <1>2
<1> QED
  BY Zenon, <1>3, <1>4 DEF Promoted, Dropped

\* r holds no more than p and has dropped nothing of a local account that is
\* still worth keeping.
Trims(p, r) ==
    /\ Shrinks(p, r) /\ r.state = p.state
    /\ \A tx \in (p.pending \cup p.queue) \ (r.pending \cup r.queue) :
           Spent(p, tx) \/ tx.from \notin p.locals

LEMMA DroppedTrims ==
    ASSUME NEW p, Core(p), NEW gone, NEW r, Dropped(p, gone, r),
           \A tx \in gone : Spent(p, tx) \/ tx.from \notin p.locals
    PROVE  Trims(p, r) /\ Core(r)
<1>1. Shrinks(p, r) /\ r.state = p.state
  BY Zenon, DroppedShrinks
<1>2. \A tx \in (p.pending \cup p.queue) \ (r.pending \cup r.queue) : tx \in gone
  BY Zenon DEF Dropped
<1> QED
  BY Zenon, <1>1, <1>2, ShrinksCore DEF Trims

LEMMA TrimsTransitive ==
    ASSUME NEW p, NEW q, NEW r, Trims(p, q), Trims(q, r)
    PROVE  Trims(p, r)
<1>1. Shrinks(p, r)
  BY Zenon, ShrinksTransitive DEF Trims
<1>2. r.state = p.state /\ q.state = p.state /\ q.locals = p.locals
  BY Zenon DEF Trims, Shrinks
<1>3. ASSUME NEW tx \in (p.pending \cup p.queue) \ (r.pending \cup r.queue)
      PROVE  Spent(p, tx) \/ tx.from \notin p.locals
  <2>1. Spent(q, tx) <=> Spent(p, tx)
    BY Zenon, <1>2 DEF Spent
  <2> QED
    BY Zenon, <2>1, <1>2, <1>3 DEF Trims
<1> QED
  BY Zenon, <1>1, <1>2, <1>3 DEF Trims

\* The virtual nonce of an account without pending transactions is that of
\* the state.
Rooted(p) ==
    \A a \in Account :
        /\ p.state.nonce[a] <= p.nonces[a]
        /\ p.nonces[a] = p.state.nonce[a] \/ \E tx \in p.pending : tx.from = a

LEMMA DemoteFacts ==
    ASSUME NEW p, Core(p), Filled(p), Near(p), NEW o \in Ranks,
           NEW r, r = demoteUnexecutables(p, o)
    PROVE  /\ \E gone : Dropped(p, gone, r) /\ \A tx \in gone : Spent(p, tx)
           /\ Usable(r) /\ Filled(r) /\ Rooted(r)
           /\ r.pending \subseteq p.pending
<1>1. /\ p \in Pools /\ p.pending \cap p.queue = {}
      /\ \A s, t \in p.pending \cup p.queue : Same(s, t) => s = t
      /\ \A tx \in p.queue : p.beats[tx.from] # 0
  BY Zenon DEF Core
<1>2. PICK list : list = {tx \in p.pending : tx.nonce >= p.state.nonce[tx.from]}
  BY Zenon
<1>3. PICK drops : drops = {tx \in list : tx.cost > p.state.balance[tx.from]}
  BY Zenon
<1>4. PICK keep : keep = {tx \in list : \A d \in Of(drops, tx.from) : tx.nonce < d.nonce}
  BY Zenon
<1>5. PICK gaps : gaps = {tx \in keep : p.state.nonce[tx.from] \notin
                                            Nonces(Of(keep, tx.from))}
  BY Zenon
<1>6. PICK stay : stay = keep \ gaps
  BY Zenon
<1>7. PICK gone : gone = (p.pending \ list) \cup drops
  BY Zenon
<1>8. PICK back : back = (list \ drops) \ stay
  BY Zenon
<1>9. /\ p.pending \in SUBSET Tx /\ p.queue \in SUBSET Tx
      /\ \A tx \in p.pending : /\ tx.from \in Account /\ tx.nonce \in Nat /\ tx.cost \in Nat
  BY Zenon, <1>1, PoolTypes, TxTypes
<1>10. \A tx \in p.pending : /\ p.state.nonce[tx.from] \in Nat
                             /\ p.state.balance[tx.from] \in Nat
  BY <1>1, <1>9, PoolTypes
<1>11. \A tx \in p.pending : tx \in list <=> p.state.nonce[tx.from] <= tx.nonce
  BY <1>2, <1>9, <1>10
<1>12. \A tx \in list : tx \notin drops <=> tx.cost <= p.state.balance[tx.from]
  <2>1. list \subseteq p.pending
    BY Zenon, <1>2
  <2> QED
    BY <2>1, <1>3, <1>9, <1>10
<1>13. list \subseteq p.pending /\ drops \subseteq list /\ keep \subseteq list
  BY Zenon, <1>2, <1>3, <1>4
<1>14. \A tx \in list : tx \in keep <=> \A d \in drops : d.from = tx.from => tx.nonce < d.nonce
  BY Zenon, <1>4 DEF Of
<1>15. keep \cap drops = {}
  <2>1. ASSUME NEW tx \in keep, tx \in drops PROVE FALSE
    <3>1. tx.nonce < tx.nonce /\ tx.nonce \in Nat
      BY Zenon, <2>1, <1>9, <1>13, <1>14
    <3> QED
      BY <3>1
  <2> QED
    BY Zenon, <2>1
<1>16. \A tx \in keep : tx \in stay <=>
           \E t \in keep : t.from = tx.from /\ t.nonce = p.state.nonce[tx.from]
  BY Zenon, <1>5, <1>6 DEF Nonces, Of
<1>17. stay \subseteq keep /\ stay \in SUBSET Tx /\ back \in SUBSET Tx
  BY Zenon, <1>6, <1>8, <1>9, <1>13
<1>18. PICK q : q = [p EXCEPT !.pending = stay, !.localTxs = p.localTxs \ gone,
                              !.remotes = p.remotes \ gone]
  BY Zenon
<1>19. /\ q \in Pools /\ q.pending = stay /\ q.queue = p.queue /\ q.locals = p.locals
       /\ q.localTxs = p.localTxs \ gone /\ q.remotes = p.remotes \ gone
       /\ q.nonces = p.nonces /\ q.state = p.state /\ q.beats = p.beats
  BY ZenonT(30), <1>1, <1>17, <1>18 DEF Pools
<1>20. r = enqueueTx(q, back, o)
  BY ZenonT(30), <1>2, <1>3, <1>4, <1>5, <1>6, <1>7, <1>8, <1>18 DEF demoteUnexecutables
<1>21. back \subseteq p.pending
  BY Zenon, <1>8, <1>13
<1>22. Enqueued(q, back, r)
  <2>1. \A old \in q.queue, tx \in back : ~Same(old, tx)
    BY Zenon, <1>1, <1>19, <1>21
  <2> QED
    BY Zenon, <2>1, <1>17, <1>19, <1>20, EnqueueFresh
<1>23. /\ r \in Pools /\ r.pending = stay /\ r.queue = p.queue \cup back
       /\ r.localTxs = p.localTxs \ gone /\ r.remotes = p.remotes \ gone
       /\ r.locals = p.locals /\ r.state = p.state /\ r.nonces = p.nonces
  BY Zenon, <1>19, <1>22 DEF Enqueued
<1>24. \A tx \in r.queue : r.beats[tx.from] # 0
  <2> SUFFICES ASSUME NEW tx \in r.queue PROVE r.beats[tx.from] # 0
    BY Zenon
  <2>1. tx.from \in Account
    BY Zenon, <1>23, PoolTypes
  <2>2. tx.from \in From(back) \/ p.beats[tx.from] # 0
    BY Zenon, <1>1, <1>23 DEF From
  <2> QED
    BY Zenon, <2>1, <2>2, <1>19, <1>22 DEF Enqueued
<1>25. Dropped(p, gone, r)
  <2>1. stay \cup back = p.pending \ gone
    BY Zenon, <1>7, <1>8, <1>13, <1>15, <1>17
  <2>2. gone \subseteq p.pending
    BY Zenon, <1>7, <1>13
  <2>3. r.pending \cup r.queue = (p.pending \cup p.queue) \ gone
    BY <2>1, <2>2, <1>1, <1>23
  <2>4. r.pending \cap r.queue = {}
    BY <1>1, <1>8, <1>13, <1>17, <1>23
  <2> QED
    BY Zenon, <2>3, <2>4, <1>23, <1>24 DEF Dropped
<1>26. \A tx \in gone : Spent(p, tx)
  <2>1. ASSUME NEW tx \in p.pending \ list PROVE tx.nonce < p.state.nonce[tx.from]
    BY <2>1, <1>2, <1>9, <1>10
  <2> QED
    BY Zenon, <2>1, <1>3, <1>7 DEF Spent
<1>27. Usable(r)
  BY Zenon, <1>11, <1>12, <1>13, <1>15, <1>17, <1>23 DEF Usable
<1>28. Filled(r)
  <2>1. ASSUME NEW tx \in stay, NEW n \in Nat, p.state.nonce[tx.from] <= n, n < tx.nonce
        PROVE  \E t \in stay : t.from = tx.from /\ t.nonce = n
    <3>1. tx \in p.pending /\ tx \in keep /\ tx \in list
      BY Zenon, <1>13, <1>17
    <3>2. PICK t \in p.pending : t.from = tx.from /\ t.nonce = n
      BY Zenon, <2>1, <3>1 DEF Filled
    <3>3. t \in list
      BY Zenon, <3>2, <2>1, <1>11
    <3>4. ASSUME NEW d \in drops, d.from = tx.from PROVE n < d.nonce
      <4>1. tx.nonce < d.nonce /\ tx.nonce \in Nat /\ d.nonce \in Nat
        BY Zenon, <3>1, <3>4, <1>9, <1>13, <1>14
      <4> QED
        BY <4>1, <2>1
    <3>5. t \in keep
      BY Zenon, <3>2, <3>3, <3>4, <1>14
    <3>6. t \in stay
      BY Zenon, <3>1, <3>2, <3>5, <1>16
    <3> QED
      BY Zenon, <3>2, <3>6
  <2>2. NoGap(stay, p.state.nonce)
    BY Zenon, <2>1 DEF NoGap
  <2> QED
    BY Zenon, <2>2, <1>23, FilledBy
<1>29. Rooted(r)
  <2>1. ASSUME NEW a \in Account, p.nonces[a] # p.state.nonce[a]
        PROVE  \E tx \in stay : tx.from = a
    <3>1. /\ \E tx \in p.pending : tx.from = a /\ p.nonces[a] = tx.nonce + 1
          /\ \A tx \in p.pending : tx.from = a =>
                 (p.state.nonce[a] <= tx.nonce => tx.cost <= p.state.balance[a])
          /\ p.state.nonce[a] <= p.nonces[a]
      BY Zenon, <2>1 DEF Near
    <3>2. PICK last \in p.pending : last.from = a /\ p.nonces[a] = last.nonce + 1
      BY Zenon, <3>1
    <3>3. /\ p.state.nonce[a] \in Nat /\ last.nonce \in Nat
          /\ p.state.nonce[a] <= last.nonce
      BY <2>1, <3>1, <3>2, <1>9, <1>10
    <3>4. PICK t \in p.pending : t.from = a /\ t.nonce = p.state.nonce[a]
      <4>1. p.state.nonce[a] <= p.state.nonce[a]
            /\ (p.state.nonce[a] = last.nonce \/ p.state.nonce[a] < last.nonce)
        BY <3>3
      <4>2. CASE p.state.nonce[a] = last.nonce
        BY Zenon, <4>2, <3>2
      <4>3. CASE p.state.nonce[a] < last.nonce
        BY Zenon, <4>1, <4>3, <3>2, <3>3 DEF Filled
      <4> QED
        BY Zenon, <4>1, <4>2, <4>3
    <3>5. t \in list
      <4>1. p.state.nonce[t.from] <= t.nonce
        BY <3>3, <3>4
      <4> QED
        BY Zenon, <4>1, <1>11
    <3>6. ASSUME NEW d \in drops, d.from = a PROVE FALSE
      <4>1. d \in list /\ d \in p.pending
        BY Zenon, <1>13
      <4> QED
        BY Zenon, <4>1, <3>1, <3>6, <1>11, <1>12
    <3>7. t \in keep
      BY Zenon, <3>4, <3>5, <3>6, <1>14
    <3>8. t \in stay
      BY Zenon, <3>4, <3>7, <1>16
    <3> QED
      BY Zenon, <3>4, <3>8
  <2> QED
    BY Zenon, <2>1, <1>23 DEF Near, Rooted
<1>30. r.pending \subseteq p.pending
  BY Zenon, <1>13, <1>17, <1>23
<1> QED
  BY Zenon, <1>25, <1>26, <1>27, <1>28, <1>29, <1>30

-----------------------------------------------------------------------------
(* Truncation. *)

\* The transactions of an account before one of them.
Below(list, tx) == {t \in Of(list, tx.from) : t.nonce < tx.nonce}

LEMMA BelowFinite ==
    ASSUME NEW list \in SUBSET Tx, NEW tx
    PROVE  IsFiniteSet(Below(list, tx)) /\ Cardinality(Below(list, tx)) \in Nat
<1>1. Below(list, tx) \in SUBSET Tx
  BY Zenon DEF Below, Of
<1> QED
  BY Zenon, <1>1, TxTypes, FS_Subset, FS_CardinalityType

LEMMA CappedBelow ==
    ASSUME NEW list, NEW size, NEW tx \in list
    PROVE  tx \in Capped(list, size) <=> Cardinality(Below(list, tx)) >= size
  BY Zenon DEF Capped, Below

\* txList.Cap takes the highest nonces.
LEMMA CappedDown ==
    ASSUME NEW list \in SUBSET Tx, NEW size \in Int, NEW s \in list, NEW t \in list,
           s.from = t.from, s.nonce < t.nonce, t \notin Capped(list, size)
    PROVE  s \notin Capped(list, size)
<1>1. Below(list, s) \subseteq Below(list, t)
  <2>1. ASSUME NEW x \in Below(list, s) PROVE x \in Below(list, t)
    <3>1. x \in list /\ x.from = s.from /\ x.nonce < s.nonce
      BY Zenon, <2>1 DEF Below, Of
    <3>2. x.nonce \in Nat /\ s.nonce \in Nat /\ t.nonce \in Nat
      BY Zenon, <3>1, TxTypes
    <3>3. x.nonce < t.nonce
      BY <3>1, <3>2
    <3> QED
      BY Zenon, <3>1, <3>3 DEF Below, Of
  <2> QED
    BY Zenon, <2>1
<1>2. Cardinality(Below(list, s)) <= Cardinality(Below(list, t))
  BY Zenon, <1>1, BelowFinite, FS_Subset
<1>3. PICK m : m = Cardinality(Below(list, s))
  BY Zenon
<1>4. PICK n : n = Cardinality(Below(list, t))
  BY Zenon
<1>5. m \in Nat /\ n \in Nat
  BY Zenon, <1>3, <1>4, BelowFinite
<1>6. ~(n >= size) /\ m <= n
  BY Zenon, <1>2, <1>3, <1>4, CappedBelow
<1>7. ~(m >= size)
  BY <1>5, <1>6
<1> QED
  BY Zenon, <1>3, <1>7, CappedBelow

\* A nonempty list has a lowest and a highest nonce.
LEMMA ListEnds ==
    ASSUME NEW list \in SUBSET Tx, list # {}
    PROVE  /\ \E t \in list : \A x \in list : t.nonce <= x.nonce
           /\ \E t \in list : \A x \in list : x.nonce <= t.nonce
<1>1. PICK S : S = Nonces(list)
  BY Zenon
<1>2. /\ S \in SUBSET Nat /\ S # {} /\ \A x \in list : x.nonce \in S
      /\ \A n \in S : \E t \in list : t.nonce = n
  BY Zenon, <1>1, TxTypes DEF Nonces
<1>3. IsFiniteSet(S)
  <2>1. PICK f : f = [tx \in list |-> tx.nonce]
    BY Zenon
  <2>2. f \in Surjection(list, S)
    BY <1>1, <2>1 DEF Surjection, Nonces
  <2>3. IsFiniteSet(list)
    BY Zenon, TxTypes, FS_Subset
  <2> QED
    BY Zenon, <2>2, <2>3, FS_Surjection
<1>4. PICK b \in Nat : \A n \in S : n <= b
  BY Zenon, <1>2, <1>3, FiniteBounded
<1>5. Max(S) \in S /\ \A m \in S : m <= Max(S)
  BY Zenon, <1>2, <1>4, MaxFacts
<1>6. Min(S) \in S /\ \A m \in S : Min(S) <= m
  BY Zenon, <1>2, MinFacts
<1> QED
  BY ZenonT(30), <1>2, <1>5, <1>6

\* txList.Cap leaves no more transactions than the size.
LEMMA CappedLeft ==
    ASSUME NEW list \in SUBSET Tx, \A s, t \in list : Same(s, t) => s = t,
           NEW size \in Nat, NEW a
    PROVE  Cardinality(Of(list \ Capped(list, size), a)) <= size
<1>1. PICK K : K = Of(list \ Capped(list, size), a)
  BY Zenon
<1>2. K \in SUBSET Tx /\ K \in SUBSET list /\ \A t \in K : t.from = a
  BY Zenon, <1>1 DEF Of
<1>3. IsFiniteSet(K) /\ Cardinality(K) \in Nat
  BY Zenon, <1>2, TxTypes, FS_Subset, FS_CardinalityType
<1>4. CASE K = {}
  <2>1. Cardinality(K) = 0
    BY Zenon, <1>4, FS_EmptySet
  <2> QED
    BY <2>1, <1>1
<1>5. CASE K # {}
  <2>1. PICK t \in K : \A x \in K : x.nonce <= t.nonce
    BY Zenon, <1>2, <1>5, ListEnds
  <2>2. ASSUME NEW x \in K \ {t} PROVE x \in Below(list, t)
    <3>1. x \in list /\ t \in list /\ x.from = t.from /\ x # t
      BY Zenon, <1>2
    <3>2. x.nonce # t.nonce
      BY Zenon, <3>1 DEF Same
    <3>3. x.nonce \in Nat /\ t.nonce \in Nat
      BY Zenon, <3>1, TxTypes
    <3>4. x.nonce < t.nonce
      BY <2>1, <3>2, <3>3
    <3> QED
      BY Zenon, <3>1, <3>4 DEF Below, Of
  <2>3. PICK J : J = K \ {t}
    BY Zenon
  <2>4. Cardinality(J) <= Cardinality(Below(list, t)) /\ Cardinality(J) = Cardinality(K) - 1
    BY Zenon, <2>1, <2>2, <2>3, <1>3, BelowFinite, FS_Subset, FS_RemoveElement
  <2>5. t \in list /\ t \notin Capped(list, size)
    BY Zenon, <1>1 DEF Of
  <2>6. ~(Cardinality(Below(list, t)) >= size)
    BY Zenon, <2>5, CappedBelow
  <2>7. PICK n : n = Cardinality(Below(list, t))
    BY Zenon
  <2>8. n \in Nat
    BY Zenon, <2>7, BelowFinite
  <2>9. Cardinality(J) <= n /\ ~(n >= size)
    BY Zenon, <2>4, <2>6, <2>7
  <2>10. Cardinality(K) <= size
    BY <2>4, <2>8, <2>9, <1>3
  <2> QED
    BY Zenon, <2>10, <1>1
<1> QED
  BY Zenon, <1>4, <1>5

\* The pending limit, or the minimum of every remote account.
PendingFits(p) ==
    \/ Cardinality(p.pending) <= GlobalSlots
    \/ \A a \in Account \ p.locals : Cardinality(Of(p.pending, a)) <= AccountSlots

LEMMA DroppedNone ==
    ASSUME NEW p, Core(p)
    PROVE  Dropped(p, {}, p)
  BY Zenon DEF Core, Dropped

LEMMA TruncatePendingFacts ==
    ASSUME NEW p, Core(p), Usable(p), Filled(p), Rooted(p), NEW r, r = truncatePending(p)
    PROVE  /\ \E gone : Dropped(p, gone, r) /\ \A tx \in gone : tx.from \notin p.locals
           /\ Usable(r) /\ Filled(r) /\ Rooted(r)
           /\ r.pending \subseteq p.pending /\ PendingFits(r)
<1>1. /\ p \in Pools /\ p.pending \cap p.queue = {}
      /\ \A s, t \in p.pending \cup p.queue : Same(s, t) => s = t
      /\ \A tx \in p.queue : p.beats[tx.from] # 0
  BY Zenon DEF Core
<1>2. /\ p.pending \in SUBSET Tx /\ p.queue \in SUBSET Tx
      /\ p.nonces \in [Account -> Nat]
      /\ \A tx \in p.pending : tx.from \in Account /\ tx.nonce \in Nat
  BY Zenon, <1>1, PoolTypes
<1>3. CASE Cardinality(p.pending) <= GlobalSlots
  <2>1. r = p
    BY Zenon, <1>3 DEF truncatePending
  <2>2. PICK none : none = {}
    BY Zenon
  <2>3. Dropped(p, none, r) /\ \A tx \in none : tx.from \notin p.locals
    BY Zenon, <2>1, <2>2, DroppedNone
  <2>4. PendingFits(r) /\ Usable(r) /\ Filled(r) /\ Rooted(r) /\ r.pending \subseteq p.pending
    BY Zenon, <2>1, <1>3 DEF PendingFits
  <2> QED
    BY Zenon, <2>3, <2>4
<1>4. CASE ~(Cardinality(p.pending) <= GlobalSlots)
  <2>1. PICK fits : fits = {n \in AccountSlots..Cardinality(p.pending) :
                               Cardinality(CutTo(p, n)) <= GlobalSlots}
    BY Zenon
  <2>2. PICK len : len = Max({AccountSlots} \cup fits)
    BY Zenon
  <2>3. PICK list : list = CutTo(p, len)
    BY Zenon
  <2>4. PICK caps : caps = p.pending \ list
    BY Zenon
  <2>5. /\ AccountSlots \in Nat \ {0} /\ len \in {AccountSlots} \cup fits
        /\ len \in Nat \ {0}
    <3>1. AccountSlots \in Nat \ {0}
      BY Zenon, ConstantsAssumption
    <3>2. IsFiniteSet(p.pending) /\ Cardinality(p.pending) \in Nat
      BY Zenon, <1>2, TxTypes, FS_Subset, FS_CardinalityType
    <3>3. PICK S : S = {AccountSlots} \cup fits
      BY Zenon
    <3>4. /\ S \in SUBSET (Nat \ {0}) /\ AccountSlots + Cardinality(p.pending) \in Nat
          /\ \A n \in S : n <= AccountSlots + Cardinality(p.pending)
      BY <2>1, <3>1, <3>2, <3>3
    <3>5. S # {} /\ S \in SUBSET Nat
      BY Zenon, <3>3, <3>4
    <3>6. Max(S) \in S
      BY Zenon, <3>4, <3>5, MaxFacts
    <3> QED
      BY Zenon, <2>2, <3>1, <3>3, <3>4, <3>6
  <2>6. /\ list \subseteq p.pending
        /\ \A tx \in p.pending : tx \in list <=>
               ~(tx \in Capped(p.pending, len) /\ tx.from \in Spammers(p))
    BY Zenon, <2>3 DEF CutTo
  <2>7. PICK ns : ns = Lowered(p.nonces, caps)
    BY Zenon
  <2>8. IsLowered(p.nonces, caps, ns)
    <3>1. caps \in SUBSET Tx
      BY Zenon, <2>4, <1>2
    <3> QED
      BY Zenon, <3>1, <2>7, <1>2, LoweredFacts
  <2>9. ns \in [Account -> Nat]
    BY Zenon, <2>8 DEF IsLowered
  <2>10. r = [p EXCEPT !.pending = list, !.localTxs = p.localTxs \ caps,
                       !.remotes = p.remotes \ caps, !.nonces = ns]
    BY Zenon, <1>4, <2>1, <2>2, <2>3, <2>4, <2>7 DEF truncatePending, Lowered
  <2>11. /\ r \in Pools /\ r.pending = list /\ r.queue = p.queue /\ r.locals = p.locals
         /\ r.localTxs = p.localTxs \ caps /\ r.remotes = p.remotes \ caps
         /\ r.nonces = ns /\ r.state = p.state /\ r.beats = p.beats
    <3>1. list \in SUBSET Tx
      BY Zenon, <2>6, <1>2
    <3>2. p \in Pools
      BY Zenon, <1>1
    <3> QED
      BY ZenonT(40), <3>1, <3>2, <2>9, <2>10 DEF Pools
  <2>12. Dropped(p, caps, r)
    <3>1. r.pending \cup r.queue = (p.pending \cup p.queue) \ caps
      BY <2>4, <2>6, <2>11, <1>1
    <3>2. r.pending \cap r.queue = {}
      BY <2>6, <2>11, <1>1
    <3> QED
      BY Zenon, <3>1, <3>2, <2>11, <1>1 DEF Dropped
  <2>13. \A tx \in caps : tx.from \notin p.locals
    BY Zenon, <2>4, <2>6 DEF Spammers
  <2>14. Usable(r)
    BY Zenon, <2>6, <2>11 DEF Usable
  <2>15. Filled(r)
    <3>1. ASSUME NEW tx \in list, NEW n \in Nat, p.state.nonce[tx.from] <= n, n < tx.nonce
          PROVE  \E t \in list : t.from = tx.from /\ t.nonce = n
      <4>1. PICK t \in p.pending : t.from = tx.from /\ t.nonce = n
        BY Zenon, <3>1, <2>6 DEF Filled
      <4>2. tx \in p.pending /\ t.nonce < tx.nonce /\ len \in Int
        BY <4>1, <3>1, <2>5, <2>6
      <4>3. tx \notin Capped(p.pending, len) => t \notin Capped(p.pending, len)
        BY Zenon, <4>1, <4>2, <1>2, CappedDown
      <4>4. t \in list
        BY Zenon, <4>1, <4>3, <2>6
      <4> QED
        BY Zenon, <4>1, <4>4
    <3>2. NoGap(list, p.state.nonce)
      BY Zenon, <3>1 DEF NoGap
    <3> QED
      BY Zenon, <3>2, <2>11, FilledBy
  <2>16. ASSUME NEW a \in Account, \E tx \in p.pending : tx.from = a
         PROVE  \E tx \in list : tx.from = a
    <3>1. Of(p.pending, a) \in SUBSET Tx /\ Of(p.pending, a) # {}
      BY Zenon, <2>16, <1>2 DEF Of
    <3>2. PICK t \in Of(p.pending, a) : \A x \in Of(p.pending, a) : t.nonce <= x.nonce
      BY Zenon, <3>1, ListEnds
    <3>3. t \in p.pending /\ t.from = a
      BY Zenon, <3>2 DEF Of
    <3>4. ASSUME NEW x \in Below(p.pending, t) PROVE FALSE
      <4>1. x \in Of(p.pending, a) /\ x.nonce < t.nonce /\ x \in p.pending
        BY Zenon, <3>3, <3>4 DEF Below, Of
      <4>2. t.nonce <= x.nonce /\ x.nonce \in Nat /\ t.nonce \in Nat
        BY Zenon, <4>1, <3>2, <3>3, <1>2
      <4> QED
        BY <4>1, <4>2
    <3>5. Cardinality(Below(p.pending, t)) = 0
      <4>1. Below(p.pending, t) = {}
        BY Zenon, <3>4
      <4> QED
        BY Zenon, <4>1, FS_EmptySet
    <3>6. ~(0 >= len)
      BY <2>5
    <3>7. t \notin Capped(p.pending, len)
      BY Zenon, <3>3, <3>5, <3>6, CappedBelow
    <3> QED
      BY Zenon, <3>3, <3>7, <2>6
  <2>17. Rooted(r)
    <3>1. ASSUME NEW a \in Account
          PROVE  /\ p.state.nonce[a] <= ns[a]
                 /\ ns[a] = p.state.nonce[a] \/ \E tx \in list : tx.from = a
      <4>1. ns[a] = p.nonces[a] \/ \E tx \in caps : tx.from = a /\ ns[a] = tx.nonce
        BY Zenon, <2>8 DEF IsLowered
      <4>2. CASE ns[a] = p.nonces[a]
        BY Zenon, <4>2, <2>16 DEF Rooted
      <4>3. CASE \E tx \in caps : tx.from = a /\ ns[a] = tx.nonce
        <5>1. PICK tx \in caps : tx.from = a /\ ns[a] = tx.nonce
          BY Zenon, <4>3
        <5>2. tx \in p.pending
          BY Zenon, <5>1, <2>4
        <5> QED
          BY Zenon, <5>1, <5>2, <2>16 DEF Usable
      <4> QED
        BY Zenon, <4>1, <4>2, <4>3
    <3> QED
      BY Zenon, <3>1, <2>11 DEF Rooted
  <2>18. PendingFits(r)
    <3>1. CASE len \in fits
      <4>1. Cardinality(list) <= GlobalSlots
        BY Zenon, <3>1, <2>1, <2>3
      <4> QED
        BY Zenon, <4>1, <2>11 DEF PendingFits
    <3>2. CASE len = AccountSlots
      <4>1. ASSUME NEW a \in Account \ p.locals
            PROVE  Cardinality(Of(list, a)) <= AccountSlots
        <5>1. PICK L : L = Of(list, a)
          BY Zenon
        <5>2. PICK P : P = Of(p.pending, a)
          BY Zenon
        <5>3. L \subseteq P /\ P \in SUBSET Tx
          BY Zenon, <5>1, <5>2, <2>6, <1>2 DEF Of
        <5>4. CASE a \in Spammers(p)
          <6>1. PICK K : K = Of(p.pending \ Capped(p.pending, len), a)
            BY Zenon
          <6>2. L \subseteq K
            BY Zenon, <5>1, <5>4, <6>1, <2>6 DEF Of
          <6>3. len \in Nat /\ \A s, t \in p.pending : Same(s, t) => s = t
            BY Zenon, <2>5, <1>1
          <6>4. Cardinality(K) <= len
            BY Zenon, <6>1, <6>3, <1>2, CappedLeft
          <6>5. K \in SUBSET Tx
            BY Zenon, <6>1, <1>2 DEF Of
          <6>6. IsFiniteSet(K)
            BY Zenon, <6>5, TxTypes, FS_Subset
          <6>7. Cardinality(L) <= Cardinality(K)
            BY Zenon, <6>2, <6>6, FS_Subset
          <6>8. Cardinality(L) \in Nat /\ Cardinality(K) \in Nat
            BY Zenon, <6>2, <6>6, FS_Subset, FS_CardinalityType
          <6> QED
            BY <6>4, <6>7, <6>8, <5>1, <3>2, <2>5
        <5>5. CASE a \notin Spammers(p)
          <6>1. ~(Cardinality(P) > AccountSlots)
            BY Zenon, <5>2, <5>5, <4>1 DEF Spammers
          <6>2. IsFiniteSet(P)
            BY Zenon, <5>3, TxTypes, FS_Subset
          <6>3. Cardinality(L) <= Cardinality(P)
            BY Zenon, <5>3, <6>2, FS_Subset
          <6>4. Cardinality(L) \in Nat /\ Cardinality(P) \in Nat
            BY Zenon, <5>3, <6>2, FS_Subset, FS_CardinalityType
          <6> QED
            BY <6>1, <6>3, <6>4, <5>1, <2>5
        <5> QED
          BY Zenon, <5>4, <5>5
      <4> QED
        BY Zenon, <4>1, <2>11 DEF PendingFits
    <3> QED
      BY Zenon, <3>1, <3>2, <2>5
  <2> QED
    BY Zenon, <2>6, <2>11, <2>12, <2>13, <2>14, <2>15, <2>17, <2>18
<1> QED
  BY Zenon, <1>3, <1>4

\* TxPool.removeTx of queued transactions leaves the pending ones alone.
QueueRemoved(p, txs, r) ==
    /\ Dropped(p, txs, r)
    /\ r.pending = p.pending /\ r.nonces = p.nonces /\ r.queue = p.queue \ txs

LEMMA RemoveQueued ==
    ASSUME NEW p, Core(p), NEW txs \in SUBSET p.queue, NEW o \in Ranks,
           NEW r, r = removeTx(p, txs, o)
    PROVE  QueueRemoved(p, txs, r)
<1>1. /\ p \in Pools /\ p.pending \cap p.queue = {}
      /\ p.localTxs \cup p.remotes = p.pending \cup p.queue
  BY Zenon DEF Core
<1>2. txs \cap All(p) = txs
  BY Zenon, <1>1 DEF All
<1>3. Removed(p, txs, r)
  BY Zenon, <1>2, RemoveFacts
<1>4. txs \cap p.pending = {}
  BY Zenon, <1>1
<1>5. r.pending = p.pending
  BY Zenon, <1>3, <1>4 DEF Removed, Ahead
<1>6. r.queue = p.queue \ txs
  <2>1. /\ r.pending \cup r.queue = (p.pending \cup p.queue) \ txs
        /\ r.pending \cap r.queue = {}
    BY Zenon, <1>3 DEF Removed
  <2> QED
    BY <2>1, <1>1, <1>4, <1>5
<1>7. r.nonces = p.nonces
  <2>1. PICK none : none = txs \cap p.pending
    BY Zenon
  <2>2. p.nonces \in [Account -> Nat] /\ none \in SUBSET Tx
    BY Zenon, <2>1, <1>1, PoolTypes
  <2>3. r.nonces = Lowered(p.nonces, none)
    BY Zenon, <2>1, <1>3 DEF Removed
  <2>4. IsLowered(p.nonces, none, r.nonces)
    BY Zenon, <2>2, <2>3, LoweredFacts
  <2>5. \A a \in Account : r.nonces[a] = p.nonces[a]
    BY Zenon, <2>1, <2>4, <1>4 DEF IsLowered
  <2>6. r.nonces \in [Account -> Nat]
    BY Zenon, <2>4 DEF IsLowered
  <2> QED
    BY <2>2, <2>5, <2>6
<1> QED
  BY Zenon, <1>3, <1>5, <1>6, <1>7 DEF QueueRemoved, Removed, Dropped

\* The queue limit, or nothing queued for remote accounts.
QueueFits(p) ==
    \/ Cardinality(p.queue) <= GlobalQueue
    \/ \A a \in Account \ p.locals : Of(p.queue, a) = {}

\* What truncateQueue drops.
Excesses(p) == UNION {Excess(p, a) : a \in Account \ p.locals}

\* Either every remote account loses its queue, or the queue is down to its
\* limit: the remote account with the latest heartbeat among those that keep a
\* transaction loses what the later ones leave of the excess.
LEMMA ExcessesEnough ==
    ASSUME NEW p, Core(p), ~(Cardinality(p.queue) <= GlobalQueue),
           NEW rest, rest = p.queue \ Excesses(p)
    PROVE  \/ Cardinality(rest) <= GlobalQueue
           \/ \A tx \in rest : tx.from \in p.locals
<1> SUFFICES ASSUME NEW some \in rest, some.from \notin p.locals
             PROVE  Cardinality(rest) <= GlobalQueue
  BY Zenon
<1>1. /\ p \in Pools /\ p.queue \in SUBSET Tx /\ p.beats \in [Account -> Nat]
      /\ \A s, t \in p.queue : Same(s, t) => s = t
      /\ \A tx \in p.queue : tx.from \in Account
  BY Zenon, PoolTypes DEF Core
<1>2. GlobalQueue \in Nat
  BY Zenon, LimitTypes
<1>3. PICK Live : Live = {a \in Account \ p.locals : \E tx \in rest : tx.from = a}
  BY Zenon
<1>4. PICK a \in Live : \A b \in Live : p.beats[b] <= p.beats[a]
  <2>1. PICK S : S = {p.beats[b] : b \in Live}
    BY Zenon
  <2>2. Live \in SUBSET Account /\ some.from \in Live
    BY Zenon, <1>1, <1>3
  <2>3. S \in SUBSET Nat
    BY <2>1, <2>2, <1>1
  <2>4. S # {} /\ \A b \in Live : p.beats[b] \in S
    BY Zenon, <2>1, <2>2
  <2>5. IsFiniteSet(S)
    <3>1. PICK f : f = [b \in Live |-> p.beats[b]]
      BY Zenon
    <3>2. f \in Surjection(Live, S)
      BY <2>1, <3>1 DEF Surjection
    <3>3. IsFiniteSet(Live)
      BY Zenon, <2>2, TxTypes, FS_Subset
    <3> QED
      BY Zenon, <3>2, <3>3, FS_Surjection
  <2>6. PICK b \in Nat : \A n \in S : n <= b
    BY Zenon, <2>3, <2>5, FiniteBounded
  <2>7. Max(S) \in S /\ \A m \in S : m <= Max(S)
    BY Zenon, <2>3, <2>4, <2>6, MaxFacts
  <2> QED
    BY Zenon, <2>1, <2>4, <2>7
<1>5. PICK later : later = {tx \in p.queue : /\ tx.from \notin p.locals
                                             /\ p.beats[tx.from] > p.beats[a]}
  BY Zenon
<1>6. later \subseteq Excesses(p)
  <2>1. ASSUME NEW tx \in later, tx \in rest PROVE FALSE
    <3>1. /\ tx \in p.queue /\ tx.from \notin p.locals /\ tx.from \in Account
          /\ p.beats[tx.from] > p.beats[a]
      BY Zenon, <1>1, <1>5
    <3>2. tx.from \in Live
      BY Zenon, <2>1, <3>1, <1>3
    <3>3. p.beats[tx.from] <= p.beats[a] /\ a \in Account
      BY Zenon, <3>2, <1>3, <1>4
    <3>4. p.beats[tx.from] \in Nat /\ p.beats[a] \in Nat
      BY <3>1, <3>3, <1>1
    <3> QED
      BY <3>1, <3>3, <3>4
  <2> QED
    BY Zenon, <2>1, <1>5
<1>7. PICK L : L = Of(p.queue, a)
  BY Zenon
<1>8. PICK drop : drop = Cardinality(p.queue) - GlobalQueue - Cardinality(later)
  BY Zenon
<1>9. PICK size : size = Cardinality(L) - drop
  BY Zenon
<1>10. Excess(p, a) = Capped(L, size)
  BY Zenon, <1>5, <1>7, <1>8, <1>9 DEF Excess
<1>11. /\ L \in SUBSET Tx /\ later \in SUBSET Tx /\ rest \in SUBSET Tx
       /\ L \in SUBSET p.queue /\ later \in SUBSET p.queue /\ rest \in SUBSET p.queue
  BY Zenon, <1>1, <1>5, <1>7 DEF Of
<1>12. PICK K : K = L \ Capped(L, size)
  BY Zenon
<1>13. rest \subseteq ((p.queue \ later) \ L) \cup K
  <2>1. a \in Account \ p.locals
    BY Zenon, <1>3, <1>4
  <2>2. Excess(p, a) \subseteq Excesses(p)
    BY Zenon, <2>1 DEF Excesses
  <2> QED
    BY Zenon, <2>2, <1>6, <1>10, <1>12
<1>14. L \cap later = {}
  <2>1. ASSUME NEW tx \in L, tx \in later PROVE FALSE
    <3>1. p.beats[a] > p.beats[a] /\ a \in Account
      BY Zenon, <2>1, <1>3, <1>4, <1>5, <1>7 DEF Of
    <3>2. p.beats[a] \in Nat
      BY <3>1, <1>1
    <3> QED
      BY <3>1, <3>2
  <2> QED
    BY Zenon, <2>1
<1>15. /\ IsFiniteSet(p.queue) /\ IsFiniteSet(L) /\ IsFiniteSet(later)
       /\ IsFiniteSet(rest) /\ IsFiniteSet(K)
       /\ Cardinality(p.queue) \in Nat /\ Cardinality(L) \in Nat
       /\ Cardinality(later) \in Nat /\ Cardinality(rest) \in Nat /\ Cardinality(K) \in Nat
  <2>1. K \in SUBSET Tx
    BY Zenon, <1>11, <1>12
  <2> QED
    BY Zenon, <2>1, <1>1, <1>11, TxTypes, FS_Subset, FS_CardinalityType
<1>16. PICK other : other = (p.queue \ later) \ L
  BY Zenon
<1>17. /\ IsFiniteSet(other) /\ Cardinality(other) \in Nat
       /\ Cardinality(other) = Cardinality(p.queue) - Cardinality(later) - Cardinality(L)
  <2>1. PICK early : early = p.queue \ later
    BY Zenon
  <2>2. p.queue \cap later = later /\ early \cap L = L
    BY Zenon, <2>1, <1>11, <1>14
  <2>3. /\ IsFiniteSet(early)
        /\ Cardinality(early) = Cardinality(p.queue) - Cardinality(later)
    BY Zenon, <2>1, <2>2, <1>15, FS_Difference
  <2>4. /\ IsFiniteSet(other)
        /\ Cardinality(other) = Cardinality(early) - Cardinality(L)
    <3>1. other = early \ L /\ IsFiniteSet(early) /\ IsFiniteSet(L) /\ early \cap L = L
      BY Zenon, <2>1, <2>2, <2>3, <1>15, <1>16
    <3> QED
      BY Zenon, <3>1, FS_Difference
  <2>5. Cardinality(other) \in Nat
    BY Zenon, <2>4, FS_CardinalityType
  <2> QED
    BY Zenon, <2>3, <2>4, <2>5
<1>18. Cardinality(rest) <= Cardinality(other) + Cardinality(K)
  <2>1. PICK both : both = other \cup K
    BY Zenon
  <2>2. IsFiniteSet(both) /\ rest \subseteq both
    BY Zenon, <2>1, <1>13, <1>15, <1>16, <1>17, FS_Union
  <2>3. Cardinality(rest) <= Cardinality(both) /\ Cardinality(both) \in Nat
    BY Zenon, <2>2, FS_Subset, FS_CardinalityType
  <2>4. /\ Cardinality(both) = Cardinality(other) + Cardinality(K)
                               - Cardinality(other \cap K)
        /\ Cardinality(other \cap K) \in Nat
    <3>1. Cardinality(both) = Cardinality(other) + Cardinality(K)
                              - Cardinality(other \cap K)
      BY Zenon, <2>1, <1>15, <1>17, FS_Union
    <3>2. IsFiniteSet(other \cap K)
      BY Zenon, <1>15, FS_Intersection
    <3> QED
      BY Zenon, <3>1, <3>2, FS_CardinalityType
  <2> QED
    BY <2>3, <2>4, <1>15, <1>17
<1>19. drop \in Int /\ size \in Int
  BY <1>2, <1>8, <1>9, <1>15
<1>20. PICK own \in rest : own.from = a
  BY Zenon, <1>3, <1>4
<1>21. own \in L /\ own \notin Capped(L, size)
  <2>1. a \in Account \ p.locals
    BY Zenon, <1>3, <1>4
  <2>2. own \notin Excess(p, a) /\ own \in p.queue
    BY Zenon, <2>1 DEF Excesses
  <2> QED
    BY Zenon, <2>2, <1>7, <1>10, <1>20 DEF Of
<1>22. size > 0
  <2>1. PICK n : n = Cardinality(Below(L, own))
    BY Zenon
  <2>2. n \in Nat /\ ~(n >= size)
    BY Zenon, <2>1, <1>11, <1>21, BelowFinite, CappedBelow
  <2> QED
    BY <2>2, <1>19
<1>23. Cardinality(K) <= size
  <2>1. size \in Nat /\ \A s, t \in L : Same(s, t) => s = t
    <3>1. size \in Nat
      BY <1>19, <1>22
    <3> QED
      BY Zenon, <3>1, <1>1, <1>11
  <2>2. Of(L \ Capped(L, size), a) = K
    BY Zenon, <1>7, <1>12 DEF Of
  <2> QED
    BY Zenon, <2>1, <2>2, <1>11, CappedLeft
<1> QED
  BY <1>2, <1>8, <1>9, <1>15, <1>17, <1>18, <1>19, <1>23

LEMMA TruncateQueueFacts ==
    ASSUME NEW p, Core(p), NEW r, r = truncateQueue(p)
    PROVE  /\ \E gone : Dropped(p, gone, r) /\ \A tx \in gone : tx.from \notin p.locals
           /\ r.pending = p.pending /\ r.nonces = p.nonces /\ QueueFits(r)
<1>1. CASE Cardinality(p.queue) <= GlobalQueue
  <2>1. r = p
    BY Zenon, <1>1 DEF truncateQueue
  <2>2. PICK none : none = {}
    BY Zenon
  <2>3. Dropped(p, none, r) /\ \A tx \in none : tx.from \notin p.locals
    BY Zenon, <2>1, <2>2, DroppedNone
  <2> QED
    BY Zenon, <2>1, <2>3, <1>1 DEF QueueFits
<1>2. CASE ~(Cardinality(p.queue) <= GlobalQueue)
  <2>1. PICK txs : txs = Excesses(p)
    BY Zenon
  <2>2. r = removeTx(p, txs, Now)
    BY Zenon, <2>1, <1>2 DEF truncateQueue, Excesses
  <2>3. \A tx \in txs : tx \in p.queue /\ tx.from \notin p.locals
    BY Zenon, <2>1 DEF Excesses, Excess, Capped, Of
  <2>4. txs \in SUBSET p.queue /\ Now \in Ranks
    BY Zenon, <2>3, OrdersRank
  <2>5. QueueRemoved(p, txs, r)
    BY Zenon, <2>2, <2>4, RemoveQueued
  <2>6. r.queue = p.queue \ txs /\ r.locals = p.locals
    BY Zenon, <2>5 DEF QueueRemoved, Dropped
  <2>7. \/ Cardinality(r.queue) <= GlobalQueue
        \/ \A tx \in r.queue : tx.from \in p.locals
    BY Zenon, <2>1, <2>6, <1>2, ExcessesEnough
  <2>8. QueueFits(r)
    BY Zenon, <2>6, <2>7 DEF QueueFits, Of
  <2> QED
    BY Zenon, <2>3, <2>5, <2>8 DEF QueueRemoved
<1> QED
  BY Zenon, <1>1, <1>2

-----------------------------------------------------------------------------
(* Reorganisation. *)

LEMMA LatestFacts ==
    ASSUME NEW p, Core(p), Usable(p), Filled(p), Rooted(p), NEW r, r = latestNonces(p)
    PROVE  /\ Dropped(p, {}, r) /\ r.pending = p.pending /\ r.queue = p.queue
           /\ Usable(r) /\ Filled(r) /\ Exact(r)
<1>1. /\ p \in Pools /\ p.pending \cap p.queue = {}
      /\ \A tx \in p.queue : p.beats[tx.from] # 0
  BY Zenon DEF Core
<1>2. p.pending \in SUBSET Tx /\ p.nonces \in [Account -> Nat]
  BY Zenon, <1>1, PoolTypes
<1>3. PICK ns : ns = Raised(p.nonces, p.pending)
  BY Zenon
<1>4. IsRaised(p.nonces, p.pending, ns)
  BY Zenon, <1>2, <1>3, RaisedFacts
<1>5. ns \in [Account -> Nat]
  BY Zenon, <1>4 DEF IsRaised
<1>6. r = [p EXCEPT !.nonces = ns]
  BY Zenon, <1>3 DEF latestNonces, Raised
<1>7. /\ r \in Pools /\ r.pending = p.pending /\ r.queue = p.queue /\ r.locals = p.locals
      /\ r.localTxs = p.localTxs /\ r.remotes = p.remotes /\ r.state = p.state
      /\ r.beats = p.beats /\ r.nonces = ns
  <2>1. p \in Pools
    BY Zenon, <1>1
  <2> QED
    BY <2>1, <1>5, <1>6 DEF Pools
<1>8. Dropped(p, {}, r)
  <2>1. /\ r.pending \cup r.queue = (p.pending \cup p.queue) \ {}
        /\ r.localTxs = p.localTxs \ {} /\ r.remotes = p.remotes \ {}
    BY <1>7
  <2> QED
    BY Zenon, <2>1, <1>1, <1>7 DEF Dropped
<1>9. Usable(r) /\ Filled(r)
  <2>1. r.pending = p.pending /\ r.state = p.state
    BY Zenon, <1>7
  <2> QED
    BY <2>1 DEF Usable, Filled
<1>10. ASSUME NEW a \in Account
       PROVE  /\ p.state.nonce[a] <= ns[a]
              /\ \A tx \in p.pending : tx.from = a => tx.nonce < ns[a]
              /\ \/ ns[a] = p.state.nonce[a]
                 \/ \E tx \in p.pending : tx.from = a /\ ns[a] = tx.nonce + 1
  <2>1. CASE \A tx \in p.pending : tx.from # a
    <3>1. ns[a] = p.nonces[a]
      BY Zenon, <2>1, <1>4 DEF IsRaised
    <3> QED
      BY Zenon, <2>1, <3>1 DEF Rooted
  <2>2. CASE \E tx \in p.pending : tx.from = a
    <3>1. /\ \A tx \in p.pending : tx.from = a => tx.nonce < ns[a]
          /\ \E tx \in p.pending : tx.from = a /\ ns[a] = tx.nonce + 1
      BY Zenon, <2>2, <1>4 DEF IsRaised
    <3>2. PICK t \in p.pending : t.from = a /\ ns[a] = t.nonce + 1
      BY Zenon, <3>1
    <3>3. p.state.nonce[a] <= t.nonce /\ t.nonce \in Nat
      BY Zenon, <3>2, <1>2, TxTypes DEF Usable
    <3>4. p.state.nonce[a] \in Nat
      BY <1>1, PoolTypes
    <3>5. p.state.nonce[a] <= ns[a]
      BY <3>2, <3>3, <3>4
    <3> QED
      BY Zenon, <3>1, <3>5
  <2> QED
    BY Zenon, <2>1, <2>2
<1>11. Exact(r)
  BY Zenon, <1>7, <1>10 DEF Exact
<1> QED
  BY Zenon, <1>7, <1>8, <1>9, <1>11

\* A pool between two locked sections.
Good(p) == Core(p) /\ Usable(p) /\ Filled(p) /\ Exact(p)

LEMMA ExactNear ==
    ASSUME NEW p, Usable(p), Exact(p)
    PROVE  Near(p)
<1> SUFFICES ASSUME NEW a \in Account, p.nonces[a] # p.state.nonce[a]
             PROVE  /\ \E tx \in p.pending : tx.from = a /\ p.nonces[a] = tx.nonce + 1
                    /\ \A tx \in p.pending : tx.from = a =>
                           /\ tx.nonce < p.nonces[a]
                           /\ p.state.nonce[a] <= tx.nonce => tx.cost <= p.state.balance[a]
  BY Zenon DEF Near, Exact
<1> QED
  BY Zenon DEF Exact, Usable

LEMMA NearRooted ==
    ASSUME NEW p, Near(p)
    PROVE  Rooted(p)
  BY Zenon DEF Near, Rooted

\* The nonces of a head are not below those of another.
NotBefore(h, g) == \A a \in Account : h.nonce[a] <= g.nonce[a]

\* A pool moved to another head.
Moved(p, head, r) ==
    /\ Core(r) /\ Filled(r) /\ Near(r) /\ r.state = head
    /\ r.pending = p.pending /\ r.queue = p.queue /\ r.locals = p.locals
    /\ r.localTxs = p.localTxs /\ r.remotes = p.remotes

LEMMA ResetFacts ==
    ASSUME NEW p, Good(p), NEW head \in Heads, NotBefore(p.state, head),
           NEW r, r = resetTo(p, head)
    PROVE  Moved(p, head, r)
<1>1. /\ p \in Pools /\ p.pending \cap p.queue = {}
      /\ Filled(p)
  BY Zenon DEF Core, Good
<1>2. head.nonce \in [Account -> Nat]
  BY DEF Heads
<1>3. r = [p EXCEPT !.state = head, !.nonces = head.nonce]
  BY Zenon DEF resetTo
<1>4. /\ r \in Pools /\ r.pending = p.pending /\ r.queue = p.queue /\ r.locals = p.locals
      /\ r.localTxs = p.localTxs /\ r.remotes = p.remotes /\ r.state = head
      /\ r.beats = p.beats /\ r.nonces = head.nonce
  <2>1. p \in Pools
    BY Zenon, <1>1
  <2> QED
    BY <2>1, <1>2, <1>3 DEF Pools
<1>5. Core(r)
  BY Zenon, <1>4 DEF Core, Good
<1>6. Filled(r)
  <2>1. ASSUME NEW tx \in p.pending, NEW n \in Nat, head.nonce[tx.from] <= n, n < tx.nonce
        PROVE  \E t \in p.pending : t.from = tx.from /\ t.nonce = n
    <3>1. tx.from \in Account
      BY Zenon, <1>1, PoolTypes
    <3>2. p.state.nonce[tx.from] <= head.nonce[tx.from]
      BY Zenon, <3>1 DEF NotBefore
    <3>3. p.state.nonce[tx.from] \in Nat /\ head.nonce[tx.from] \in Nat
      BY <3>1, <1>1, <1>2, PoolTypes
    <3>4. p.state.nonce[tx.from] <= n
      BY <3>2, <3>3, <2>1
    <3> QED
      BY Zenon, <3>4, <2>1, <1>1 DEF Filled
  <2>2. r.pending = p.pending /\ r.state.nonce = head.nonce
    BY Zenon, <1>4
  <2> QED
    BY <2>1, <2>2 DEF Filled
<1>7. Near(r)
  <2>1. \A a \in Account : head.nonce[a] <= head.nonce[a]
    BY <1>2
  <2> QED
    BY Zenon, <2>1, <1>4 DEF Near
<1> QED
  BY Zenon, <1>4, <1>5, <1>6, <1>7 DEF Moved

\* The limits of the pool.
Fits(p) == PendingFits(p) /\ QueueFits(p)

LEMMA TruncatedFacts ==
    ASSUME NEW p, Core(p), Usable(p), Filled(p), Rooted(p),
           NEW r, r = latestNonces(truncateQueue(truncatePending(p)))
    PROVE  Good(r) /\ Trims(p, r) /\ Fits(r)
<1>1. PICK q : q = truncatePending(p)
  BY Zenon
<1>2. PICK s : s = truncateQueue(q)
  BY Zenon
<1>3. r = latestNonces(s)
  BY Zenon, <1>1, <1>2
<1>4. /\ \E gone : Dropped(p, gone, q) /\ \A tx \in gone : tx.from \notin p.locals
      /\ Usable(q) /\ Filled(q) /\ Rooted(q) /\ PendingFits(q)
  BY Zenon, <1>1, TruncatePendingFacts
<1>5. Trims(p, q) /\ Core(q)
  BY Zenon, <1>4, DroppedTrims
<1>6. /\ \E gone : Dropped(q, gone, s) /\ \A tx \in gone : tx.from \notin q.locals
      /\ s.pending = q.pending /\ s.nonces = q.nonces /\ QueueFits(s)
  BY Zenon, <1>2, <1>5, TruncateQueueFacts
<1>7. Trims(q, s) /\ Core(s)
  BY Zenon, <1>5, <1>6, DroppedTrims
<1>8. s.state = q.state /\ s.locals = q.locals
  BY Zenon, <1>7 DEF Trims, Shrinks
<1>9. Usable(s) /\ Filled(s) /\ Rooted(s)
  <2>1. s.pending = q.pending /\ s.nonces = q.nonces /\ s.state = q.state
    BY Zenon, <1>6, <1>8
  <2> QED
    BY <2>1, <1>4 DEF Usable, Filled, Rooted
<1>10. PendingFits(s)
  BY Zenon, <1>4, <1>6, <1>8 DEF PendingFits
<1>11. /\ Dropped(s, {}, r) /\ r.pending = s.pending /\ r.queue = s.queue
       /\ Usable(r) /\ Filled(r) /\ Exact(r)
  BY Zenon, <1>3, <1>7, <1>9, LatestFacts
<1>12. Trims(s, r) /\ Core(r)
  <2>1. PICK none : none = {}
    BY Zenon
  <2>2. Dropped(s, none, r) /\ \A tx \in none : tx.from \notin s.locals
    BY Zenon, <2>1, <1>11
  <2> QED
    BY Zenon, <2>2, <1>7, DroppedTrims
<1>13. r.locals = s.locals
  BY Zenon, <1>12 DEF Trims, Shrinks
<1>14. Fits(r)
  BY Zenon, <1>6, <1>10, <1>11, <1>13 DEF Fits, PendingFits, QueueFits
<1>15. Trims(p, r)
  BY Zenon, <1>5, <1>7, <1>12, TrimsTransitive
<1> QED
  BY Zenon, <1>11, <1>12, <1>14, <1>15 DEF Good

\* What a locked section does to the transactions of the pool.
Reorganized(p, head, r) ==
    /\ Good(r) /\ Fits(r)
    /\ r.state = (IF head = None THEN p.state ELSE head)
    /\ r.locals = p.locals
    /\ All(r) \subseteq All(p) /\ r.remotes \subseteq p.remotes
    /\ \A tx \in All(p) \ All(r) : Spent(r, tx) \/ tx.from \notin p.locals

LEMMA ReorganizeFacts ==
    ASSUME NEW p, Good(p), NEW head, NEW isReset, NEW dirty,
           head # None => head \in Heads /\ NotBefore(p.state, head) /\ isReset,
           NEW g \in reorganize(p, head, isReset, dirty)
    PROVE  Reorganized(p, head, g.p)
<1> DEFINE p1   == IF head = None THEN p ELSE resetTo(p, head)
           accs == IF isReset THEN From(p1.queue) ELSE dirty
           up   == {promoteExecutables(p1, accs, o) : o \in Orders}
           down == IF isReset
                   THEN UNION {{demoteUnexecutables(q, o) : o \in Orders} : q \in up}
                   ELSE up
           new  == (UNION {q.pending : q \in up}) \ p1.pending
<1>1. p1 = IF head = None THEN p ELSE resetTo(p, head)
  OBVIOUS
<1>2. up = {promoteExecutables(p1, accs, o) : o \in Orders}
  OBVIOUS
<1>3. down = IF isReset
             THEN UNION {{demoteUnexecutables(q, o) : o \in Orders} : q \in up}
             ELSE up
  OBVIOUS
<1>4. PICK q \in down :
        g = [p |-> latestNonces(truncateQueue(truncatePending(q))), promoted |-> new]
  BY Zenon DEF reorganize
<1> HIDE DEF p1, accs, up, down, new
<1>5. g.p = latestNonces(truncateQueue(truncatePending(q)))
  BY Zenon, <1>4
<1>6. /\ Core(p1) /\ Filled(p1) /\ Near(p1) /\ (~isReset => Usable(p1))
      /\ p1.state = (IF head = None THEN p.state ELSE head)
      /\ p1.pending = p.pending /\ p1.queue = p.queue /\ p1.locals = p.locals
      /\ p1.localTxs = p.localTxs /\ p1.remotes = p.remotes
  <2>1. CASE head = None
    <3>1. p1 = p
      BY Zenon, <2>1, <1>1
    <3> QED
      BY Zenon, <2>1, <3>1, ExactNear DEF Good
  <2>2. CASE head # None
    <3>1. p1 = resetTo(p, head)
      BY Zenon, <2>2, <1>1
    <3>2. head \in Heads /\ NotBefore(p.state, head) /\ isReset
      BY Zenon, <2>2
    <3>3. Moved(p, head, p1)
      BY Zenon, <3>1, <3>2, ResetFacts
    <3> QED
      BY Zenon, <2>2, <3>2, <3>3 DEF Moved
  <2> QED
    BY Zenon, <2>1, <2>2
<1>7. ASSUME NEW u \in up
       PROVE  /\ Core(u) /\ Filled(u) /\ Near(u) /\ (~isReset => Usable(u))
              /\ Trims(p1, u)
  <2>1. PICK o \in Orders : u = promoteExecutables(p1, accs, o)
    BY Zenon, <1>2
  <2>2. o \in Ranks
    BY Zenon, OrdersRank
  <2>3. PICK ready, gone : Promoted(p1, ready, gone, u)
    BY Zenon, <2>1, <2>2, <1>6, PromoteFacts
  <2>4. Filled(u) /\ Near(u) /\ (Usable(p1) => Usable(u))
    BY Zenon, <2>3, <1>6, PromotedRuns
  <2>5. Dropped(p1, gone, u)
    BY Zenon, <2>3, <1>6, PromotedDropped
  <2>6. \A tx \in gone : Spent(p1, tx) \/ tx.from \notin p1.locals
    BY Zenon, <2>3 DEF Promoted
  <2>7. Trims(p1, u) /\ Core(u)
    BY Zenon, <2>5, <2>6, <1>6, DroppedTrims
  <2> QED
    BY Zenon, <2>4, <2>7, <1>6
<1>8. Core(q) /\ Usable(q) /\ Filled(q) /\ Rooted(q) /\ Trims(p1, q)
  <2>1. CASE ~isReset
    <3>1. q \in up
      BY Zenon, <2>1, <1>3
    <3> QED
      BY Zenon, <2>1, <3>1, <1>7, NearRooted
  <2>2. CASE isReset
    <3>1. PICK u \in up, o \in Orders : q = demoteUnexecutables(u, o)
      BY Zenon, <2>2, <1>3
    <3>2. o \in Ranks
      BY Zenon, OrdersRank
    <3>3. Core(u) /\ Filled(u) /\ Near(u) /\ Trims(p1, u)
      BY Zenon, <1>7
    <3>4. /\ \E gone : Dropped(u, gone, q) /\ \A tx \in gone : Spent(u, tx)
          /\ Usable(q) /\ Filled(q) /\ Rooted(q)
      BY Zenon, <3>1, <3>2, <3>3, DemoteFacts
    <3>5. Trims(u, q) /\ Core(q)
      BY Zenon, <3>3, <3>4, DroppedTrims
    <3> QED
      BY Zenon, <3>3, <3>4, <3>5, TrimsTransitive
  <2> QED
    BY Zenon, <2>1, <2>2
<1>9. PICK r : r = g.p
  BY Zenon
<1>10. Good(r) /\ Trims(q, r) /\ Fits(r)
  BY Zenon, <1>5, <1>8, <1>9, TruncatedFacts
<1>11. Trims(p1, r)
  BY Zenon, <1>8, <1>10, TrimsTransitive
<1>12. /\ All(p) = p1.pending \cup p1.queue /\ All(r) = r.pending \cup r.queue
  BY Zenon, <1>6, <1>10 DEF Good, Core, All
<1>13. /\ r.state = p1.state /\ r.locals = p1.locals
       /\ r.pending \cup r.queue \subseteq p1.pending \cup p1.queue
       /\ r.remotes \subseteq p1.remotes
       /\ \A tx \in (p1.pending \cup p1.queue) \ (r.pending \cup r.queue) :
              Spent(p1, tx) \/ tx.from \notin p1.locals
  <2>1. r.remotes = p1.remotes \cap (r.pending \cup r.queue)
    BY Zenon, <1>11 DEF Trims, Shrinks
  <2> QED
    BY Zenon, <2>1, <1>11 DEF Trims, Shrinks
<1>14. \A tx \in All(p) \ All(r) : Spent(r, tx) \/ tx.from \notin p.locals
  <2>1. \A tx : Spent(r, tx) <=> Spent(p1, tx)
    BY Zenon, <1>13 DEF Spent
  <2> QED
    BY Zenon, <2>1, <1>6, <1>12, <1>13
<1>15. r.state = (IF head = None THEN p.state ELSE head) /\ r.locals = p.locals
       /\ All(r) \subseteq All(p) /\ r.remotes \subseteq p.remotes
  BY Zenon, <1>6, <1>12, <1>13
<1> QED
  BY Zenon, <1>9, <1>10, <1>14, <1>15 DEF Reorganized
=============================================================================
