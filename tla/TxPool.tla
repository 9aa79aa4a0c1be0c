------------------------------- MODULE TxPool -------------------------------
(***************************************************************************)
(* The transaction pool (evmcore.TxPool): executable transactions in       *)
(* pending, others in queue, one list per account and at most one          *)
(* transaction per nonce in a list.                                        *)
(*                                                                         *)
(* Callers of addTxs and the goroutines loop and runReorg take turns at    *)
(* the pool's lock; each locked section is one step here.  Between its     *)
(* locked section and its promotion request a caller is one of the sets    *)
(* in requests; scheduleReorgLoop merges requests into next while a run,   *)
(* reorg, is on its way.                                                   *)
(*                                                                         *)
(* Abstractions: a transaction takes one slot and has one price (a legacy  *)
(* transaction: fee cap and tip cap are the gas price) and a cost that     *)
(* stands for value, gas and gas limit.  txPricedList is the order of the  *)
(* remote transactions by price: stale entries of its heaps are skipped    *)
(* wherever the code meets them.  The chain has no reorgs (blocks of the   *)
(* DAG are final), so a reset reinjects nothing.                           *)
(***************************************************************************)
EXTENDS Integers, Sequences, FiniteSets, FiniteSetsExt

CONSTANTS
    Account,
    Tx,           \* transactions: [from, nonce, price, cost]
    Batches,      \* sequences of transactions a caller may submit
    PriceLimit,   \* price floor of remote transactions
    Tips,         \* values the recommended tip of the chain may have
    PriceBump,    \* percentage by which a replacement must pay more
    AccountSlots, GlobalSlots, AccountQueue, GlobalQueue,
    Rich, Poor,   \* balances an account may have
    Journal,      \* whether the configuration names a journal file
    ResetErrors,  \* whether opening the state of a head may fail
    MaxCallers,   \* bound: callers between their lock and their request
    MaxBlocks,    \* bound: blocks
    MaxRestarts,  \* bound: restarts
    None

ASSUME ConstantsAssumption ==
    /\ IsFiniteSet(Account) /\ IsFiniteSet(Tx)
    /\ \A tx \in Tx : tx.from \in Account /\ tx.nonce \in Nat /\ tx.cost \in Nat
    /\ \A b \in Batches : b \in Seq(Tx)
    /\ AccountSlots \in Nat \ {0} /\ AccountQueue \in Nat \ {0}
    /\ GlobalSlots \in Nat \ {0} /\ GlobalQueue \in Nat \ {0}
    /\ Rich \in Nat /\ Poor \in Nat
    /\ ResetErrors \subseteq BOOLEAN

VARIABLES
    pool,       \* the fields of TxPool, see Empty
    chain,      \* head of the chain: nonces and balances, and its number
    headCh,     \* heads announced to loop
    requests,   \* promotion requests of callers that left addTxsLocked
    next,       \* scheduleReorgLoop: what the next run will do
    reorg,      \* the run in progress
    announced,  \* transactions of the pool sent to the feed
    journal,    \* the journal of local transactions
    missed,     \* a reset could not open the state (history)
    restarts

vars == <<pool, chain, headCh, requests, next, reorg, announced, journal, missed,
          restarts>>

\* A pool at a head before any transaction.  pending and queue hold the lists
\* of all accounts; beats ranks the accounts by their heartbeats, the oldest
\* first, and is 0 for an account without one.
Empty(head) ==
    [pending |-> {}, queue |-> {}, locals |-> {}, localTxs |-> {}, remotes |-> {},
     nonces |-> head.nonce, state |-> head, beats |-> [a \in Account |-> 0]]

All(p) == p.localTxs \cup p.remotes

NoRequest == [reset |-> None, dirty |-> {}, events |-> {}, launch |-> FALSE]
Idle == [pc |-> "idle"]

Genesis == [nonce |-> [a \in Account |-> 0], balance |-> [a \in Account |-> Rich]]

Init ==
    /\ pool = Empty(Genesis)
    /\ chain = [head |-> Genesis, blocks |-> 0]
    /\ headCh = << >>
    /\ requests = << >>
    /\ next = NoRequest
    /\ reorg = Idle
    /\ announced = {}
    /\ journal = {}
    /\ missed = FALSE
    /\ restarts = 0

-----------------------------------------------------------------------------
(* txList, txLookup, beats. *)

Of(txs, a) == {tx \in txs : tx.from = a}
From(txs) == {tx.from : tx \in txs}
Nonces(txs) == {tx.nonce : tx \in txs}

\* txList.Overlaps.
Same(s, t) == s.from = t.from /\ s.nonce = t.nonce

\* txList.Add: whether tx goes into its list, over a cheaper one if need be.
CanAdd(list, tx) ==
    \A old \in list : Same(old, tx) =>
        /\ tx.price > old.price
        /\ tx.price >= (old.price * (100 + PriceBump)) \div 100

\* txList.Add of transactions with different nonces: those that go into the
\* lists, those they replace, and the lists with them.
Added(list, txs) == {tx \in txs : CanAdd(list, tx)}
Replaced(list, txs) == {old \in list : \E tx \in Added(list, txs) : Same(old, tx)}
Put(list, txs) == (list \ Replaced(list, txs)) \cup Added(list, txs)

\* txList.Cap: what exceeds the size in each list, from the highest nonce down.
Capped(list, size) ==
    {tx \in list : Cardinality({t \in Of(list, tx.from) : t.nonce < tx.nonce}) >= size}

\* txSortedMap.Ready: the run of nonces from the lowest one in each list, if
\* that is not above the account's nonce.
Ready(list, nonces) ==
    {tx \in list :
        LET ns == Nonces(Of(list, tx.from))
        IN  Min(ns) <= nonces[tx.from] /\ Min(ns)..tx.nonce \subseteq ns}

\* Accounts that lose their heartbeat, and accounts whose heartbeat is bumped
\* in an order; only the order of heartbeats matters, so they are ranks.
Beats(beats, dead, bumped, order) ==
    LET time == [a \in Account |-> IF a \in bumped THEN Cardinality(Account) + order[a]
                                   ELSE IF a \in dead THEN 0 ELSE beats[a]]
    IN  [a \in Account |->
            Cardinality({x \in Account : 0 < time[x] /\ time[x] <= time[a]})]

\* Orders in which Go may walk a map of accounts; one for a single account.
Orders == {o \in [Account -> 1..Cardinality(Account)] :
              \A a, b \in Account : o[a] = o[b] => a = b}
Now == [a \in Account |-> 1]

AllRemove(p, txs) == [p EXCEPT !.localTxs = @ \ txs, !.remotes = @ \ txs]
AllAdd(p, tx, local) ==
    IF local THEN [p EXCEPT !.localTxs = @ \cup {tx}]
    ELSE [p EXCEPT !.remotes = @ \cup {tx}]

-----------------------------------------------------------------------------
(* Adding and removing transactions. *)

\* TxPool.enqueueTx for transactions with different accounts or nonces, up to
\* pool.all.Add.
enqueueTx(p, txs, order) ==
    LET old   == Replaced(p.queue, txs)
        first == {a \in From(Added(p.queue, txs)) : p.beats[a] = 0}
    IN  [p EXCEPT !.queue = Put(@, txs), !.localTxs = @ \ old, !.remotes = @ \ old,
                  !.beats = Beats(@, {}, first, order)]

\* Mutant: the transactions behind a removed one stay pending.
removeTxOnly(p, txs, order) ==
    LET gone == txs \cap All(p)
    IN  [p EXCEPT !.pending = @ \ gone, !.queue = @ \ gone,
                  !.localTxs = @ \ gone, !.remotes = @ \ gone,
                  !.nonces = [a \in Account |-> Min({p.nonces[a]} \cup Nonces(Of(gone, a)))]]

\* TxPool.removeTx for each of the transactions: pending transactions behind a
\* removed one go back to the queue, and an account whose queue is empty then
\* loses its heartbeat.
removeTx(p, txs, order) ==
    LET gone == txs \cap All(p)
        hit  == {t \in p.pending : \E g \in gone : Same(t, g)}
        miss == {g \in gone : ~\E t \in hit : Same(t, g)}
        stay == {t \in p.pending : \A h \in Of(hit, t.from) : t.nonce < h.nonce}
        left == {t \in p.queue : ~\E g \in miss : Same(t, g)}
    IN  enqueueTx([p EXCEPT !.pending = stay, !.queue = left,
                            !.localTxs = @ \ gone, !.remotes = @ \ gone,
                            !.nonces = [a \in Account |->
                                           Min({p.nonces[a]} \cup Nonces(Of(hit, a)))],
                            !.beats = Beats(@, From(miss) \ From(left), {}, order)],
                  (p.pending \ stay) \ hit, order)

\* TxPool.validateTx; local transactions too must pay the recommended tip.
validateTx(p, tx, local, tip) ==
    /\ local \/ tx.price >= PriceLimit
    /\ tx.price >= tip
    /\ tx.nonce >= p.state.nonce[tx.from]
    /\ tx.cost <= p.state.balance[tx.from]

\* txPricedList.Underpriced.
Underpriced(p, tx) ==
    p.remotes # {} /\ \A r \in p.remotes : r.price >= tx.price

\* txPricedList.Discard: a cheapest set of remote transactions of that size;
\* among equal prices the higher nonce goes first.
Cheaper(s, t) == s.price < t.price \/ (s.price = t.price /\ s.nonce >= t.nonce)
Discard(p, size) ==
    {D \in SUBSET p.remotes :
        /\ Cardinality(D) = Min({size, Cardinality(p.remotes)})
        /\ \A s \in D, t \in p.remotes \ D : Cheaper(s, t)}

\* Mutant: the pool has room whatever it holds.
OverflowNever(p) == 0

\* Slots a new transaction lacks.
Overflow(p) == Max({0, Cardinality(All(p)) + 1 - (GlobalSlots + GlobalQueue)})

\* Replaces a pending transaction of the same nonce.
replacePending(p, tx, isLocal) ==
    AllAdd([AllRemove(p, Replaced(p.pending, {tx}))
               EXCEPT !.pending = Put(@, {tx}), !.beats = Beats(@, {}, {tx.from}, Now)],
           tx, isLocal)

\* Mutant: the account's earlier transactions stay remote when it is marked.
markLocalOnly(p, a) == [p EXCEPT !.locals = @ \cup {a}]

\* A new local account: txLookup.RemoteToLocals.
markLocal(p, a) ==
    LET moved == {tx \in p.remotes : tx.from \in p.locals \cup {a}}
    IN  [p EXCEPT !.locals = @ \cup {a}, !.remotes = @ \ moved,
                  !.localTxs = @ \cup moved]

\* The rest of TxPool.add once there is room: replace a pending transaction
\* or go to the queue, and mark the sender of a local one.
insert(p, tx, local, isLocal) ==
    LET q == AllAdd(enqueueTx(p, {tx}, Now), tx, isLocal)
    IN  IF \E old \in p.pending : Same(old, tx)
        THEN [ok |-> CanAdd(p.pending, tx), replaced |-> TRUE,
              event |-> {tx}, p |-> replacePending(p, tx, isLocal)]
        ELSE [ok |-> CanAdd(p.queue, tx),
              replaced |-> \E old \in p.queue : Same(old, tx), event |-> {},
              p |-> IF local /\ tx.from \notin p.locals THEN markLocal(q, tx.from) ELSE q]

\* TxPool.add: the possible outcomes.  What Discard drops stays dropped even
\* if the transaction then turns out not to replace a better one.
add(p, tx, local, tip) ==
    LET isLocal == local \/ tx.from \in p.locals
        fail(q) == [ok |-> FALSE, replaced |-> FALSE, event |-> {}, p |-> q]
        done(q) == LET r == insert(q, tx, local, isLocal)
                   IN  IF r.ok THEN r ELSE fail(q)
    IN  IF tx \in All(p) \/ ~validateTx(p, tx, isLocal, tip) THEN {fail(p)}
        ELSE IF Overflow(p) = 0 THEN {done(p)}
        ELSE IF /\ ~isLocal
                /\ Underpriced(p, tx) \/ Cardinality(p.remotes) < Overflow(p)
        THEN {fail(p)}
        ELSE UNION {{done(removeTx(p, D, o)) : o \in Orders} : D \in Discard(p, Overflow(p))}

-----------------------------------------------------------------------------
(* Reorganisation: what runReorg does under the lock.  Accounts meet only in *)
(* the order of their heartbeats, so each loop over accounts is one step.    *)

\* TxPool.promoteTx for transactions with different accounts or nonces.
promoteTx(p, txs, order) ==
    LET new  == Added(p.pending, txs)
        gone == (txs \ new) \cup Replaced(p.pending, txs)
    IN  [p EXCEPT !.pending = Put(@, txs), !.localTxs = @ \ gone, !.remotes = @ \ gone,
                  !.nonces = [a \in Account |->
                                 IF a \in From(new) THEN Max(Nonces(Of(new, a))) + 1
                                 ELSE p.nonces[a]],
                  !.beats = Beats(@, {}, From(new), order)]

\* TxPool.promoteExecutables.
promoteExecutables(p, accs, order) ==
    LET list  == {tx \in p.queue : tx.from \in accs}
        stale == {tx \in list : \/ tx.nonce < p.state.nonce[tx.from]
                                \/ tx.cost > p.state.balance[tx.from]}
        ready == Ready(list \ stale, p.nonces)
        caps  == {tx \in Capped(list \ (stale \cup ready), AccountQueue) :
                     tx.from \notin p.locals}
        gone  == stale \cup caps
        queue == p.queue \ (gone \cup ready)
    IN  [promoteTx(p, ready, order)
            EXCEPT !.queue = queue, !.localTxs = @ \ gone, !.remotes = @ \ gone,
                   !.beats = Beats(@, From(list) \ From(queue), {}, order)]

\* Mutant: what follows an unpayable transaction stays pending.
demoteUnexecutablesKeep(p, order) ==
    LET gone  == {tx \in p.pending : \/ tx.nonce < p.state.nonce[tx.from]
                                     \/ tx.cost > p.state.balance[tx.from]}
    IN  [AllRemove(p, gone) EXCEPT !.pending = @ \ gone]

\* TxPool.demoteUnexecutables.
demoteUnexecutables(p, order) ==
    LET list  == {tx \in p.pending : tx.nonce >= p.state.nonce[tx.from]}
        drops == {tx \in list : tx.cost > p.state.balance[tx.from]}
        keep  == {tx \in list : \A d \in Of(drops, tx.from) : tx.nonce < d.nonce}
        gaps  == {tx \in keep : p.state.nonce[tx.from] \notin Nonces(Of(keep, tx.from))}
        stay  == keep \ gaps
        gone  == (p.pending \ list) \cup drops
    IN  enqueueTx([p EXCEPT !.pending = stay, !.localTxs = @ \ gone, !.remotes = @ \ gone],
                  (list \ drops) \ stay, order)

\* The pending lists, those of the accounts that hold many transactions cut to
\* a length.
Spammers(p) == {a \in Account \ p.locals : Cardinality(Of(p.pending, a)) > AccountSlots}
CutTo(p, length) == p.pending \ {tx \in Capped(p.pending, length) : tx.from \in Spammers(p)}

\* TxPool.truncatePending.  An account becomes an offender once the ones
\* before it, all longer, are down to its length; from then on each round takes
\* one transaction from every offender.  So spammers are cut to a common
\* length, which goes down until the pending transactions fit or it is
\* AccountSlots.
truncatePending(p) ==
    LET size == Cardinality(p.pending)
        fits == {n \in AccountSlots..size : Cardinality(CutTo(p, n)) <= GlobalSlots}
        list == CutTo(p, Max({AccountSlots} \cup fits))
        caps == p.pending \ list
    IN  IF size <= GlobalSlots THEN p
        ELSE [p EXCEPT !.pending = list, !.localTxs = @ \ caps, !.remotes = @ \ caps,
                       !.nonces = [a \in Account |->
                                      Min({p.nonces[a]} \cup Nonces(Of(caps, a)))]]

\* What TxPool.truncateQueue drops from an account: what is left of the excess
\* after the remote accounts with a later heartbeat, from the highest nonce
\* down.
Excess(p, a) ==
    LET later == {tx \in p.queue : tx.from \notin p.locals /\ p.beats[tx.from] > p.beats[a]}
        drop  == Cardinality(p.queue) - GlobalQueue - Cardinality(later)
    IN  Capped(Of(p.queue, a), Cardinality(Of(p.queue, a)) - drop)

\* TxPool.truncateQueue.
truncateQueue(p) ==
    IF Cardinality(p.queue) <= GlobalQueue THEN p
    ELSE removeTx(p, UNION {Excess(p, a) : a \in Account \ p.locals}, Now)

\* TxPool.reset at a new head whose state could be opened.
resetTo(p, head) == [p EXCEPT !.state = head, !.nonces = head.nonce]

\* pool.pendingNonces of accounts with pending transactions.
latestNonces(p) ==
    [p EXCEPT !.nonces = [a \in Account |->
                             IF a \in From(p.pending) THEN Max(Nonces(Of(p.pending, a))) + 1
                             ELSE p.nonces[a]]]

\* The locked section of TxPool.runReorg: its possible outcomes over the
\* orders in which Go walks the maps.  head is None if no state was opened.
reorganize(p, head, isReset, dirty) ==
    LET p1   == IF head = None THEN p ELSE resetTo(p, head)
        accs == IF isReset THEN From(p1.queue) ELSE dirty
        up   == {promoteExecutables(p1, accs, o) : o \in Orders}
        down == IF isReset THEN UNION {{demoteUnexecutables(q, o) : o \in Orders} : q \in up}
                ELSE up
        new  == (UNION {q.pending : q \in up}) \ p1.pending
    IN  {[p |-> latestNonces(truncateQueue(truncatePending(q))), promoted |-> new] :
            q \in down}

-----------------------------------------------------------------------------
(* Steps. *)

\* queuedEvents[addr].Put, one transaction per account and nonce.
PutEvents(events, txs) ==
    {e \in events : \A tx \in txs : e.from # tx.from \/ e.nonce # tx.nonce} \cup txs

\* What addTxs keeps of a call of add.
Noted(acc, tx, r) ==
    [p |-> r.p,
     dirty |-> acc.dirty \cup (IF r.ok /\ ~r.replaced THEN {tx.from} ELSE {}),
     events |-> PutEvents(acc.events, r.event),
     journal |-> acc.journal \cup
                     (IF Journal /\ r.ok /\ tx.from \in r.p.locals THEN {tx} ELSE {})]

\* addTxsLocked: the possible outcomes for a batch.
addTxsLocked(start, txs, local, tip) ==
    LET after[i \in 0..Len(txs)] ==
            IF i = 0 THEN {start}
            ELSE UNION {{Noted(acc, txs[i], r) : r \in add(acc.p, txs[i], local, tip)} :
                            acc \in after[i - 1]}
    IN  after[Len(txs)]

\* TxPool.addTxs up to the unlock, for the transactions not known yet.
addTxs(txs, local, tip) ==
    /\ Len(requests) < MaxCallers
    /\ \A i \in DOMAIN txs : txs[i] \notin All(pool)
    /\ \E r \in addTxsLocked([p |-> pool, dirty |-> {}, events |-> next.events,
                               journal |-> journal], txs, local, tip) :
        /\ pool' = r.p
        /\ requests' = Append(requests, r.dirty)
        /\ next' = [next EXCEPT !.events = r.events]
        /\ journal' = r.journal
        /\ announced' = announced \cap All(r.p)
    /\ UNCHANGED <<chain, headCh, reorg, missed, restarts>>

\* The top of scheduleReorgLoop: launch a run unless one is active.
schedule(n, active) ==
    IF active \/ ~n.launch
    THEN next' = n /\ reorg' = IF active THEN reorg ELSE Idle
    ELSE /\ next' = NoRequest
         /\ reorg' = [pc |-> "launched", reset |-> n.reset, dirty |-> n.dirty,
                      events |-> n.events]

\* The requests left when the scheduler has received one.
Without(s, i) == SubSeq(s, 1, i - 1) \o SubSeq(s, i + 1, Len(s))

\* Mutant: a caller with no dirty account asks for nothing.
requestPromoteExecutablesDirty ==
    \E i \in DOMAIN requests :
        /\ requests' = Without(requests, i)
        /\ schedule([next EXCEPT !.dirty = @ \cup requests[i],
                                 !.launch = @ \/ requests[i] # {}],
                    reorg # Idle)
        /\ UNCHANGED <<pool, chain, headCh, announced, journal, missed, restarts>>

\* requestPromoteExecutables of a caller.
requestPromoteExecutables ==
    \E i \in DOMAIN requests :
        /\ requests' = Without(requests, i)
        /\ schedule([next EXCEPT !.dirty = @ \cup requests[i], !.launch = TRUE],
                    reorg # Idle)
        /\ UNCHANGED <<pool, chain, headCh, announced, journal, missed, restarts>>

\* loop on a new head: requestReset; a later head replaces one not yet taken.
requestReset ==
    /\ headCh # << >>
    /\ headCh' = Tail(headCh)
    /\ schedule([next EXCEPT !.reset = Head(headCh), !.launch = TRUE], reorg # Idle)
    /\ UNCHANGED <<pool, chain, requests, announced, journal, missed, restarts>>

\* The locked section of runReorg; events below the pending nonce are stale
\* after a reset.
runReorg ==
    /\ reorg.pc = "launched"
    /\ \E err \in ResetErrors :
        LET isReset == reorg.reset # None
            head    == IF err THEN None ELSE reorg.reset
            nonces  == IF head = None THEN pool.nonces ELSE head.nonce
            events  == IF isReset
                       THEN {e \in reorg.events : e.nonce >= nonces[e.from]}
                       ELSE reorg.events
        IN  /\ err => isReset
            /\ missed' = (missed \/ err)
            /\ \E r \in reorganize(pool, head, isReset, reorg.dirty) :
                /\ pool' = r.p
                /\ reorg' = [pc |-> "announce", events |-> PutEvents(events, r.promoted)]
                /\ announced' = announced \cap All(r.p)
    /\ UNCHANGED <<chain, headCh, requests, next, journal, restarts>>

\* runReorg after the unlock: send the events and close done.
announce ==
    /\ reorg.pc = "announce"
    /\ announced' = (announced \cup reorg.events) \cap All(pool)
    /\ reorg' = [pc |-> "done"]
    /\ UNCHANGED <<pool, chain, headCh, requests, next, journal, missed, restarts>>

\* scheduleReorgLoop sees that the run is done.
curDone ==
    /\ reorg.pc = "done"
    /\ schedule(next, FALSE)
    /\ UNCHANGED <<pool, chain, headCh, requests, announced, journal, missed, restarts>>

\* loop on the eviction ticker: the accounts silent for Lifetime are the i
\* with the oldest heartbeats.
evict(i) ==
    LET old == {a \in Account \ pool.locals : pool.beats[a] \in 1..i}
    IN  /\ \E a \in Account : pool.beats[a] = i
        /\ old \cap From(pool.queue) # {}
        /\ pool' = removeTx(pool, {tx \in pool.queue : tx.from \in old}, Now)
        /\ announced' = announced \cap All(pool')
        /\ UNCHANGED <<chain, headCh, requests, next, reorg, journal, missed, restarts>>

\* TxPool.local: transactions of local accounts.
localTxsOf(p) == {tx \in p.pending \cup p.queue : tx.from \in p.locals}

\* loop on the journal ticker: txJournal.rotate.
rotate ==
    /\ Journal
    /\ journal # localTxsOf(pool)
    /\ journal' = localTxsOf(pool)
    /\ UNCHANGED <<pool, chain, headCh, requests, next, reorg, announced, missed,
                   restarts>>

\* A block executes a transaction of an account, known to the pool or not, or
\* changes its balance.
NewBlock ==
    /\ chain.blocks < MaxBlocks
    /\ \E a \in Account, n \in {0, 1}, b \in {Rich, Poor} :
        LET head == [chain.head EXCEPT !.nonce[a] = @ + n, !.balance[a] = b]
        IN  /\ head # chain.head
            /\ chain' = [head |-> head, blocks |-> chain.blocks + 1]
            /\ headCh' = Append(headCh, head)
    /\ UNCHANGED <<pool, requests, next, reorg, announced, journal, missed, restarts>>

\* txJournal.load: the transactions in the order in which they were written,
\* which is by price for those with one nonce.
JournalOrders(txs) ==
    {s \in [1..Cardinality(txs) -> txs] : \A i, j \in 1..Cardinality(txs) :
        i < j => /\ s[i] # s[j]
                 /\ s[i].from = s[j].from /\ s[i].nonce = s[j].nonce =>
                        s[i].price < s[j].price}

\* The node stops and NewTxPool opens a pool at the head, loads the journal
\* with AddLocals, which waits for its run, and rotates the journal.
NewTxPool ==
    /\ restarts < MaxRestarts
    /\ restarts' = restarts + 1
    /\ \E tip \in Tips, txs \in JournalOrders(journal) :
       \E r \in addTxsLocked([p |-> Empty(chain.head), dirty |-> {}, events |-> {},
                              journal |-> {}], txs, TRUE, tip) :
       \E g \in reorganize(r.p, None, FALSE, r.dirty) :
        /\ pool' = g.p
        /\ journal' = IF Journal THEN localTxsOf(g.p) ELSE {}
        /\ announced' = g.promoted \cap All(g.p)
    /\ headCh' = << >>
    /\ requests' = << >>
    /\ next' = NoRequest
    /\ reorg' = Idle
    /\ UNCHANGED <<chain, missed>>

Next ==
    \/ \E txs \in Batches, isLocal \in BOOLEAN, tip \in Tips : addTxs(txs, isLocal, tip)
    \/ requestPromoteExecutables
    \/ requestReset
    \/ runReorg
    \/ announce
    \/ curDone
    \/ \E i \in 1..Cardinality(Account) : evict(i)
    \/ rotate
    \/ NewBlock
    \/ NewTxPool

Spec == Init /\ [][Next]_vars

\* Goroutines that can go on do: callers, loop, the scheduler and its runs.  A
\* launched run is enabled until it is done, so weak fairness of runReorg says
\* that no run stays launched for ever.
Fairness ==
    /\ WF_vars(requestPromoteExecutables)
    /\ WF_vars(requestReset)
    /\ []<>(reorg.pc # "launched")
    /\ WF_vars(announce)
    /\ WF_vars(curDone)

FairSpec == Spec /\ Fairness

-----------------------------------------------------------------------------
(* Properties. *)

\* The lookup set holds exactly the transactions of the two kinds of lists, an
\* account has one transaction per nonce at most in both, and the virtual nonce
\* of an account with pending transactions follows the last one: what
\* tx_pool_test.go's validateTxPoolInternals asks, here after every locked
\* section.
PoolConsistent ==
    /\ All(pool) = pool.pending \cup pool.queue
    /\ pool.localTxs \cap pool.remotes = {}
    /\ pool.pending \cap pool.queue = {}
    /\ \A s, t \in All(pool) : Same(s, t) => s = t
    /\ \A a \in From(pool.pending) : pool.nonces[a] = 1 + Max(Nonces(Of(pool.pending, a)))
    /\ \A a \in From(pool.queue) : pool.beats[a] # 0

\* Pending transactions are executable at the pool's state, one after the
\* other from the account's nonce, so that the gap demoteUnexecutables looks
\* for never happens.
PendingExecutable ==
    /\ \A a \in From(pool.pending) :
        Nonces(Of(pool.pending, a)) = pool.state.nonce[a]..Max(Nonces(Of(pool.pending, a)))
    /\ \A tx \in pool.pending : tx.cost <= pool.state.balance[tx.from]

\* With nothing left to do the pool is within its limits, except for local
\* accounts and for the minimum each account is allowed; and it never holds
\* more than the sum of the limits while a remote transaction is left to drop.
PoolBounded ==
    LET remote == Account \ pool.locals
    IN  /\ \/ Cardinality(All(pool)) <= GlobalSlots + GlobalQueue
           \/ pool.remotes = {}
        /\ requests = << >> /\ ~next.launch /\ reorg = Idle =>
            /\ \/ Cardinality(pool.pending) <= GlobalSlots
               \/ \A a \in remote : Cardinality(Of(pool.pending, a)) <= AccountSlots
            /\ \/ Cardinality(pool.queue) <= GlobalQueue
               \/ \A a \in remote : Of(pool.queue, a) = {}

\* A transaction of a local account leaves the pool only when another one has
\* its nonce, its nonce is used or its account cannot pay for it: never by
\* eviction, price or a limit.
LocalTxKept ==
    [][restarts' = restarts =>
        \A tx \in All(pool) \ All(pool') :
            \/ tx.from \notin pool.locals
            \/ \E t \in All(pool') : Same(t, tx)
            \/ tx.nonce < pool'.state.nonce[tx.from]
            \/ tx.cost > pool'.state.balance[tx.from]]_vars

\* A transaction that stays pending is sent to the subscribers, whatever
\* requests and runs it meets, unless a reset could not open its state.
EventuallyAnnounced ==
    \A tx \in Tx : tx \in pool.pending ~> \/ tx \in announced
                                          \/ tx \notin pool.pending
                                          \/ missed

\* The account of every transaction accepted as local is on the allowlist, as
\* the comment on TxPool.add says.
LocalAllowlisted == \A tx \in pool.localTxs : tx.from \in pool.locals
=============================================================================
