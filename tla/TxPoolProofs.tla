---------------------------- MODULE TxPoolProofs ----------------------------
(***************************************************************************)
(* What every execution of the transaction pool keeps, for all accounts,   *)
(* transactions, batches and limits: the heads on their way to the pool    *)
(* are in order, the inductive invariant, and the theorems.                *)
(***************************************************************************)
EXTENDS TxPoolAddProofs

-----------------------------------------------------------------------------
(* The inductive invariant. *)

\* A head to come: not before the pool's, not after those still in headCh.
Upcoming(h) ==
    /\ h \in Heads /\ NotBefore(pool.state, h) /\ NotBefore(h, chain.head)
    /\ \A i \in DOMAIN headCh : NotBefore(h, headCh[i])

Launched == reorg.pc = "launched"

\* The heads in headCh are in the order of the chain, between the pool's and
\* the chain's.
ChannelInOrder ==
    /\ chain.head \in Heads /\ NotBefore(pool.state, chain.head)
    /\ headCh \in Seq(Heads)
    /\ \A i \in DOMAIN headCh : /\ NotBefore(pool.state, headCh[i])
                                /\ NotBefore(headCh[i], chain.head)
    /\ \A i, j \in DOMAIN headCh : i < j => NotBefore(headCh[i], headCh[j])

\* So are those that next and reorg will reset the pool to.
HeadsInOrder ==
    /\ ChannelInOrder
    /\ next.reset # None => Upcoming(next.reset)
    /\ Launched /\ reorg.reset # None =>
        /\ Upcoming(reorg.reset)
        /\ next.reset # None => NotBefore(reorg.reset, next.reset)

Requested(n) == /\ n = [reset |-> n.reset, dirty |-> n.dirty, events |-> n.events,
                        launch |-> n.launch]
                /\ n.launch \in BOOLEAN

\* What exceeds the limits has a run to come.
WorkAhead == requests # << >> \/ next.launch \/ Launched

Inv == /\ Good(pool) /\ Room(pool)
       /\ HeadsInOrder
       /\ requests \in Seq(SUBSET Account) /\ Requested(next) /\ journal \in SUBSET Tx
       /\ WorkAhead \/ Fits(pool)

LEMMA NotBeforeOrder ==
    /\ \A h \in Heads : NotBefore(h, h)
    /\ \A f, g, h \in Heads : NotBefore(f, g) /\ NotBefore(g, h) => NotBefore(f, h)
<1>1. \A h \in Heads, a \in Account : h.nonce[a] \in Nat
  BY DEF Heads
<1>2. \A x \in Nat : x <= x
  OBVIOUS
<1>3. \A x, y, z \in Nat : x <= y /\ y <= z => x <= z
  OBVIOUS
<1> QED
  BY Zenon, <1>1, <1>2, <1>3 DEF NotBefore

\* A step that moves neither the pool's state nor a head.
LEMMA HeadsStay ==
    ASSUME HeadsInOrder, pool'.state = pool.state, chain' = chain, headCh' = headCh,
           next'.reset = next.reset, reorg' = reorg
    PROVE  HeadsInOrder'
<1>1. ChannelInOrder'
  BY Zenon DEF HeadsInOrder, ChannelInOrder
<1>2. ASSUME NEW h, Upcoming(h) PROVE Upcoming(h)'
  BY Zenon, <1>2 DEF Upcoming
<1>3. next'.reset # None => Upcoming(next.reset)'
  <2>1. PICK h : h = next.reset
    BY Zenon
  <2>2. h # None => Upcoming(h)'
    BY Zenon, <1>2, <2>1 DEF HeadsInOrder
  <2> QED
    BY Zenon, <2>1, <2>2 DEF Upcoming
<1>4. Launched /\ reorg.reset # None => Upcoming(reorg.reset)'
  <2>1. PICK h : h = reorg.reset
    BY Zenon
  <2>2. Launched /\ h # None => Upcoming(h)'
    BY Zenon, <1>2, <2>1 DEF HeadsInOrder
  <2> QED
    BY Zenon, <2>1, <2>2 DEF Upcoming
<1> QED
  BY Zenon, <1>1, <1>3, <1>4 DEF HeadsInOrder, Upcoming, Launched

\* scheduleReorgLoop keeps the heads in order and forgets no request.
LEMMA ScheduleFacts ==
    ASSUME NEW n, Requested(n), NEW active, schedule(n, active), ChannelInOrder',
           n.reset # None => Upcoming(n.reset)',
           NEW old, old = reorg.reset,
           active /\ Launched /\ old # None =>
               /\ Upcoming(old)'
               /\ n.reset # None => NotBefore(old, n.reset)
    PROVE  /\ HeadsInOrder' /\ Requested(next)'
           /\ n.launch => (next.launch \/ Launched)'
<1>1. CASE active
  <2>1. next' = n /\ reorg' = reorg
    BY Zenon, <1>1 DEF schedule
  <2> QED
    BY Zenon, <1>1, <2>1 DEF HeadsInOrder, Launched, Upcoming, Requested
<1>2. CASE ~active /\ ~n.launch
  <2>1. next' = n /\ reorg' = Idle
    BY Zenon, <1>2 DEF schedule
  <2>2. reorg'.pc # "launched"
    BY <2>1 DEF Idle
  <2> QED
    BY Zenon, <1>2, <2>1, <2>2 DEF HeadsInOrder, Launched, Upcoming, Requested
<1>3. CASE ~active /\ n.launch
  <2>1. next' = NoRequest /\ reorg' = [pc |-> "launched", reset |-> n.reset,
                                       dirty |-> n.dirty, events |-> n.events]
    BY Zenon, <1>3 DEF schedule
  <2>2. /\ next'.reset = None /\ reorg'.reset = n.reset /\ reorg'.pc = "launched"
        /\ Requested(next)'
    BY <2>1 DEF NoRequest, Requested
  <2> QED
    BY Zenon, <2>2 DEF HeadsInOrder, Launched, Upcoming
<1> QED
  BY Zenon, <1>1, <1>2, <1>3

-----------------------------------------------------------------------------
(* The steps of the scheduler and of the chain. *)

LEMMA PromoteRequestInv ==
    ASSUME Inv, requestPromoteExecutables
    PROVE  Inv'
<1>1. PICK i \in DOMAIN requests :
          /\ requests' = Without(requests, i)
          /\ schedule([next EXCEPT !.dirty = @ \cup requests[i], !.launch = TRUE],
                      reorg # Idle)
          /\ UNCHANGED <<pool, chain, headCh, announced, journal, missed, restarts>>
  BY Zenon DEF requestPromoteExecutables
<1>2. /\ HeadsInOrder /\ Requested(next) /\ requests \in Seq(SUBSET Account)
      /\ pool' = pool /\ chain' = chain /\ headCh' = headCh /\ journal' = journal
  BY Zenon, <1>1 DEF Inv
<1>3. PICK n : n = [next EXCEPT !.dirty = @ \cup requests[i], !.launch = TRUE]
  BY Zenon
<1>4. Requested(n) /\ n.reset = next.reset /\ n.launch
  BY <1>2, <1>3 DEF Requested
<1>5. ChannelInOrder' /\ \A h : Upcoming(h) => Upcoming(h)'
  BY Zenon, <1>2 DEF HeadsInOrder, ChannelInOrder, Upcoming
<1>6. n.reset # None => Upcoming(n.reset)'
  BY Zenon, <1>2, <1>4, <1>5 DEF HeadsInOrder
<1>7. PICK old : old = reorg.reset
  BY Zenon
<1>8. Launched /\ old # None =>
          /\ Upcoming(old)'
          /\ n.reset # None => NotBefore(old, n.reset)
  BY Zenon, <1>2, <1>4, <1>5, <1>7 DEF HeadsInOrder
<1>9. PICK active : active = (reorg # Idle)
  BY Zenon
<1>10. schedule(n, active)
  BY Zenon, <1>1, <1>3, <1>9
<1>11. HeadsInOrder' /\ Requested(next)' /\ (next.launch \/ Launched)'
  BY Zenon, <1>4, <1>5, <1>6, <1>7, <1>8, <1>10, ScheduleFacts
<1>12. requests' \in Seq(SUBSET Account)
  BY <1>1, <1>2 DEF Without
<1> QED
  BY Zenon, <1>2, <1>11, <1>12 DEF Inv, WorkAhead

LEMMA ResetRequestInv ==
    ASSUME Inv, requestReset
    PROVE  Inv'
<1>1. /\ headCh # << >> /\ headCh' = Tail(headCh)
      /\ schedule([next EXCEPT !.reset = Head(headCh), !.launch = TRUE], reorg # Idle)
      /\ pool' = pool /\ chain' = chain /\ requests' = requests /\ journal' = journal
  BY Zenon DEF requestReset
<1>2. /\ HeadsInOrder /\ ChannelInOrder /\ Requested(next) /\ headCh \in Seq(Heads)
  BY Zenon DEF Inv, HeadsInOrder, ChannelInOrder
<1>3. PICK n : n = [next EXCEPT !.reset = Head(headCh), !.launch = TRUE]
  BY Zenon
<1>4. Requested(n) /\ n.reset = Head(headCh) /\ n.launch
  BY <1>2, <1>3 DEF Requested
<1>5. /\ headCh' \in Seq(Heads) /\ 1 \in DOMAIN headCh /\ Head(headCh) = headCh[1]
      /\ \A i \in DOMAIN headCh' : /\ i + 1 \in DOMAIN headCh /\ 1 < i + 1
                                   /\ headCh'[i] = headCh[i + 1]
      /\ \A i, j \in DOMAIN headCh' : i < j => i + 1 < j + 1
      /\ headCh[1] \in Heads
  BY <1>1, <1>2
<1>6. ChannelInOrder'
  BY Zenon, <1>1, <1>2, <1>5 DEF ChannelInOrder
<1>7. \A h : Upcoming(h) => Upcoming(h)' /\ NotBefore(h, headCh[1])
  BY Zenon, <1>1, <1>2, <1>5 DEF Upcoming
<1>8. Upcoming(n.reset)'
  BY Zenon, <1>1, <1>2, <1>4, <1>5 DEF Upcoming, ChannelInOrder
<1>9. PICK old : old = reorg.reset
  BY Zenon
<1>10. Launched /\ old # None => Upcoming(old)' /\ NotBefore(old, n.reset)
  BY Zenon, <1>2, <1>4, <1>5, <1>7, <1>9 DEF HeadsInOrder
<1>11. PICK active : active = (reorg # Idle)
  BY Zenon
<1>12. schedule(n, active)
  BY Zenon, <1>1, <1>3, <1>11
<1>13. HeadsInOrder' /\ Requested(next)' /\ (next.launch \/ Launched)'
  BY Zenon, <1>4, <1>6, <1>8, <1>9, <1>10, <1>12, ScheduleFacts
<1> QED
  BY Zenon, <1>1, <1>13 DEF Inv, WorkAhead

LEMMA CurDoneInv ==
    ASSUME Inv, curDone
    PROVE  Inv'
<1>1. /\ reorg.pc = "done" /\ schedule(next, FALSE)
      /\ pool' = pool /\ chain' = chain /\ headCh' = headCh /\ requests' = requests
      /\ journal' = journal
  BY Zenon DEF curDone
<1>2. HeadsInOrder /\ Requested(next) /\ ~Launched
  BY <1>1 DEF Inv, Launched
<1>3. ChannelInOrder' /\ \A h : Upcoming(h) => Upcoming(h)'
  BY Zenon, <1>1, <1>2 DEF HeadsInOrder, ChannelInOrder, Upcoming
<1>4. PICK n : n = next
  BY Zenon
<1>5. PICK old : old = reorg.reset
  BY Zenon
<1>6. PICK active : active = FALSE
  BY Zenon
<1>7. n.reset # None => Upcoming(n.reset)'
  BY Zenon, <1>2, <1>3, <1>4 DEF HeadsInOrder
<1>8. HeadsInOrder' /\ Requested(next)' /\ (n.launch => (next.launch \/ Launched)')
  BY Zenon, <1>1, <1>2, <1>3, <1>4, <1>5, <1>6, <1>7, ScheduleFacts
<1> QED
  BY Zenon, <1>1, <1>2, <1>4, <1>8 DEF Inv, WorkAhead

LEMMA AnnounceInv ==
    ASSUME Inv, announce
    PROVE  Inv'
<1>1. /\ reorg.pc = "announce" /\ reorg' = [pc |-> "done"]
      /\ pool' = pool /\ chain' = chain /\ headCh' = headCh /\ requests' = requests
      /\ journal' = journal /\ next' = next
  BY Zenon DEF announce
<1>2. ~Launched /\ ~Launched'
  BY <1>1 DEF Launched
<1>3. HeadsInOrder'
  BY Zenon, <1>1, <1>2 DEF Inv, HeadsInOrder, ChannelInOrder, Upcoming
<1> QED
  BY Zenon, <1>1, <1>2, <1>3 DEF Inv, WorkAhead, Requested

LEMMA RotateInv ==
    ASSUME Inv, rotate
    PROVE  Inv'
<1>1. /\ journal' = localTxsOf(pool) /\ reorg' = reorg
      /\ pool' = pool /\ chain' = chain /\ headCh' = headCh /\ requests' = requests
      /\ next' = next
  BY Zenon DEF rotate
<1>2. pool \in Pools
  BY Zenon DEF Inv, Good, Core
<1>3. journal' \in SUBSET Tx
  BY Zenon, <1>1, <1>2, PoolTypes DEF localTxsOf
<1>4. HeadsInOrder'
  BY Zenon, <1>1, HeadsStay DEF Inv
<1> QED
  BY Zenon, <1>1, <1>3, <1>4 DEF Inv, WorkAhead, Requested, Launched

LEMMA NewBlockInv ==
    ASSUME Inv, NewBlock
    PROVE  Inv'
<1>1. PICK a, n, b, head :
          /\ a \in Account /\ n \in {0, 1} /\ b \in {Rich, Poor}
          /\ head = [chain.head EXCEPT !.nonce[a] = @ + n, !.balance[a] = b]
          /\ chain' = [head |-> head, blocks |-> chain.blocks + 1]
          /\ headCh' = Append(headCh, head)
  BY Zenon DEF NewBlock
<1>2. /\ pool' = pool /\ requests' = requests /\ next' = next /\ reorg' = reorg
      /\ journal' = journal
  BY Zenon DEF NewBlock
<1>3. /\ HeadsInOrder /\ ChannelInOrder /\ chain.head \in Heads /\ headCh \in Seq(Heads)
      /\ pool.state \in Heads
  BY Zenon, PoolTypes DEF Inv, HeadsInOrder, ChannelInOrder, Good, Core
<1>4. Rich \in Nat /\ Poor \in Nat
  BY Zenon, ConstantsAssumption
<1>5. head \in Heads /\ NotBefore(chain.head, head)
  <2>1. PICK f \in [Account -> Nat], g \in [Account -> Nat] :
            chain.head = [nonce |-> f, balance |-> g]
    BY Zenon, <1>3 DEF Heads
  <2>2. /\ chain.head.nonce = f
        /\ head = [nonce |-> [f EXCEPT ![a] = f[a] + n], balance |-> [g EXCEPT ![a] = b]]
    <3>1. PICK old : old = chain.head
      BY Zenon
    <3>2. old = [nonce |-> f, balance |-> g]
      BY Zenon, <2>1, <3>1
    <3>3. head = [old EXCEPT !.nonce[a] = @ + n, !.balance[a] = b]
      BY Zenon, <1>1, <3>1
    <3>4. PICK fn, gb : fn = [f EXCEPT ![a] = f[a] + n] /\ gb = [g EXCEPT ![a] = b]
      BY Zenon
    <3>5. old.nonce = f
      BY Zenon, <3>2
    <3>6. PICK mid : mid = [old EXCEPT !.nonce = fn]
      BY Zenon
    <3>7. mid = [nonce |-> fn, balance |-> g] /\ mid.balance = g
      BY <3>2, <3>6
    <3>8. mid = [old EXCEPT !.nonce[a] = @ + n]
      BY Zenon, <3>4, <3>5, <3>6
    <3>9. head = [mid EXCEPT !.balance = gb]
      BY Zenon, <3>3, <3>4, <3>7, <3>8
    <3>10. head = [nonce |-> fn, balance |-> gb]
      BY <3>7, <3>9
    <3>11. chain.head.nonce = f
      BY Zenon, <3>1, <3>5
    <3> QED
      BY <3>4, <3>10, <3>11
  <2>3. a \in Account /\ n \in Nat /\ b \in Nat
    <3>1. a \in Account /\ n \in {0, 1} /\ b \in {Rich, Poor}
      BY Zenon, <1>1
    <3> QED
      BY <1>4, <3>1
  <2>4. [f EXCEPT ![a] = f[a] + n] \in [Account -> Nat] /\ [g EXCEPT ![a] = b] \in [Account -> Nat]
    BY <2>3
  <2>5. \A c \in Account : f[c] <= [f EXCEPT ![a] = f[a] + n][c]
    BY <2>3
  <2> QED
    BY Zenon, <2>2, <2>4, <2>5 DEF Heads, NotBefore
<1>6. chain'.head = head
  BY Zenon, <1>1
<1>7. /\ headCh' \in Seq(Heads)
      /\ \A i \in DOMAIN headCh' :
             \/ i \in DOMAIN headCh /\ headCh'[i] = headCh[i] /\ headCh[i] \in Heads
             \/ headCh'[i] = head /\ \A j \in DOMAIN headCh' : ~(i < j)
  BY <1>1, <1>3, <1>5
<1>8. \A h \in Heads : NotBefore(h, chain.head) => NotBefore(h, head)
  BY Zenon, <1>3, <1>5, NotBeforeOrder
<1>9. ChannelInOrder'
  BY Zenon, <1>2, <1>3, <1>5, <1>6, <1>7, <1>8, NotBeforeOrder DEF ChannelInOrder
<1>10. \A h : Upcoming(h) => Upcoming(h)'
  BY Zenon, <1>2, <1>3, <1>6, <1>7, <1>8 DEF Upcoming
<1>11. HeadsInOrder'
  BY Zenon, <1>2, <1>3, <1>9, <1>10 DEF HeadsInOrder, Launched, Upcoming
<1> QED
  BY Zenon, <1>2, <1>11 DEF Inv, WorkAhead, Requested, Launched

-----------------------------------------------------------------------------
(* The steps that change the pool. *)

\* What happened to a transaction of a local account that is gone.
Kept(p, r) ==
    \A tx \in All(p) \ All(r) : \/ tx.from \notin p.locals
                                \/ \E t \in All(r) : Same(t, tx)
                                \/ Spent(r, tx)

LEMMA EmptyFacts ==
    ASSUME NEW head \in Heads, NEW p, p = Empty(head)
    PROVE  Good(p) /\ Room(p) /\ Fits(p) /\ p.state = head
<1>1. PICK none : none = {}
  BY Zenon
<1>2. PICK silent : silent = [a \in Account |-> 0]
  BY Zenon
<1>3. p = [pending |-> none, queue |-> none, locals |-> none, localTxs |-> none,
           remotes |-> none, nonces |-> head.nonce, state |-> head, beats |-> silent]
  BY Zenon, <1>1, <1>2 DEF Empty
<1>4. head.nonce \in [Account -> Nat]
  BY Zenon DEF Heads
<1>5. silent \in [Account -> Nat]
  BY <1>2
<1>6. none \in SUBSET Tx /\ none \in SUBSET Account
  BY Zenon, <1>1
<1>7. /\ p.pending = none /\ p.queue = none /\ p.locals = none /\ p.localTxs = none
      /\ p.remotes = none /\ p.nonces = head.nonce /\ p.state = head
  BY <1>3
<1>8. p \in Pools
  BY <1>3, <1>4, <1>5, <1>6 DEF Pools
<1>9. Core(p) /\ Usable(p) /\ Filled(p)
  <2>1. \A x : x \notin none
    BY Zenon, <1>1
  <2>2. none \cup none = none /\ none \cap none = {}
    BY Zenon, <2>1
  <2> QED
    BY Zenon, <1>7, <1>8, <2>1, <2>2 DEF Core, Usable, Filled
<1>10. \A a \in Account : head.nonce[a] <= head.nonce[a]
  BY <1>4
<1>11. Exact(p)
  BY Zenon, <1>1, <1>7, <1>10 DEF Exact
<1>12. Cardinality(p.pending) <= GlobalSlots /\ Cardinality(p.queue) <= GlobalQueue
  <2>1. Cardinality(none) = 0
    BY Zenon, <1>1, FS_EmptySet
  <2>2. 0 <= GlobalSlots /\ 0 <= GlobalQueue
    BY LimitTypes
  <2> QED
    BY Zenon, <1>7, <2>1, <2>2
<1> QED
  BY Zenon, <1>1, <1>7, <1>9, <1>11, <1>12 DEF Good, Room, Fits, PendingFits, QueueFits

LEMMA RoomLeft ==
    ASSUME NEW p, Core(p), Room(p), NEW r, All(r) \subseteq All(p), r.remotes \subseteq p.remotes
    PROVE  Room(r)
<1>1. IsFiniteSet(All(p))
  BY Zenon, AllFinite
<1>2. /\ Cardinality(All(p)) \in Nat /\ Cardinality(All(r)) \in Nat
      /\ Cardinality(All(r)) <= Cardinality(All(p))
  BY Zenon, <1>1, FS_Subset, FS_CardinalityType
<1>3. Cardinality(All(p)) <= GlobalSlots + GlobalQueue =>
          Cardinality(All(r)) <= GlobalSlots + GlobalQueue
  BY <1>2, LimitTypes
<1>4. p.remotes = {} => r.remotes = {}
  BY Zenon
<1> QED
  BY Zenon, <1>3, <1>4 DEF Room

LEMMA EvictInv ==
    ASSUME Inv, NEW i, evict(i)
    PROVE  Inv' /\ Kept(pool, pool')
<1> DEFINE old == {a \in Account \ pool.locals : pool.beats[a] \in 1..i}
           txs == {tx \in pool.queue : tx.from \in old}
<1>1. /\ pool' = removeTx(pool, txs, Now)
      /\ chain' = chain /\ headCh' = headCh /\ requests' = requests /\ next' = next
      /\ reorg' = reorg /\ journal' = journal
  BY Zenon DEF evict
<1>2. txs \in SUBSET pool.queue /\ \A tx \in txs : tx.from \notin pool.locals
  BY Zenon
<1> HIDE DEF old, txs
<1>3. PICK p, r, gone : p = pool /\ r = pool' /\ gone = txs
  BY Zenon
<1>4. /\ Good(p) /\ Core(p) /\ Room(p) /\ Usable(p) /\ Filled(p) /\ Exact(p)
  BY Zenon, <1>3 DEF Inv, Good
<1>5. QueueRemoved(p, gone, r)
  BY Zenon, <1>1, <1>2, <1>3, <1>4, RemoveQueued, OrdersRank
<1>6. \A tx \in gone : tx.from \notin p.locals
  BY Zenon, <1>2, <1>3
<1>7. /\ Dropped(p, gone, r)
      /\ r.pending = p.pending /\ r.nonces = p.nonces /\ r.queue = p.queue \ gone
      /\ r.state = p.state /\ r.locals = p.locals
      /\ r.localTxs = p.localTxs \ gone /\ r.remotes = p.remotes \ gone
  BY Zenon, <1>5 DEF QueueRemoved, Dropped
<1>8. Core(r)
  BY Zenon, <1>4, <1>6, <1>7, DroppedTrims
<1>9. Usable(r) /\ Filled(r) /\ Exact(r)
  <2>1. r.pending = p.pending /\ r.nonces = p.nonces /\ r.state = p.state
    BY Zenon, <1>7
  <2> QED
    BY <1>4, <2>1 DEF Usable, Filled, Exact
<1>10. /\ All(r) \subseteq All(p) /\ r.remotes \subseteq p.remotes
       /\ \A tx \in All(p) \ All(r) : tx \in gone
  BY Zenon, <1>7 DEF All
<1>11. Room(r)
  BY Zenon, <1>4, <1>10, RoomLeft
<1>12. Fits(p) => Fits(r)
  <2>1. IsFiniteSet(p.queue)
    BY Zenon, <1>4, PoolTypes, TxTypes, FS_Subset DEF Core
  <2>2. r.queue \subseteq p.queue
    BY Zenon, <1>7
  <2>3. /\ Cardinality(p.queue) \in Nat /\ Cardinality(r.queue) \in Nat
        /\ Cardinality(r.queue) <= Cardinality(p.queue)
    BY Zenon, <2>1, <2>2, FS_Subset, FS_CardinalityType
  <2>4. Cardinality(p.queue) <= GlobalQueue => Cardinality(r.queue) <= GlobalQueue
    BY <2>3, LimitTypes
  <2>5. \A a : Of(p.queue, a) = {} => Of(r.queue, a) = {}
    BY Zenon, <2>2 DEF Of
  <2> QED
    BY Zenon, <1>7, <2>4, <2>5 DEF Fits, PendingFits, QueueFits
<1>13. HeadsInOrder'
  BY Zenon, <1>1, <1>3, <1>7, HeadsStay DEF Inv
<1>14. Kept(p, r)
  BY Zenon, <1>6, <1>10 DEF Kept
<1>15. Inv'
  BY Zenon, <1>1, <1>3, <1>8, <1>9, <1>11, <1>12, <1>13
     DEF Inv, Good, WorkAhead, Requested, Launched
<1> QED
  BY Zenon, <1>3, <1>14, <1>15

LEMMA AddTxsInv ==
    ASSUME Inv, NEW txs \in Batches, NEW isLocal, NEW tip, addTxs(txs, isLocal, tip)
    PROVE  Inv' /\ Kept(pool, pool')
<1>1. PICK start : start = [p |-> pool, dirty |-> {}, events |-> next.events,
                            journal |-> journal]
  BY Zenon
<1>2. PICK out \in addTxsLocked(start, txs, isLocal, tip) :
          /\ pool' = out.p
          /\ requests' = Append(requests, out.dirty)
          /\ next' = [next EXCEPT !.events = out.events]
          /\ journal' = out.journal
  BY Zenon, <1>1 DEF addTxs
<1>3. chain' = chain /\ headCh' = headCh /\ reorg' = reorg
  BY Zenon DEF addTxs
<1>4. start.p = pool /\ start.dirty = {} /\ start.journal = journal
  BY <1>1
<1>5. /\ Good(start.p) /\ Room(start.p) /\ start.dirty \in SUBSET Account
      /\ start.journal \in SUBSET Tx
  BY Zenon, <1>4 DEF Inv
<1>6. txs \in Seq(Tx)
  BY Zenon, ConstantsAssumption
<1>7. Steps(start.p, out.p) /\ out.dirty \in SUBSET Account /\ out.journal \in SUBSET Tx
  BY Zenon, <1>5, <1>6, BatchFacts
<1>8. Good(pool') /\ Room(pool') /\ pool'.state = pool.state /\ Keeps(pool, pool')
  BY Zenon, <1>2, <1>4, <1>7 DEF Steps
<1>9. requests' \in Seq(SUBSET Account) /\ requests' # << >>
  <2>1. requests \in Seq(SUBSET Account)
    BY Zenon DEF Inv
  <2> QED
    BY <1>2, <1>7, <2>1
<1>10. Requested(next)' /\ next'.reset = next.reset
  <2>1. Requested(next)
    BY Zenon DEF Inv
  <2> QED
    BY <1>2, <2>1 DEF Requested
<1>11. HeadsInOrder'
  BY Zenon, <1>3, <1>8, <1>10, HeadsStay DEF Inv
<1>12. Kept(pool, pool')
  BY Zenon, <1>8 DEF Kept, Keeps
<1>13. journal' \in SUBSET Tx
  BY Zenon, <1>2, <1>7
<1> QED
  BY Zenon, <1>8, <1>9, <1>10, <1>11, <1>12, <1>13 DEF Inv, WorkAhead

LEMMA RunReorgInv ==
    ASSUME Inv, runReorg
    PROVE  Inv' /\ Kept(pool, pool')
<1>1. PICK err, isReset, head :
          /\ isReset = (reorg.reset # None) /\ head = (IF err THEN None ELSE reorg.reset)
          /\ \E g \in reorganize(pool, head, isReset, reorg.dirty) :
                 /\ pool' = g.p
                 /\ \E events : reorg' = [pc |-> "announce", events |-> events]
  BY Zenon DEF runReorg
<1>2. PICK g \in reorganize(pool, head, isReset, reorg.dirty) :
          /\ pool' = g.p
          /\ \E events : reorg' = [pc |-> "announce", events |-> events]
  BY Zenon, <1>1
<1>3. /\ reorg.pc = "launched"
      /\ chain' = chain /\ headCh' = headCh /\ requests' = requests /\ next' = next
      /\ journal' = journal
  BY Zenon DEF runReorg
<1>4. /\ Good(pool) /\ Core(pool) /\ Room(pool) /\ HeadsInOrder /\ ChannelInOrder
      /\ pool.state \in Heads
  BY Zenon, PoolTypes DEF Inv, Good, Core, HeadsInOrder
<1>5. Launched /\ ~Launched'
  <2>1. PICK events : reorg' = [pc |-> "announce", events |-> events]
    BY Zenon, <1>2
  <2> QED
    BY <1>3, <2>1 DEF Launched
<1>6. head # None =>
          /\ Upcoming(head) /\ isReset
          /\ next.reset # None => NotBefore(head, next.reset)
  BY Zenon, <1>1, <1>4, <1>5 DEF HeadsInOrder
<1>7. head # None => head \in Heads /\ NotBefore(pool.state, head) /\ isReset
  BY Zenon, <1>6 DEF Upcoming
<1>8. PICK p, r : p = pool /\ r = pool'
  BY Zenon
<1>9. Reorganized(p, head, r)
  BY Zenon, <1>2, <1>4, <1>7, <1>8, ReorganizeFacts
<1>10. /\ Good(r) /\ Fits(r) /\ All(r) \subseteq All(p) /\ r.remotes \subseteq p.remotes
       /\ r.state = (IF head = None THEN p.state ELSE head)
       /\ \A tx \in All(p) \ All(r) : Spent(r, tx) \/ tx.from \notin p.locals
  BY Zenon, <1>9 DEF Reorganized
<1>11. Room(r) /\ Kept(p, r)
  BY Zenon, <1>4, <1>8, <1>10, RoomLeft DEF Kept
<1>12. HeadsInOrder'
  <2>1. CASE head = None
    <3>1. pool'.state = pool.state
      BY Zenon, <1>8, <1>10, <2>1
    <3> QED
      BY Zenon, <1>3, <1>4, <1>5, <3>1 DEF HeadsInOrder, ChannelInOrder, Upcoming
  <2>2. CASE head # None
    <3>1. pool'.state = head
      BY Zenon, <1>8, <1>10, <2>2
    <3>2. ChannelInOrder'
      BY Zenon, <1>3, <1>4, <1>6, <2>2, <3>1 DEF ChannelInOrder, Upcoming
    <3>3. next.reset # None => Upcoming(next.reset)'
      BY Zenon, <1>3, <1>4, <1>6, <2>2, <3>1 DEF HeadsInOrder, Upcoming
    <3> QED
      BY Zenon, <1>3, <1>5, <3>2, <3>3 DEF HeadsInOrder
  <2> QED
    BY Zenon, <2>1, <2>2
<1> QED
  BY Zenon, <1>3, <1>8, <1>10, <1>11, <1>12 DEF Inv, Requested

LEMMA NewTxPoolInv ==
    ASSUME Inv, NewTxPool
    PROVE  Inv'
<1>1. PICK txs \in JournalOrders(journal), tip \in Tips :
          \E out \in addTxsLocked([p |-> Empty(chain.head), dirty |-> {}, events |-> {},
                                   journal |-> {}], txs, TRUE, tip) :
          \E g \in reorganize(out.p, None, FALSE, out.dirty) :
              pool' = g.p /\ journal' = IF Journal THEN localTxsOf(g.p) ELSE {}
  BY Zenon DEF NewTxPool
<1>2. PICK start : start = [p |-> Empty(chain.head), dirty |-> {}, events |-> {},
                            journal |-> {}]
  BY Zenon
<1>3. PICK out, g :
          /\ out \in addTxsLocked(start, txs, TRUE, tip)
          /\ g \in reorganize(out.p, None, FALSE, out.dirty)
          /\ pool' = g.p /\ journal' = IF Journal THEN localTxsOf(g.p) ELSE {}
  BY Zenon, <1>1, <1>2
<1>4. /\ chain' = chain /\ headCh' = << >> /\ requests' = << >> /\ next' = NoRequest
      /\ reorg' = Idle
  BY Zenon DEF NewTxPool
<1>5. chain.head \in Heads /\ journal \in SUBSET Tx
  BY Zenon DEF Inv, HeadsInOrder, ChannelInOrder
<1>6. start.p = Empty(chain.head) /\ start.dirty = {} /\ start.journal = {}
  BY <1>2
<1>7. Good(start.p) /\ Room(start.p) /\ start.p.state = chain.head
  BY Zenon, <1>5, <1>6, EmptyFacts
<1>8. txs \in Seq(Tx)
  <2>1. IsFiniteSet(journal)
    BY Zenon, <1>5, TxTypes, FS_Subset
  <2>2. PICK n \in Nat : n = Cardinality(journal)
    BY Zenon, <2>1, FS_CardinalityType
  <2>3. txs \in [1..n -> journal]
    BY Zenon, <2>2 DEF JournalOrders
  <2> QED
    BY <1>5, <2>3
<1>9. start.dirty \in SUBSET Account /\ start.journal \in SUBSET Tx
  BY Zenon, <1>6
<1>10. Steps(start.p, out.p)
  BY Zenon, <1>3, <1>7, <1>8, <1>9, BatchFacts
<1>11. /\ Good(out.p) /\ Core(out.p) /\ Room(out.p)
       /\ out.p.state = chain.head
  BY Zenon, <1>7, <1>10 DEF Steps, Good
<1>12. Reorganized(out.p, None, g.p)
  BY Zenon, <1>3, <1>11, ReorganizeFacts
<1>13. /\ Good(pool') /\ Fits(pool') /\ All(pool') \subseteq All(out.p)
       /\ pool'.remotes \subseteq out.p.remotes /\ pool'.state = chain.head
  BY Zenon, <1>3, <1>11, <1>12 DEF Reorganized
<1>14. Room(pool')
  BY Zenon, <1>11, <1>13, RoomLeft
<1>15. journal' \in SUBSET Tx
  <2>1. pool' \in Pools
    BY Zenon, <1>13 DEF Good, Core
  <2> QED
    BY Zenon, <1>3, <2>1, PoolTypes DEF localTxsOf
<1>16. /\ Requested(next)' /\ next'.reset = None /\ ~Launched'
       /\ requests' \in Seq(SUBSET Account)
  BY <1>4 DEF Requested, NoRequest, Launched, Idle
<1>17. headCh' \in Seq(Heads) /\ \A i \in DOMAIN headCh' : FALSE
  BY <1>4
<1>18. ChannelInOrder'
  BY Zenon, <1>4, <1>5, <1>13, <1>17, NotBeforeOrder DEF ChannelInOrder
<1> QED
  BY Zenon, <1>13, <1>14, <1>15, <1>16, <1>18 DEF Inv, HeadsInOrder

-----------------------------------------------------------------------------
(* The invariant. *)

LEMMA InitInv ==
    ASSUME Init
    PROVE  Inv
<1>1. Genesis \in Heads
  BY LimitTypes DEF Genesis, Heads
<1>2. /\ pool = Empty(Genesis) /\ chain.head = Genesis /\ headCh = << >> /\ requests = << >>
      /\ next = NoRequest /\ reorg = Idle /\ journal = {}
  BY DEF Init
<1>3. Good(pool) /\ Room(pool) /\ Fits(pool) /\ pool.state = Genesis
  BY Zenon, <1>1, <1>2, EmptyFacts
<1>4. Requested(next) /\ next.reset = None /\ ~Launched /\ requests \in Seq(SUBSET Account)
  BY <1>2 DEF Requested, NoRequest, Launched, Idle
<1>5. headCh \in Seq(Heads) /\ \A i \in DOMAIN headCh : FALSE
  BY <1>2
<1>6. ChannelInOrder
  BY Zenon, <1>1, <1>2, <1>3, <1>5, NotBeforeOrder DEF ChannelInOrder
<1> QED
  BY Zenon, <1>2, <1>3, <1>4, <1>6 DEF Inv, HeadsInOrder

LEMMA RestartsCount ==
    ASSUME restarts \in Nat, Next
    PROVE  restarts' \in Nat /\ (NewTxPool => restarts' # restarts)
<1>1. NewTxPool => restarts' \in Nat /\ restarts' # restarts
  BY DEF NewTxPool
<1>2. (\E txs \in Batches, isLocal \in BOOLEAN, tip \in Tips : addTxs(txs, isLocal, tip)) =>
          restarts' = restarts
  BY Zenon DEF addTxs
<1>3. requestPromoteExecutables \/ requestReset => restarts' = restarts
  BY Zenon DEF requestPromoteExecutables, requestReset
<1>4. runReorg \/ announce \/ curDone => restarts' = restarts
  BY Zenon DEF runReorg, announce, curDone
<1>5. (\E i \in 1..Cardinality(Account) : evict(i)) \/ rotate \/ NewBlock => restarts' = restarts
  BY Zenon DEF evict, rotate, NewBlock
<1> QED
  BY Zenon, <1>1, <1>2, <1>3, <1>4, <1>5 DEF Next

\* A step keeps the invariant, and unless it restarts the pool it drops no
\* transaction of a local account without a reason.
LEMMA NextInv ==
    ASSUME Inv, restarts \in Nat, Next
    PROVE  Inv' /\ (restarts' = restarts => Kept(pool, pool'))
<1>1. ASSUME NEW txs \in Batches, NEW isLocal \in BOOLEAN, NEW tip \in Tips,
             addTxs(txs, isLocal, tip)
      PROVE  Inv' /\ Kept(pool, pool')
  BY Zenon, <1>1, AddTxsInv
<1>2. ASSUME NEW i \in 1..Cardinality(Account), evict(i)
      PROVE  Inv' /\ Kept(pool, pool')
  BY Zenon, <1>2, EvictInv
<1>3. CASE runReorg
  BY Zenon, <1>3, RunReorgInv
<1>4. pool' = pool => Kept(pool, pool')
  BY Zenon DEF Kept
<1>5. CASE requestPromoteExecutables
  BY Zenon, <1>4, <1>5, PromoteRequestInv DEF requestPromoteExecutables
<1>6. CASE requestReset
  BY Zenon, <1>4, <1>6, ResetRequestInv DEF requestReset
<1>7. CASE announce
  BY Zenon, <1>4, <1>7, AnnounceInv DEF announce
<1>8. CASE curDone
  BY Zenon, <1>4, <1>8, CurDoneInv DEF curDone
<1>9. CASE rotate
  BY Zenon, <1>4, <1>9, RotateInv DEF rotate
<1>10. CASE NewBlock
  BY Zenon, <1>4, <1>10, NewBlockInv DEF NewBlock
<1>11. CASE NewTxPool
  BY Zenon, <1>11, NewTxPoolInv, RestartsCount
<1> QED
  BY Zenon, <1>1, <1>2, <1>3, <1>5, <1>6, <1>7, <1>8, <1>9, <1>10, <1>11 DEF Next

LEMMA StutterInv ==
    ASSUME Inv, UNCHANGED vars
    PROVE  Inv'
<1>1. /\ pool' = pool /\ chain' = chain /\ headCh' = headCh /\ requests' = requests
      /\ next' = next /\ reorg' = reorg /\ journal' = journal
  BY Zenon DEF vars
<1>2. HeadsInOrder'
  BY Zenon, <1>1, HeadsStay DEF Inv
<1> QED
  BY Zenon, <1>1, <1>2 DEF Inv, WorkAhead, Requested, Launched

LEMMA InvAlways == Spec => [](Inv /\ restarts \in Nat)
<1>1. Init => Inv /\ restarts \in Nat
  <2>1. Init => restarts \in Nat
    BY DEF Init
  <2> QED
    BY Zenon, <2>1, InitInv
<1>2. Inv /\ restarts \in Nat /\ [Next]_vars => (Inv /\ restarts \in Nat)'
  <2> SUFFICES ASSUME Inv, restarts \in Nat, [Next]_vars PROVE (Inv /\ restarts \in Nat)'
    BY Zenon
  <2>1. CASE Next
    BY Zenon, <2>1, NextInv, RestartsCount
  <2>2. CASE UNCHANGED vars
    BY Zenon, <2>2, StutterInv DEF vars
  <2> QED
    BY Zenon, <2>1, <2>2
<1> QED
  BY <1>1, <1>2, PTL DEF Spec

-----------------------------------------------------------------------------
(* The properties. *)

\* The last pending transaction of an account.
LEMMA LastNonce ==
    ASSUME NEW p, Good(p), NEW a \in From(p.pending)
    PROVE  \E n \in Nat : /\ Max(Nonces(Of(p.pending, a))) = n /\ p.nonces[a] = 1 + n
                          /\ Nonces(Of(p.pending, a)) = p.state.nonce[a]..n
<1>1. /\ p.pending \in SUBSET Tx /\ p.nonces \in [Account -> Nat]
      /\ p.state.nonce \in [Account -> Nat]
      /\ Usable(p) /\ Filled(p) /\ Exact(p)
  BY Zenon, PoolTypes DEF Good, Core
<1>2. PICK some \in p.pending : some.from = a
  BY Zenon DEF From
<1>3. a \in Account /\ p.state.nonce[a] \in Nat
  BY Zenon, <1>1, <1>2, TxTypes
<1>4. \A tx \in p.pending : tx.from = a =>
          tx.nonce \in Nat /\ p.state.nonce[a] <= tx.nonce /\ tx.nonce < p.nonces[a]
  BY Zenon, <1>1, <1>3, TxTypes DEF Usable, Exact
<1>5. p.nonces[a] # p.state.nonce[a]
  <2>1. p.state.nonce[a] <= some.nonce /\ some.nonce < p.nonces[a] /\ some.nonce \in Nat
    BY Zenon, <1>2, <1>4
  <2>2. p.nonces[a] \in Nat
    BY Zenon, <1>1, <1>3
  <2> QED
    BY <1>3, <2>1, <2>2
<1>6. PICK last \in p.pending : last.from = a /\ p.nonces[a] = last.nonce + 1
  BY Zenon, <1>1, <1>3, <1>5 DEF Exact
<1>7. PICK n \in Nat : n = last.nonce
  BY Zenon, <1>4, <1>6
<1>8. p.nonces[a] = n + 1 /\ \A m \in Nat : m < n + 1 => m <= n
  BY <1>6, <1>7
<1>9. \A tx \in p.pending : tx.from = a => tx.nonce \in Nat /\ tx.nonce <= n
  BY Zenon, <1>4, <1>8
<1>10. PICK S : S = Nonces(Of(p.pending, a))
  BY Zenon
<1>11. \A m : m \in S <=> \E tx \in p.pending : tx.from = a /\ m = tx.nonce
  BY Zenon, <1>10 DEF Nonces, Of
<1>12. S \in SUBSET Nat /\ \A m \in S : m <= n
  <2>1. ASSUME NEW m \in S PROVE m \in Nat /\ m <= n
    <3>1. PICK tx \in p.pending : tx.from = a /\ m = tx.nonce
      BY Zenon, <1>11
    <3> QED
      BY Zenon, <1>9, <3>1
  <2> QED
    BY Zenon, <2>1
<1>13. n \in S
  BY Zenon, <1>6, <1>7, <1>11
<1>14. Max(S) = n
  <2>1. Max(S) \in S /\ \A m \in S : m <= Max(S)
    BY Zenon, <1>12, <1>13, MaxFacts
  <2>2. PICK m \in Nat : m = Max(S)
    BY Zenon, <1>12, <2>1
  <2>3. m <= n /\ n <= m
    BY Zenon, <1>12, <1>13, <2>1, <2>2
  <2>4. m = n
    BY <2>3
  <2> QED
    BY Zenon, <2>2, <2>4
<1>15. PICK k \in Nat : k = p.state.nonce[a]
  BY Zenon, <1>3
<1>16. S = p.state.nonce[a]..n
  <2>1. \A m \in S : k <= m
    BY Zenon, <1>4, <1>11, <1>15
  <2>2. ASSUME NEW m \in Nat, k <= m, m < n PROVE m \in S
    <3>1. p.state.nonce[last.from] <= m /\ m < last.nonce
      BY Zenon, <1>6, <1>7, <1>15, <2>2
    <3>2. PICK t \in p.pending : t.from = last.from /\ t.nonce = m
      BY Zenon, <1>1, <3>1 DEF Filled
    <3> QED
      BY Zenon, <1>6, <1>11, <3>2
  <2>3. ASSUME NEW m PROVE m \in S <=> m \in k..n
    <3>1. m \in S => m \in Nat /\ m <= n /\ k <= m
      BY Zenon, <1>12, <2>1
    <3>2. m \in k..n => m \in Nat /\ k <= m /\ (m < n \/ m = n)
      OBVIOUS
    <3>3. m \in Nat /\ m <= n /\ k <= m => m \in k..n
      OBVIOUS
    <3> QED
      BY Zenon, <1>13, <2>2, <3>1, <3>2, <3>3
  <2>4. S = k..n
    BY Zenon, <2>3
  <2> QED
    BY Zenon, <1>15, <2>4
<1>17. p.nonces[a] = 1 + n
  BY <1>8
<1> QED
  BY Zenon, <1>10, <1>14, <1>16, <1>17

\* The pool's lists, its lookup set and its virtual nonces agree after every
\* locked section, whatever batches, resets, evictions and restarts it meets.
THEOREM PoolIsConsistent == Spec => []PoolConsistent
<1>1. Inv => PoolConsistent
  <2> SUFFICES ASSUME Inv PROVE PoolConsistent
    BY Zenon
  <2>1. Good(pool) /\ Core(pool)
    BY Zenon DEF Inv, Good
  <2>2. \A a \in From(pool.pending) :
            pool.nonces[a] = 1 + Max(Nonces(Of(pool.pending, a)))
    BY Zenon, <2>1, LastNonce
  <2>3. \A a \in From(pool.queue) : pool.beats[a] # 0
    BY Zenon, <2>1 DEF Core, From
  <2>4. /\ All(pool) = pool.pending \cup pool.queue
        /\ pool.localTxs \cap pool.remotes = {}
        /\ pool.pending \cap pool.queue = {}
    BY Zenon, <2>1 DEF Core, All
  <2>5. \A s, t \in All(pool) : Same(s, t) => s = t
    BY Zenon, <2>1, <2>4 DEF Core
  <2> QED
    BY Zenon, <2>2, <2>3, <2>4, <2>5 DEF PoolConsistent
<1> QED
  BY <1>1, InvAlways, PTL

\* The pending transactions of an account can be executed one after the other
\* at the pool's state: promotion leaves no gap, and neither replacement nor
\* removal nor a reset opens one.
THEOREM PendingIsExecutable == Spec => []PendingExecutable
<1>1. Inv => PendingExecutable
  <2> SUFFICES ASSUME Inv PROVE PendingExecutable
    BY Zenon
  <2>1. Good(pool) /\ Usable(pool)
    BY Zenon DEF Inv, Good
  <2>2. \A a \in From(pool.pending) :
            Nonces(Of(pool.pending, a)) = pool.state.nonce[a]..Max(Nonces(Of(pool.pending, a)))
    BY Zenon, <2>1, LastNonce
  <2> QED
    BY Zenon, <2>1, <2>2 DEF PendingExecutable, Usable
<1> QED
  BY <1>1, InvAlways, PTL

\* The pool is within its limits once no request and no run is left, and drops
\* remote transactions before it exceeds their sum.
THEOREM PoolIsBounded == Spec => []PoolBounded
<1>1. Inv => PoolBounded
  <2> SUFFICES ASSUME Inv PROVE PoolBounded
    BY Zenon
  <2>1. Room(pool) /\ (WorkAhead \/ Fits(pool))
    BY Zenon DEF Inv
  <2>2. requests = << >> /\ ~next.launch /\ reorg = Idle => ~WorkAhead
    BY DEF WorkAhead, Launched, Idle
  <2> QED
    BY Zenon, <2>1, <2>2 DEF PoolBounded, Room, Fits, PendingFits, QueueFits
<1> QED
  BY <1>1, InvAlways, PTL

\* add, runReorg and the eviction ticker drop a transaction of a local account
\* only for another one with its nonce, or once it cannot be executed.
THEOREM LocalTxIsKept == Spec => LocalTxKept
<1>1. Inv /\ restarts \in Nat /\ [Next]_vars =>
          [restarts' = restarts =>
              \A tx \in All(pool) \ All(pool') :
                  \/ tx.from \notin pool.locals
                  \/ \E t \in All(pool') : Same(t, tx)
                  \/ tx.nonce < pool'.state.nonce[tx.from]
                  \/ tx.cost > pool'.state.balance[tx.from]]_vars
  BY Zenon, NextInv DEF Kept, Spent
<1> QED
  BY <1>1, InvAlways, PTL DEF Spec, LocalTxKept
=============================================================================
