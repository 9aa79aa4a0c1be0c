----------------------------- MODULE LlrEpochs -----------------------------
(***************************************************************************)
(* Low-latency records for epochs: the chain of trust by which a node      *)
(* learns the validators groups of epochs it has not lived through.  The   *)
(* record of epoch n is decided by the validators of epoch n - 1, so every *)
(* filled record names the voters for the next one.                        *)
(*                                                                         *)
(* Threads of gossip.Service that meet here:                               *)
(*   - whoever holds engineMu: ProcessEpochVote, the block that seals an   *)
(*     epoch, SwitchEpochTo, the flusher: engine;                          *)
(*   - the inserter of epProcessor, which takes an epoch pack apart,       *)
(*     orders the verdicts of the checkers and runs                        *)
(*     ProcessFullEpochRecord without engineMu: ep;                        *)
(*   - the worker of blockProcTasks in the sealing blockFn: blockProc.     *)
(*                                                                         *)
(* The first block of epoch n (LastBlock.Idx + 1 of its record) is         *)
(* identified with n, as epochs partition the blocks in order.             *)
(***************************************************************************)
EXTENDS Integers, Sequences, FiniteSets, FiniteSetsExt

CONSTANTS
    MaxEpoch,    \* epochs are 1..MaxEpoch; epoch 1 comes with the genesis
    Record,      \* full epoch records, which are their own hashes
    Own,         \* Own[n]: the record of epoch n the network agreed on
    Group,       \* Group[r]: validators of the epoch state of r
    W,           \* W[r][S]: weight of validators S in that state
    Upgrades,    \* Upgrades[r]: Rules.Upgrades of that state
    EVs,         \* signed epoch votes: [epoch, creator, vote]
    Packs,       \* epoch packs of peers: [idx, votes, record]
    Events,      \* whether the node gets events to process (stage ssEvents)
    MaxCrashes,  \* bound: crashes and restarts
    None         \* no record

Epoch == 1..MaxEpoch
Validator == UNION {Group[r] : r \in Record}
TotalWeight(r) == W[r][Group[r]]

ASSUME ConstantsAssumption ==
    /\ MaxEpoch \in Nat /\ MaxEpoch > 1
    /\ None \notin Record /\ None \notin Nat
    /\ Own \in [Epoch -> Record]
    /\ DOMAIN Group = Record
    /\ Events \in BOOLEAN
    /\ MaxCrashes \in Nat
    /\ \A r \in Record :
           /\ Group[r] # {}
           /\ W[r] \in [SUBSET Group[r] -> Nat]
           /\ W[r][{}] = 0
           /\ \A S, T \in SUBSET Group[r] :
                  S \cap T = {} => W[r][S \cup T] = W[r][S] + W[r][T]

ASSUME VotesAssumption ==
    /\ \A ev \in EVs : ev.epoch \in Epoch \ {1} /\ ev.vote \in Record
    /\ \A p \in Packs :
           /\ p.idx \in Epoch \ {1} /\ p.record \in Record
           /\ p.votes \in Seq(EVs)

VARIABLES
    LlrEpochVotes,          \* stored signed votes
    LlrEpochVoteIndex,      \* weight and voters per epoch and record, and the
                            \* state whose group the voters' bitmap was sized by
    LlrEpochResults,        \* decided record of an epoch
    BlockEpochStateHistory, \* record of a stored epoch
    UpgradeHeights,         \* table of the heights, as stored
    heightsCache,           \* cache.UpgradeHeights
    llrState,               \* LlrState (epoch part), cached
    lastEVs,                \* last epoch voted for, per validator
    current,                \* cache.BlockEpochState: the node's epoch, its state
    stage,                  \* syncStatus
    engine, ep, blockProc,
    disk, crashes

tables == <<LlrEpochVotes, LlrEpochVoteIndex, LlrEpochResults,
            BlockEpochStateHistory, UpgradeHeights, heightsCache, llrState,
            lastEVs, current>>
vars == <<tables, stage, engine, ep, blockProc, disk, crashes>>

Idle == [pc |-> "idle"]

Durable ==
    [votes |-> LlrEpochVotes, index |-> LlrEpochVoteIndex,
     results |-> LlrEpochResults, history |-> BlockEpochStateHistory,
     heights |-> UpgradeHeights, llrState |-> llrState, lastEVs |-> lastEVs,
     current |-> current]

\* The genesis: epoch 1, whose upgrades count from block 0 on.
Init ==
    /\ LlrEpochVotes = {}
    /\ LlrEpochVoteIndex =
           [k \in Epoch \X Record |->
               [vals |-> None, set |-> {}, weight |-> 0]]
    /\ LlrEpochResults = [n \in Epoch |-> None]
    /\ BlockEpochStateHistory =
           [n \in Epoch |-> IF n = 1 THEN Own[1] ELSE None]
    /\ UpgradeHeights = << [upgrades |-> Upgrades[Own[1]], height |-> 1] >>
    /\ heightsCache = UpgradeHeights
    /\ llrState = [LowestEpochToDecide |-> 2, LowestEpochToFill |-> 2]
    /\ lastEVs = [v \in Validator |-> 0]
    /\ current = [epoch |-> 1, es |-> Own[1]]
    /\ stage = "unknown"
    /\ engine = Idle /\ ep = Idle /\ blockProc = Idle
    /\ disk = Durable
    /\ crashes = 0

-----------------------------------------------------------------------------
(* Store helpers. *)

\* Mutant: the index follows every update, also of an index below it.
actualizeLowestIndexBack(low, upd, exists) == upd + 1

\* The lowest index stays unless it is the one that was updated; then it
\* moves to the next index that does not exist yet.
actualizeLowestIndex(low, upd, exists) ==
    IF low # upd THEN low
    ELSE Min({i \in (low + 1)..(MaxEpoch + 1) : i \notin exists})

\* Mutant: the state of the node's own epoch stands in for an unknown one.
GetHistoryEpochStateAny(n) ==
    IF BlockEpochStateHistory[n] # None
    THEN BlockEpochStateHistory[n] ELSE current.es

\* The state of the node's own epoch is known before blockFn stores it.
GetHistoryEpochState(n) ==
    IF n = current.epoch THEN current.es ELSE BlockEpochStateHistory[n]

Stored == {n \in Epoch : BlockEpochStateHistory[n] # None}

\* EvmChainConfig: the height at which upgrade u activates, or None.
ActivationHeight(hh, u) ==
    LET off == Max({0} \cup {i \in DOMAIN hh : u \notin hh[i].upgrades})
    IN  IF off = Len(hh) THEN None
        ELSE IF off = 0 THEN 0 ELSE hh[off + 1].height

\* Service.mayCommit(false): the caller may find that a commit is due; commit
\* waits for blockFn before it flushes.
mayCommit ==
    \/ disk' = disk
    \/ /\ blockProc' = Idle
       /\ disk' = Durable'

-----------------------------------------------------------------------------
(* Votes for epoch records. *)

\* Mutant: a third of the weight is enough.
WinsThird(r, weight) == weight >= TotalWeight(r) \div 3

Wins(r, weight) == weight >= TotalWeight(r) \div 3 + 1

\* Store.AddLlrEpochVoteWeight: the entry of the vote's record once the vote
\* is counted.  The first vote sizes the bitmap; a voter counts once.
AddLlrEpochVoteWeight(ev, r) ==
    LET e == LlrEpochVoteIndex[<<ev.epoch, ev.vote>>]
    IN  [vals   |-> IF e.vals = None THEN r ELSE e.vals,
         set    |-> e.set \cup {ev.creator},
         weight |-> IF ev.creator \in e.set THEN e.weight
                    ELSE e.weight + W[r][{ev.creator}]]

\* Service.processRawEpochVote.
processRawEpochVote(ev, r) ==
    LET entry == AddLlrEpochVoteWeight(ev, r)
    IN  /\ LlrEpochVoteIndex' =
               [LlrEpochVoteIndex EXCEPT ![<<ev.epoch, ev.vote>>] = entry]
        /\ IF Wins(r, entry.weight) /\ LlrEpochResults[ev.epoch] = None
           THEN /\ LlrEpochResults' =
                       [LlrEpochResults EXCEPT ![ev.epoch] = ev.vote]
                /\ llrState' = [llrState EXCEPT !.LowestEpochToDecide =
                       actualizeLowestIndex(@, ev.epoch,
                           {n \in Epoch : LlrEpochResults'[n] # None})]
           ELSE UNCHANGED <<LlrEpochResults, llrState>>

\* Whether processEpochVote gets past its early returns.
Countable(ev) ==
    /\ ev \notin LlrEpochVotes
    /\ GetHistoryEpochState(ev.epoch - 1) # None
    /\ ev.creator \in Group[GetHistoryEpochState(ev.epoch - 1)]

\* Service.processEpochVote past its early returns, under engineMu.
processEpochVote(ev) ==
    /\ processRawEpochVote(ev, GetHistoryEpochState(ev.epoch - 1))
    /\ LlrEpochVotes' = LlrEpochVotes \cup {ev}
    /\ lastEVs' = [lastEVs EXCEPT ![ev.creator] = Max({@, ev.epoch})]
    /\ UNCHANGED <<BlockEpochStateHistory, UpgradeHeights, heightsCache, current>>

\* A vote carried by an event: processEvent counts it with the event.
ProcessEventVote(ev) ==
    /\ stage = "events" /\ Events /\ engine = Idle
    /\ Countable(ev)
    /\ processEpochVote(ev)
    /\ UNCHANGED <<stage, engine, ep, blockProc, crashes>>
    /\ mayCommit

-----------------------------------------------------------------------------
(* The epoch packs processor (epprocessor.Processor). *)

\* The inserter takes the next pack.  The checker starts on the votes of a
\* pack only now, after the record of the pack before was processed.
Enqueue(p) ==
    /\ ep = Idle
    /\ ep' = [pc |-> "votes", pack |-> p, verdicts |-> << >>, processed |-> 0,
              pending |-> DOMAIN p.votes]
    /\ UNCHANGED <<tables, stage, engine, blockProc, disk, crashes>>

\* Mutant: the voters are looked up in the epoch voted for.
CheckEVSameEpoch(ev) ==
    /\ ev \notin LlrEpochVotes
    /\ GetHistoryEpochState(ev.epoch) # None
    /\ ev.creator \in Group[GetHistoryEpochState(ev.epoch)]

\* lightCheck of the handler and heavycheck.ValidateEV.
CheckEV(ev) ==
    /\ ev \notin LlrEpochVotes
    /\ GetHistoryEpochState(ev.epoch - 1) # None
    /\ ev.creator \in Group[GetHistoryEpochState(ev.epoch - 1)]

\* The heavy checkers work in parallel: verdicts come in any order.
checked(i) ==
    /\ ep.pc = "votes" /\ i \in ep.pending
    /\ ep' = [ep EXCEPT !.pending = @ \ {i},
                        !.verdicts = [j \in DOMAIN @ \cup {i} |->
                            IF j = i THEN CheckEV(ep.pack.votes[i]) ELSE @[j]]]
    /\ UNCHANGED <<tables, stage, engine, blockProc, disk, crashes>>

\* orderedResults: verdicts are taken in the order of the votes.  A vote that
\* passed goes through ProcessEpochVote, which repeats the checks under
\* engineMu; one that fails either time is dropped.
processEV ==
    LET i  == ep.processed + 1
        ev == ep.pack.votes[i]
    IN  /\ ep.pc = "votes" /\ i \in DOMAIN ep.verdicts
        /\ ep' = [ep EXCEPT !.processed = i]
        /\ UNCHANGED <<stage, engine, blockProc, crashes>>
        /\ IF ep.verdicts[i] /\ Countable(ev)
           THEN engine = Idle /\ processEpochVote(ev) /\ mayCommit
           ELSE UNCHANGED <<tables, disk>>

-----------------------------------------------------------------------------
(* Epoch records. *)

\* Mutant: the block after the first one of the epoch.
HeightNext(r, n) == [upgrades |-> Upgrades[r], height |-> n + 1]

\* The entry AddUpgradeHeight appends for the first block of epoch n.
Height(r, n) == [upgrades |-> Upgrades[r], height |-> n]

\* The hash of the record is the decided one.
Accepts(er, n) == LlrEpochResults[n] = er

\* Service.ProcessFullEpochRecord, without engineMu: the record is dropped,
\* or WriteFullEpochRecord stores it.
ProcessFullEpochRecord ==
    LET n  == ep.pack.idx
        er == ep.pack.record
    IN  /\ ep.pc = "votes" /\ ep.processed = Len(ep.pack.votes)
        /\ IF BlockEpochStateHistory[n] = None /\ Accepts(er, n)
           THEN /\ BlockEpochStateHistory' = [BlockEpochStateHistory EXCEPT ![n] = er]
                /\ ep' = [pc |-> "record", idx |-> n, er |-> er]
           ELSE /\ ep' = Idle
                /\ UNCHANGED BlockEpochStateHistory
        /\ UNCHANGED <<LlrEpochVotes, LlrEpochVoteIndex, LlrEpochResults,
                       UpgradeHeights, heightsCache, llrState, lastEVs, current,
                       stage, engine, blockProc, disk, crashes>>

\* WriteUpgradeHeight: a height is added if the upgrades differ from those of
\* the epoch before.  AddUpgradeHeight reads the heights first.
WriteUpgradeHeight ==
    LET prevEs == GetHistoryEpochState(ep.idx - 1)
    IN  /\ ep.pc = "record"
        /\ ep' = IF prevEs = None \/ Upgrades[ep.er] # Upgrades[prevEs]
                 THEN [pc |-> "add", idx |-> ep.idx, er |-> ep.er,
                       hh |-> Append(heightsCache, Height(ep.er, ep.idx))]
                 ELSE [ep EXCEPT !.pc = "fill"]
        /\ UNCHANGED <<tables, stage, engine, blockProc, disk, crashes>>

\* AddUpgradeHeight writes the table, then the cache.
AddUpgradeHeight ==
    \/ /\ ep.pc = "add"
       /\ UpgradeHeights' = ep.hh
       /\ ep' = [ep EXCEPT !.pc = "cache"]
       /\ UNCHANGED heightsCache
    \/ /\ ep.pc = "cache"
       /\ heightsCache' = ep.hh
       /\ ep' = [pc |-> "fill", idx |-> ep.idx, er |-> ep.er]
       /\ UNCHANGED UpgradeHeights

addUpgradeHeight ==
    /\ AddUpgradeHeight
    /\ UNCHANGED <<LlrEpochVotes, LlrEpochVoteIndex, LlrEpochResults,
                   BlockEpochStateHistory, llrState, lastEVs, current, stage,
                   engine, blockProc, disk, crashes>>

\* updateLowestEpochToFill, under engineMu.
updateLowestEpochToFill ==
    /\ ep.pc = "fill" /\ engine = Idle
    /\ llrState' = [llrState EXCEPT !.LowestEpochToFill =
                        actualizeLowestIndex(@, ep.idx, Stored)]
    /\ ep' = Idle
    /\ UNCHANGED <<LlrEpochVotes, LlrEpochVoteIndex, LlrEpochResults,
                   BlockEpochStateHistory, UpgradeHeights, heightsCache,
                   lastEVs, current, stage, engine, blockProc, crashes>>
    /\ mayCommit

-----------------------------------------------------------------------------
(* The node's own way from epoch to epoch. *)

\* A block of events seals the epoch (the block callback, under engineMu).
\* If the upgrades change, AddUpgradeHeight reads the heights.
sealEpoch ==
    LET n == current.epoch + 1
    IN  /\ stage = "events" /\ Events
        /\ engine = Idle /\ blockProc = Idle
        /\ n \in Epoch
        /\ engine' = IF Upgrades[Own[n]] # Upgrades[current.es]
                     THEN [pc |-> "add",
                           hh |-> Append(heightsCache, Height(Own[n], n))]
                     ELSE [pc |-> "seal"]
        /\ UNCHANGED <<tables, stage, ep, blockProc, disk, crashes>>

\* AddUpgradeHeight of the sealing block writes the table, then the cache.
sealAddUpgradeHeight ==
    /\ \/ /\ engine.pc = "add"
          /\ UpgradeHeights' = engine.hh
          /\ engine' = [engine EXCEPT !.pc = "cache"]
          /\ UNCHANGED heightsCache
       \/ /\ engine.pc = "cache"
          /\ heightsCache' = engine.hh
          /\ engine' = [pc |-> "seal"]
          /\ UNCHANGED UpgradeHeights
    /\ UNCHANGED <<LlrEpochVotes, LlrEpochVoteIndex, LlrEpochResults,
                   BlockEpochStateHistory, llrState, lastEVs, current, stage,
                   ep, blockProc, disk, crashes>>

\* The new state is published and blockFn handed to blockProcTasks.
sealed ==
    LET n == current.epoch + 1
    IN  /\ engine.pc = "seal"
        /\ current' = [epoch |-> n, es |-> Own[n]]
        /\ engine' = [pc |-> "commit"]
        /\ blockProc' = [pc |-> "history"]
        /\ UNCHANGED <<LlrEpochVotes, LlrEpochVoteIndex, LlrEpochResults,
                       BlockEpochStateHistory, UpgradeHeights, heightsCache,
                       llrState, lastEVs, stage, ep, disk, crashes>>

\* blockFn stores the state of the new epoch, then moves the fill pointer;
\* the block that seals and any other block do the latter.
blockFn ==
    /\ \/ /\ blockProc.pc = "history"
          /\ BlockEpochStateHistory' =
                 [BlockEpochStateHistory EXCEPT ![current.epoch] = current.es]
          /\ blockProc' = [pc |-> "fill"]
          /\ UNCHANGED llrState
       \/ /\ \/ blockProc.pc = "fill"
             \/ /\ blockProc = Idle /\ engine = Idle
                /\ stage = "events" /\ Events
          /\ llrState' = [llrState EXCEPT !.LowestEpochToFill =
                              actualizeLowestIndex(@, current.epoch, Stored)]
          /\ blockProc' = Idle
          /\ UNCHANGED BlockEpochStateHistory
    /\ UNCHANGED <<LlrEpochVotes, LlrEpochVoteIndex, LlrEpochResults,
                   UpgradeHeights, heightsCache, lastEVs, current, stage,
                   engine, ep, disk, crashes>>

\* processEvent ends with mayCommit(true) when the epoch was sealed.
sealCommit ==
    /\ engine.pc = "commit" /\ blockProc = Idle
    /\ disk' = Durable
    /\ engine' = Idle
    /\ UNCHANGED <<tables, stage, ep, blockProc, crashes>>

\* snapsyncStageTick finds a filled epoch ahead whose blocks and EVM state
\* are there too, and Service.SwitchEpochTo jumps to it and commits.
SwitchEpochTo(n) ==
    /\ stage = "snaps"
    /\ n \in (llrState.LowestEpochToFill - 3)..(llrState.LowestEpochToFill - 1)
    /\ n > current.epoch /\ BlockEpochStateHistory[n] # None
    /\ engine = Idle /\ blockProc = Idle
    /\ current' = [epoch |-> n, es |-> BlockEpochStateHistory[n]]
    /\ stage' = "events"
    /\ disk' = [Durable EXCEPT !.current = current']
    /\ UNCHANGED <<LlrEpochVotes, LlrEpochVoteIndex, LlrEpochResults,
                   BlockEpochStateHistory, UpgradeHeights, heightsCache,
                   llrState, lastEVs, engine, ep, blockProc, crashes>>

\* updateSnapsyncStage: a node far behind waits for a jump, one that is not,
\* or no longer, goes on with events; there is no way back.
updateSnapsyncStage ==
    /\ \/ stage = "unknown" /\ stage' \in {"snaps", "events"}
       \/ stage = "snaps" /\ stage' = "events"
    /\ UNCHANGED <<tables, engine, ep, blockProc, disk, crashes>>

\* PeriodicFlusher, under engineMu.
flusherCommit ==
    /\ engine = Idle /\ blockProc = Idle
    /\ disk' = Durable
    /\ UNCHANGED <<tables, stage, engine, ep, blockProc, crashes>>

Crash ==
    /\ crashes < MaxCrashes
    /\ crashes' = crashes + 1
    /\ LlrEpochVotes' = disk.votes
    /\ LlrEpochVoteIndex' = disk.index
    /\ LlrEpochResults' = disk.results
    /\ BlockEpochStateHistory' = disk.history
    /\ UpgradeHeights' = disk.heights
    /\ heightsCache' = disk.heights
    /\ llrState' = disk.llrState
    /\ lastEVs' = disk.lastEVs
    /\ current' = disk.current
    /\ stage' = "unknown"
    /\ engine' = Idle /\ ep' = Idle /\ blockProc' = Idle
    /\ UNCHANGED disk

Next ==
    \/ \E ev \in EVs : ProcessEventVote(ev)
    \/ \E p \in Packs : Enqueue(p)
    \/ \E i \in 1..Max({Len(p.votes) : p \in Packs}) : checked(i)
    \/ processEV
    \/ ProcessFullEpochRecord
    \/ WriteUpgradeHeight
    \/ addUpgradeHeight
    \/ updateLowestEpochToFill
    \/ sealEpoch
    \/ sealAddUpgradeHeight
    \/ sealed
    \/ blockFn
    \/ sealCommit
    \/ \E n \in Epoch : SwitchEpochTo(n)
    \/ updateSnapsyncStage
    \/ flusherCommit
    \/ Crash

Spec == Init /\ [][Next]_vars

\* Started tasks run to their end.  A peer serves the network's packs, and the
\* leecher keeps asking for every epoch from the lowest missing one on.
Fairness ==
    /\ \A i \in 1..Max({Len(p.votes) : p \in Packs}) : WF_vars(checked(i))
    /\ WF_vars(processEV)
    /\ WF_vars(ProcessFullEpochRecord)
    /\ WF_vars(WriteUpgradeHeight)
    /\ WF_vars(addUpgradeHeight)
    /\ WF_vars(updateLowestEpochToFill)
    /\ \A p \in Packs : SF_vars(Enqueue(p))

FairSpec == Spec /\ Fairness

-----------------------------------------------------------------------------
(* Properties. *)

\* Everyone in S signed a vote for record r of epoch n.
Signed(n, r, S) ==
    \A v \in S : \E ev \in EVs : ev.epoch = n /\ ev.creator = v /\ ev.vote = r

\* In no group do the signers of one wrong record of the next epoch have more
\* than a third of the weight.
FaultyBound ==
    \A n \in Epoch \ {1} : \A r \in Record \ {Own[n]} :
        \A S \in SUBSET Group[Own[n - 1]] :
            Signed(n, r, S) => W[Own[n - 1]][S] <= TotalWeight(Own[n - 1]) \div 3

\* Upgrades are switched on in the course of time and never off.
UpgradesGrow ==
    \A m, n \in Epoch : m <= n => Upgrades[Own[m]] \subseteq Upgrades[Own[n]]

\* Chain of trust: with fewer than a third (rounded down, plus one) of the
\* weight of each group of the network voting for other records, every state
\* the node decides, stores, enters or makes durable is the network's own,
\* although each was voted for by a group the node only knows from the record
\* before (processEpochVote, ProcessFullEpochRecord, SwitchEpochTo).
RecordsOwn ==
    /\ \A n \in Epoch :
           /\ BlockEpochStateHistory[n] \in {Own[n], None}
           /\ LlrEpochResults[n] \in {Own[n], None}
           /\ disk.history[n] \in {Own[n], None}
    /\ current.es = Own[current.epoch]

\* The bitmap of the voters for a record is sized once, by the group at the
\* first vote (addLlrVoteWeight), and never indexed by a position of another
\* group; the weight kept with it is that of the voters in it.
BitmapFits ==
    \A k \in Epoch \X Record :
        LET e == LlrEpochVoteIndex[k]
        IN  e.set # {} => /\ e.set \subseteq Group[e.vals]
                          /\ e.weight = W[e.vals][e.set]

\* LowestEpochToFill never passes an epoch that is not stored, and without a
\* crash it stays behind none that is, once the tasks that store epochs have
\* ended (updateLowestEpochToFill; the leecher and snapsync start from it).
\* A commit between WriteFullEpochRecord and updateLowestEpochToFill, and a
\* crash after it, leave the pointer at a stored epoch.
FillPointer ==
    LET low == llrState.LowestEpochToFill
    IN  /\ \A n \in 1..(low - 1) : n \in Stored
        /\ crashes = 0 /\ ep = Idle /\ blockProc = Idle => low \notin Stored

\* The chain config the node executes the blocks of its epoch under has
\* exactly the upgrades of that epoch (GetEvmChainConfig over the heights
\* collected by AddUpgradeHeight).
ConfigRight ==
    \A u \in UNION {Upgrades[r] : r \in Record} :
        LET h == ActivationHeight(heightsCache, u)
        IN  (h # None /\ h <= current.epoch) <=> u \in Upgrades[current.es]

\* A node that gets no events still stores the record of every epoch, from
\* epoch packs alone and in spite of crashes.
EventuallyStored == <>[](Stored = Epoch)
=============================================================================
