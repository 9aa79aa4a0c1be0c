----------------------------- MODULE LlrBlocks -----------------------------
(***************************************************************************)
(* Low-latency records (LLR) for blocks: how one node turns the signed     *)
(* block votes of the validators into decided block records, fills its     *)
(* block table with the records it downloads, and keeps all of it durable. *)
(*                                                                         *)
(* Threads of gossip.Service that meet here:                               *)
(*   - whoever holds engineMu: ProcessBlockVotes (or processEvent, which   *)
(*     processes the votes an event carries), SwitchEpochTo, the periodic  *)
(*     flusher.  Its progress is the variable engine;                      *)
(*   - the single worker of brProcessor in ProcessFullBlockRecord: br;     *)
(*   - the single worker of blockProcTasks that runs blockFn: blockProc.   *)
(*                                                                         *)
(* Tables of the store are written to the memory part of the flushable     *)
(* databases and become durable, all at once, when Store.Commit flushes    *)
(* them; disk is the durable copy.  A crash loses everything else.         *)
(***************************************************************************)
EXTENDS Integers, Sequences, FiniteSets, FiniteSetsExt

CONSTANTS
    MaxBlock,    \* blocks are 1..MaxBlock; block 0 is the last genesis block
    Epoch,       \* epochs
    Hash,        \* hashes of full block records
    Index,       \* positions in a validators group (idx.Validator)
    Idx,         \* Idx[g]: pos.Validators.GetIdx of the group of epoch g
    W,           \* W[g][S]: weight of the positions S in the group of epoch g
    BVs,         \* the signed block votes that may reach the node
    OwnHash,     \* OwnHash[b]: record of block b as this node executes it
    GenesisEpochs, \* epochs whose state comes with the genesis
    LlrStart,    \* first block with the LLR upgrade active
    CacheSize,   \* capacity of the votes index cache
    MaxCrashes,  \* bound: crashes
    None         \* no record

Block == 1..MaxBlock
Group(g) == DOMAIN Idx[g]
Exists(g, v) == v \in Group(g)
GetWeightByIdx(g, i) == W[g][{i}]
TotalWeight(g) == W[g][Index]

\* VotesCacheID
Key == [block : Block, epoch : Epoch, v : Hash]

ASSUME ConstantsAssumption ==
    /\ MaxBlock \in Nat /\ MaxBlock > 0
    /\ LlrStart \in Nat
    /\ GenesisEpochs \subseteq Epoch
    /\ CacheSize \in Nat /\ CacheSize > 0
    /\ MaxCrashes \in Nat
    /\ None \notin Hash
    /\ OwnHash \in [Block -> Hash]

\* Signed votes for the blocks start .. start + Len(votes) - 1 of one epoch,
\* signed by creator in the (same or a later) epoch signed; seq tells apart
\* the events that carry them.
ASSUME VotesAssumption ==
    \A bvs \in BVs :
        /\ bvs.epoch \in Epoch /\ bvs.signed \in Epoch
        /\ bvs.votes \in Seq(Hash) /\ Len(bvs.votes) > 0
        /\ bvs.start \in Block /\ bvs.start + Len(bvs.votes) - 1 \in Block

\* Weights are additive over the positions of a group, and a group has no
\* two validators at one position.
ASSUME GroupsAssumption ==
    \A g \in Epoch :
        /\ \A v \in Group(g) : Idx[g][v] \in Index
        /\ \A v, u \in Group(g) : Idx[g][v] = Idx[g][u] => v = u
        /\ W[g] \in [SUBSET Index -> Nat]
        /\ W[g][{}] = 0
        /\ \A S, T \in SUBSET Index :
               S \cap T = {} => W[g][S \cup T] = W[g][S] + W[g][T]

\* Mutant: the block after the last one.
LastBlockOffByOne(bvs) == bvs.start + Len(bvs.votes)

LastBlock(bvs) == bvs.start + Len(bvs.votes) - 1
VoteKey(bvs, i) ==
    [block |-> bvs.start + i - 1, epoch |-> bvs.epoch, v |-> bvs.votes[i]]

Creator == {bvs.creator : bvs \in BVs}

VARIABLES
    LlrBlockVotes,       \* stored signed votes
    LlrBlockVotesIndex,  \* weight and voters per key, as stored
    LlrBlockResults,     \* decided record of a block
    Blocks,              \* record of a stored block
    BlockEpochHistory,   \* epochs whose state (so validators group) is stored
    votesCache,          \* LRU cache over LlrBlockVotesIndex
    llrState,            \* LlrState, cached
    lastBVs,             \* last block voted for, per validator, cached
    lastBlock,           \* BlockState.LastBlock.Idx, cached
    engine, br, blockProc,
    disk, crashes

tables == <<LlrBlockVotes, LlrBlockVotesIndex, LlrBlockResults, Blocks,
            BlockEpochHistory, votesCache, llrState, lastBVs, lastBlock>>
vars == <<tables, engine, br, blockProc, disk, crashes>>

IndexEntry == [weight : Nat, set : SUBSET Index]
CacheEntry == [weight : Nat, set : SUBSET Index, mutated : BOOLEAN]
LlrState == [LowestBlockToDecide : 1..(MaxBlock + 1),
             LowestBlockToFill   : 1..(MaxBlock + 1)]

EngineIdle == [pc |-> "idle"]
BrIdle == [pc |-> "idle"]
BlockProcIdle == [pc |-> "idle"]
EmptyIndex == [k \in Key |-> [weight |-> 0, set |-> {}]]
EmptyCache == [k \in {} |-> 0]

-----------------------------------------------------------------------------
(* What the databases hold, with the caches flushed over them. *)

\* A cached entry that was not written back yet reaches the table when it is
\* evicted or when the cache is flushed.
Flushed(index, cache, keys) ==
    [k \in Key |->
        IF k \in keys \cap DOMAIN cache /\ cache[k].mutated
        THEN [weight |-> cache[k].weight, set |-> cache[k].set]
        ELSE index[k]]

FlushMutated(cache) ==
    [k \in DOMAIN cache |-> [cache[k] EXCEPT !.mutated = FALSE]]

Durable(index) ==
    [votes |-> LlrBlockVotes, index |-> index, results |-> LlrBlockResults,
     blocks |-> Blocks, epochs |-> BlockEpochHistory, llrState |-> llrState,
     lastBVs |-> lastBVs, lastBlock |-> lastBlock]

Init ==
    /\ LlrBlockVotes = {}
    /\ LlrBlockVotesIndex = EmptyIndex
    /\ LlrBlockResults = [b \in Block |-> None]
    /\ Blocks = [b \in Block |-> None]
    /\ BlockEpochHistory = GenesisEpochs
    /\ votesCache = EmptyCache
    /\ llrState = [LowestBlockToDecide |-> 1, LowestBlockToFill |-> 1]
    /\ lastBVs = [v \in Creator |-> 0]
    /\ lastBlock = 0
    /\ engine = EngineIdle /\ br = BrIdle /\ blockProc = BlockProcIdle
    /\ disk = Durable(EmptyIndex)
    /\ crashes = 0

-----------------------------------------------------------------------------
(* Helpers of the handlers. *)

Decided == {b \in Block : LlrBlockResults[b] # None}
Stored == {b \in Block : Blocks[b] # None}

\* Mutant: the indexes that exist already are not skipped.
actualizeLowestIndexByOne(current, upd, exists) ==
    IF current = upd THEN current + 1 ELSE current

actualizeLowestIndex(current, upd, exists) ==
    IF current = upd
    THEN Min({n \in (current + 1)..(MaxBlock + 1) : n \notin exists})
    ELSE current

updateLowestBlockToFill(b) ==
    llrState' = [llrState EXCEPT !.LowestBlockToFill =
                    actualizeLowestIndex(@, b, Stored)]

\* engineMu is released, or kept to commit: the store says whether enough
\* unflushed data has piled up.
mayCommit == engine' \in {EngineIdle, [pc |-> "commit"]}

getLlrVoteWeight(k) ==
    IF k \in DOMAIN votesCache
    THEN [weight |-> votesCache[k].weight, set |-> votesCache[k].set]
    ELSE LlrBlockVotesIndex[k]

\* Mutant: the votes of one validator are added up.
addLlrVoteWeightAgain(entry, i, diff) ==
    [weight |-> entry.weight + diff, set |-> entry.set \cup {i}]

\* Mutant: the weight is set instead of increased.
addLlrVoteWeightSet(entry, i, diff) ==
    IF i \in entry.set
    THEN entry
    ELSE [weight |-> diff, set |-> entry.set \cup {i}]

\* The entry after the vote of position i with the given weight.
addLlrVoteWeight(entry, i, diff) ==
    IF i \in entry.set
    THEN entry
    ELSE [weight |-> entry.weight + diff, set |-> entry.set \cup {i}]

\* Mutant: a third is enough.
enoughVotesThird(g, weight) == weight >= TotalWeight(g) \div 3

enoughVotes(g, weight) == weight >= (TotalWeight(g) \div 3) + 1

\* Victims of the LRU cache when k is put into it: as many other keys as the
\* cache exceeds its capacity by.
Evictions(k) ==
    LET others == DOMAIN votesCache \ {k}
    IN  {E \in SUBSET others :
            Cardinality(E) = IF Cardinality(others) < CacheSize THEN 0
                             ELSE Cardinality(others) + 1 - CacheSize}

\* Every addLlrVoteWeight leaves its key in the cache: either the vote was
\* counted and Add put it there, or its set was found by getLlrVoteWeight.
CacheAdd(k, old, new) ==
    \E E \in Evictions(k) :
        /\ LlrBlockVotesIndex' = Flushed(LlrBlockVotesIndex, votesCache, E)
        /\ votesCache' =
             [x \in (DOMAIN votesCache \ E) \cup {k} |->
                IF x = k
                THEN [weight |-> new.weight, set |-> new.set,
                      mutated |-> \/ new # old
                                  \/ k \in DOMAIN votesCache /\ votesCache[k].mutated]
                ELSE votesCache[x]]

-----------------------------------------------------------------------------
(* Block votes. *)

\* processBlockVotes up to the loop over the votes.  The refusals (votes known
\* already, unknown epoch, not a validator) change nothing.
processBlockVotes(bvs) ==
    /\ engine = EngineIdle
    /\ bvs \notin LlrBlockVotes
    /\ bvs.signed \in BlockEpochHistory
    /\ Exists(bvs.signed, bvs.creator)
    /\ engine' = [pc |-> "vote", bvs |-> bvs, next |-> 1, llrs |-> llrState]
    /\ UNCHANGED <<tables, br, blockProc, disk, crashes>>

\* One round of the loop.  The votes index and the results are written at once,
\* the LLR state when the loop is over (ModifyLlrState).
processBlockVote ==
    /\ engine.pc = "vote" /\ engine.next <= Len(engine.bvs.votes)
    /\ LET g == engine.bvs.signed
           i == Idx[g][engine.bvs.creator]
           k == VoteKey(engine.bvs, engine.next)
           old == getLlrVoteWeight(k)
           new == addLlrVoteWeight(old, i, GetWeightByIdx(g, i))
           won == /\ enoughVotes(g, new.weight)
                  /\ LlrBlockResults[k.block] = None
       IN  /\ CacheAdd(k, old, new)
           /\ LlrBlockResults' = IF won THEN [LlrBlockResults EXCEPT ![k.block] = k.v]
                                 ELSE LlrBlockResults
           /\ engine' = [engine EXCEPT !.next = @ + 1,
                  !.llrs.LowestBlockToDecide =
                      IF won THEN actualizeLowestIndex(@, k.block, Decided \cup {k.block})
                      ELSE @]
    /\ UNCHANGED <<LlrBlockVotes, Blocks, BlockEpochHistory, llrState, lastBVs,
                   lastBlock, br, blockProc, disk, crashes>>

\* Mutant: the last batch overwrites the last vote.
endBlockVotesLatest ==
    /\ engine.pc = "vote" /\ engine.next > Len(engine.bvs.votes)
    /\ llrState' = engine.llrs
    /\ LlrBlockVotes' = LlrBlockVotes \cup {engine.bvs}
    /\ lastBVs' = [lastBVs EXCEPT ![engine.bvs.creator] = LastBlock(engine.bvs)]
    /\ mayCommit
    /\ UNCHANGED <<LlrBlockVotesIndex, LlrBlockResults, Blocks, BlockEpochHistory,
                   votesCache, lastBlock, br, blockProc, disk, crashes>>

\* The rest of processBlockVotes, and of its caller.
endBlockVotes ==
    /\ engine.pc = "vote" /\ engine.next > Len(engine.bvs.votes)
    /\ llrState' = engine.llrs
    /\ LlrBlockVotes' = LlrBlockVotes \cup {engine.bvs}
    /\ lastBVs' = [lastBVs EXCEPT ![engine.bvs.creator] =
                      IF LastBlock(engine.bvs) > @ THEN LastBlock(engine.bvs) ELSE @]
    /\ mayCommit
    /\ UNCHANGED <<LlrBlockVotesIndex, LlrBlockResults, Blocks, BlockEpochHistory,
                   votesCache, lastBlock, br, blockProc, disk, crashes>>

-----------------------------------------------------------------------------
(* Full block records, in a thread that does not hold engineMu until the end. *)

\* Mutant: any record of a decided block.
checkFullBlockRecordDecided(b, h) ==
    /\ br = BrIdle
    /\ Blocks[b] = None
    /\ LlrBlockResults[b] # None
    /\ br' = [pc |-> "write", block |-> b, hash |-> h]
    /\ UNCHANGED <<tables, engine, blockProc, disk, crashes>>

\* The record is new, its block decided, and its hash the decided one.
checkFullBlockRecord(b, h) ==
    /\ br = BrIdle
    /\ Blocks[b] = None
    /\ LlrBlockResults[b] = h
    /\ br' = [pc |-> "write", block |-> b, hash |-> h]
    /\ UNCHANGED <<tables, engine, blockProc, disk, crashes>>

WriteFullBlockRecord ==
    /\ br.pc = "write"
    /\ Blocks' = [Blocks EXCEPT ![br.block] = br.hash]
    /\ br' = [br EXCEPT !.pc = "lock"]
    /\ UNCHANGED <<LlrBlockVotes, LlrBlockVotesIndex, LlrBlockResults,
                   BlockEpochHistory, votesCache, llrState, lastBVs, lastBlock,
                   engine, blockProc, disk, crashes>>

endFullBlockRecord ==
    /\ br.pc = "lock"
    /\ engine = EngineIdle
    /\ updateLowestBlockToFill(br.block)
    /\ mayCommit
    /\ br' = BrIdle
    /\ UNCHANGED <<LlrBlockVotes, LlrBlockVotesIndex, LlrBlockResults, Blocks,
                   BlockEpochHistory, votesCache, lastBVs, lastBlock,
                   blockProc, disk, crashes>>

-----------------------------------------------------------------------------
(* Blocks the node executes itself. *)

\* EndBlock of the next block, within processEvent: before the LLR upgrade
\* there is nothing to decide.  blockFn is handed to the worker, then
\* processEvent may commit (which waits for the worker).
EndBlock ==
    /\ engine = EngineIdle
    /\ blockProc = BlockProcIdle
    /\ lastBlock < MaxBlock
    /\ LET b == lastBlock + 1
       IN  /\ llrState' = [llrState EXCEPT !.LowestBlockToDecide =
                              IF b < LlrStart /\ @ = b THEN @ + 1 ELSE @]
           /\ blockProc' = [pc |-> "write", block |-> b]
    /\ mayCommit
    /\ UNCHANGED <<LlrBlockVotes, LlrBlockVotesIndex, LlrBlockResults, Blocks,
                   BlockEpochHistory, votesCache, lastBVs, lastBlock, br, disk, crashes>>

\* blockFn stores the block whether or not a record of it was stored before.
blockFnSetBlock ==
    /\ blockProc.pc = "write"
    /\ Blocks' = [Blocks EXCEPT ![blockProc.block] = OwnHash[blockProc.block]]
    /\ blockProc' = [blockProc EXCEPT !.pc = "update"]
    /\ UNCHANGED <<LlrBlockVotes, LlrBlockVotesIndex, LlrBlockResults,
                   BlockEpochHistory, votesCache, llrState, lastBVs, lastBlock,
                   engine, br, disk, crashes>>

\* ModifyLlrState takes the WriteLlrState mutex, which the loop over block
\* votes holds.
blockFnEnd ==
    /\ blockProc.pc = "update"
    /\ engine.pc # "vote"
    /\ lastBlock' = blockProc.block
    /\ updateLowestBlockToFill(blockProc.block)
    /\ blockProc' = BlockProcIdle
    /\ UNCHANGED <<LlrBlockVotes, LlrBlockVotesIndex, LlrBlockResults, Blocks,
                   BlockEpochHistory, votesCache, lastBVs, engine, br, disk, crashes>>

\* Mutant: the last block itself may be missing.
SwitchEpochToEarly(b) ==
    /\ engine = EngineIdle
    /\ blockProc = BlockProcIdle
    /\ b > lastBlock
    /\ llrState.LowestBlockToFill >= b
    /\ lastBlock' = b
    /\ engine' = [pc |-> "commit"]
    /\ UNCHANGED <<LlrBlockVotes, LlrBlockVotesIndex, LlrBlockResults, Blocks,
                   BlockEpochHistory, votesCache, llrState, lastBVs,
                   br, blockProc, disk, crashes>>

\* End of a snapsync: the node jumps to an epoch that starts after block b,
\* once all the blocks up to b are filled, and commits.
SwitchEpochTo(b) ==
    /\ engine = EngineIdle
    /\ blockProc = BlockProcIdle
    /\ b > lastBlock
    /\ llrState.LowestBlockToFill > b
    /\ lastBlock' = b
    /\ engine' = [pc |-> "commit"]
    /\ UNCHANGED <<LlrBlockVotes, LlrBlockVotesIndex, LlrBlockResults, Blocks,
                   BlockEpochHistory, votesCache, llrState, lastBVs,
                   br, blockProc, disk, crashes>>

\* An epoch state is stored, by an epoch record or by sealing an epoch.
SetHistoryBlockEpochState(e) ==
    /\ e \notin BlockEpochHistory
    /\ BlockEpochHistory' = BlockEpochHistory \cup {e}
    /\ UNCHANGED <<LlrBlockVotes, LlrBlockVotesIndex, LlrBlockResults, Blocks,
                   votesCache, llrState, lastBVs, lastBlock,
                   engine, br, blockProc, disk, crashes>>

-----------------------------------------------------------------------------
(* Durability. *)

\* The periodic flusher takes engineMu and commits.
flusherCommit ==
    /\ engine = EngineIdle
    /\ engine' = [pc |-> "commit"]
    /\ UNCHANGED <<tables, br, blockProc, disk, crashes>>

\* Mutant: the databases are flushed before the votes cache.
commitBeforeCache ==
    /\ engine.pc = "commit"
    /\ blockProc = BlockProcIdle
    /\ LlrBlockVotesIndex' = Flushed(LlrBlockVotesIndex, votesCache, DOMAIN votesCache)
    /\ votesCache' = FlushMutated(votesCache)
    /\ disk' = Durable(LlrBlockVotesIndex)
    /\ engine' = EngineIdle
    /\ UNCHANGED <<LlrBlockVotes, LlrBlockResults, Blocks, BlockEpochHistory,
                   llrState, lastBVs, lastBlock, br, blockProc, crashes>>

\* Service.commit waits for blockFn; Store.Commit writes the caches to the
\* tables and flushes the databases.
commit ==
    /\ engine.pc = "commit"
    /\ blockProc = BlockProcIdle
    /\ LlrBlockVotesIndex' = Flushed(LlrBlockVotesIndex, votesCache, DOMAIN votesCache)
    /\ votesCache' = FlushMutated(votesCache)
    /\ disk' = Durable(LlrBlockVotesIndex')
    /\ engine' = EngineIdle
    /\ UNCHANGED <<LlrBlockVotes, LlrBlockResults, Blocks, BlockEpochHistory,
                   llrState, lastBVs, lastBlock, br, blockProc, crashes>>

\* The process dies and starts again on what the databases hold.
Crash ==
    /\ crashes < MaxCrashes
    /\ crashes' = crashes + 1
    /\ LlrBlockVotes' = disk.votes
    /\ LlrBlockVotesIndex' = disk.index
    /\ LlrBlockResults' = disk.results
    /\ Blocks' = disk.blocks
    /\ BlockEpochHistory' = disk.epochs
    /\ votesCache' = EmptyCache
    /\ llrState' = disk.llrState
    /\ lastBVs' = disk.lastBVs
    /\ lastBlock' = disk.lastBlock
    /\ engine' = EngineIdle /\ br' = BrIdle /\ blockProc' = BlockProcIdle
    /\ UNCHANGED disk

Next ==
    \/ \E bvs \in BVs : processBlockVotes(bvs)
    \/ processBlockVote
    \/ endBlockVotes
    \/ \E b \in Block, h \in Hash : checkFullBlockRecord(b, h)
    \/ WriteFullBlockRecord
    \/ endFullBlockRecord
    \/ EndBlock
    \/ blockFnSetBlock
    \/ blockFnEnd
    \/ \E b \in Block : SwitchEpochTo(b)
    \/ \E e \in Epoch : SetHistoryBlockEpochState(e)
    \/ flusherCommit
    \/ commit
    \/ Crash

Spec == Init /\ [][Next]_vars

\* Threads are scheduled; a thread that waits for a mutex gets it in the end
\* (sync.Mutex hands over to a starving waiter); the leechers keep asking for
\* the votes and the records that are missing, and some peer has them.
Fairness ==
    /\ \A bvs \in BVs : SF_vars(processBlockVotes(bvs))
    /\ WF_vars(processBlockVote)
    /\ WF_vars(endBlockVotes)
    /\ \A b \in Block : SF_vars(\E h \in Hash : checkFullBlockRecord(b, h))
    /\ WF_vars(WriteFullBlockRecord)
    /\ SF_vars(endFullBlockRecord)
    /\ WF_vars(blockFnSetBlock)
    /\ SF_vars(blockFnEnd)
    /\ WF_vars(commit)

FairSpec == Spec /\ Fairness

-----------------------------------------------------------------------------
(* Properties. *)

\* The positions of x for which votes among the first n are counted under k.
VotesFor(x, k, n) ==
    /\ x.epoch = k.epoch
    /\ k.block \in x.start..(x.start + n - 1)
    /\ x.votes[k.block - x.start + 1] = k.v

Position(x) == Idx[x.signed][x.creator]

\* The stored batches that vote for k, and the one that is being processed if
\* its vote for k has been reached.
StoredFor(votes, k) == {x \in votes : VotesFor(x, k, Len(x.votes))}
CurrentFor(k) ==
    {x \in BVs : /\ engine.pc = "vote" /\ x = engine.bvs
                 /\ VotesFor(x, k, engine.next - 1)}

EntryExact(entry, X) ==
    /\ entry.set = {Position(x) : x \in X}
    /\ \A x \in X : entry.weight = W[x.signed][entry.set]
    /\ X = {} => entry.weight = 0

\* Votes that meet in one entry of the index were signed under one order and
\* one weighing of the validators.
StableGroups ==
    \A x, y \in BVs : x.epoch = y.epoch =>
        Idx[x.signed] = Idx[y.signed] /\ W[x.signed] = W[y.signed]

\* Validators that sign a record other than the one this node would execute
\* never weigh more than a third.
WrongSigners(g) ==
    {Idx[g][v] : v \in {u \in Group(g) : \E x \in BVs : \E i \in 1..Len(x.votes) :
        /\ x.creator = u
        /\ x.votes[i] # OwnHash[x.start + i - 1]}}
FaultyBound == \A g \in Epoch : W[g][WrongSigners(g)] <= TotalWeight(g) \div 3

\* Every table, cache and thread of the block-records part of gossip.Service
\* holds values of its type; the pointers of LlrState stay within the blocks.
TypeOK ==
    /\ LlrBlockVotes \in SUBSET BVs
    /\ LlrBlockVotesIndex \in [Key -> IndexEntry]
    /\ LlrBlockResults \in [Block -> Hash \cup {None}]
    /\ Blocks \in [Block -> Hash \cup {None}]
    /\ BlockEpochHistory \in SUBSET Epoch
    /\ DOMAIN votesCache \in SUBSET Key
    /\ votesCache \in [DOMAIN votesCache -> CacheEntry]
    /\ llrState \in LlrState
    /\ lastBVs \in [Creator -> 0..MaxBlock]
    /\ lastBlock \in 0..MaxBlock
    /\ engine \in {EngineIdle, [pc |-> "commit"]}
                 \cup [pc : {"vote"}, bvs : BVs, next : Nat, llrs : LlrState]
    /\ br \in {BrIdle} \cup [pc : {"write", "lock"}, block : Block, hash : Hash]
    /\ blockProc \in {BlockProcIdle} \cup [pc : {"write", "update"}, block : Block]
    /\ disk \in [votes : SUBSET BVs, index : [Key -> IndexEntry],
                 results : [Block -> Hash \cup {None}],
                 blocks : [Block -> Hash \cup {None}], epochs : SUBSET Epoch,
                 llrState : LlrState, lastBVs : [Creator -> 0..MaxBlock],
                 lastBlock : 0..MaxBlock]
    /\ crashes \in 0..MaxCrashes

\* Whatever was evicted, flushed or cached, and at every point of the loop over
\* a batch, the weight that getLlrVoteWeight answers is that of exactly the
\* validators whose vote was counted: nobody is counted twice and nobody is
\* lost.
VotesIndexExact ==
    \A k \in Key : EntryExact(getLlrVoteWeight(k),
                              StoredFor(LlrBlockVotes, k) \cup CurrentFor(k))

\* The same of the databases: a restarted node finds an index that agrees with
\* the votes it finds, so a vote is neither counted again nor refused as known
\* without having been counted.
DurableIndexExact ==
    \A k \in Key : EntryExact(disk.index[k], StoredFor(disk.votes, k))

\* Among the given votes for h in one epoch of b is more than a third of the
\* weight of a validators group.
Backed(b, h, votes) ==
    \E e \in Epoch :
        LET X == {x \in votes : VotesFor(x, [block |-> b, epoch |-> e, v |-> h], Len(x.votes))}
        IN  \E x \in X : W[x.signed][{Position(y) : y \in X}] > TotalWeight(x.signed) \div 3

\* Every decision the node reports, and every one it finds again after a crash,
\* is backed by votes it can show.
DecisionBacked ==
    /\ \A b \in Decided : Backed(b, LlrBlockResults[b], LlrBlockVotes \cup
            {x \in BVs : engine.pc = "vote" /\ x = engine.bvs})
    /\ \A b \in Block : disk.results[b] # None => Backed(b, disk.results[b], disk.votes)

\* l is the first block that the results leave undecided.
LowestUndecided(l, results) ==
    /\ \A b \in 1..(l - 1) : results[b] # None \/ b < LlrStart
    /\ l \in Block => results[l] = None

\* LowestBlockToDecide is the first undecided block, in memory whenever no batch
\* is half processed and on disk always: were it to point at a decided block,
\* no later vote would move it and the leechers would ask for it forever.
LowestToDecideExact ==
    /\ engine.pc # "vote" => LowestUndecided(llrState.LowestBlockToDecide, LlrBlockResults)
    /\ LowestUndecided(disk.llrState.LowestBlockToDecide, disk.results)

\* All the blocks up to the head, and all those below l, are there.
NoHole(blocks, head, l) ==
    \A b \in Block : (b <= head \/ b < l) => blocks[b] # None

\* There is no hole below the head of the chain or below LowestBlockToFill, in
\* memory or on disk, although records arrive in any order, race with the
\* blocks the node executes, and SwitchEpochTo trusts the pointer.
ChainComplete ==
    /\ NoHole(Blocks, lastBlock, llrState.LowestBlockToFill)
    /\ NoHole(disk.blocks, disk.lastBlock, disk.llrState.LowestBlockToFill)

\* LowestBlockToFill does not lag before a crash: the block it points at is
\* missing, unless the thread that stored it is about to move the pointer.
FillPointerTight ==
    LET l == llrState.LowestBlockToFill
    IN  crashes = 0 /\ l \in Stored =>
            \/ br.pc = "lock" /\ br.block = l
            \/ blockProc.pc = "update" /\ blockProc.block = l

\* The last vote remembered for a validator is the highest block of its stored
\* batches, whatever the order they arrived in.
LastBVsExact ==
    \A v \in Creator :
        lastBVs[v] = Max({0} \cup {LastBlock(x) : x \in {y \in LlrBlockVotes : y.creator = v}})

Decisions == INSTANCE WriteOnce WITH
    Slot <- Block, Permitted <- [b \in Block |-> {OwnHash[b]}],
    current <- LlrBlockResults, durable <- disk.results
Records == INSTANCE WriteOnce WITH
    Slot <- Block, Permitted <- [b \in Block |-> {OwnHash[b]}],
    current <- Blocks, durable <- disk.blocks

\* A decision of processBlockVote is final: LlrBlockResults is a write-once
\* register per block that a crash rolls back to its durable content, and the
\* only record it may hold is the one the node would execute itself.
DecisionsWriteOnce == Decisions!Spec

\* So is the block table, which ProcessFullBlockRecord and blockFn fill side by
\* side: a node that fills its chain from its peers ends with the chain it
\* would have computed.
RecordsWriteOnce == Records!Spec

\* All the blocks end up decided: the pointer the leechers ask from reaches the
\* end, across crashes.
EventuallyDecided == <>[](llrState.LowestBlockToDecide = MaxBlock + 1)

\* All the blocks end up filled, in whatever order the records come and however
\* they race with the blocks the node executes, unless the node crashes.
EventuallyFilled ==
    <>(crashes > 0) \/ <>[](llrState.LowestBlockToFill = MaxBlock + 1)

\* The round of the loop that reaches the vote for k of a validator that none of
\* the stored votes for k comes from adds that validator's weight.
CountsNewVote(k) ==
    LET x == engine.bvs
    IN  /\ engine.pc = "vote" /\ engine'.pc = "vote"
        /\ engine'.next = engine.next + 1
        /\ VotesFor(x, k, engine.next) /\ ~VotesFor(x, k, engine.next - 1)
        /\ \A y \in StoredFor(LlrBlockVotes, k) : y.creator # x.creator
        => getLlrVoteWeight(k)'.weight =
               getLlrVoteWeight(k).weight + W[x.signed][{Position(x)}]

\* addLlrVoteWeight leaves a vote out only if its validator already voted.
NewVoteCounts == [][\A k \in Key : CountsNewVote(k)]_vars

=============================================================================
