-------------------------- MODULE LlrBlocksProofs ---------------------------
(***************************************************************************)
(* Proofs about the block records of LlrBlocks, for any number of blocks,  *)
(* epochs, validators, votes and crashes: facts about the operators, type  *)
(* correctness; the pointers of the LLR state and the last vote kept for   *)
(* each validator are exact; the votes index counts exactly the validators *)
(* whose votes were processed, in memory and on disk; every decision and   *)
(* every stored block is the node's own, both tables are write-once, every *)
(* decision has the votes of a third of the validators behind it, and a    *)
(* vote that was not counted before counts.                                *)
(***************************************************************************)
EXTENDS LlrBlocks, TLAPS, WellFoundedInduction

-----------------------------------------------------------------------------
(* Facts about the operators. *)

\* A nonempty set of naturals has a least element, which Min finds.
LEMMA MinOfNaturals ==
    ASSUME NEW S \in SUBSET Nat, S # {}
    PROVE  Min(S) \in S /\ \A y \in S : Min(S) <= y
<1> DEFINE Less == {p \in Nat \X Nat : p[1] < p[2]}
<1>1. OpToRel(<, Nat) = Less
  BY Zenon DEF OpToRel
<1>2. IsWellFoundedOn(Less, Nat)
  BY Zenon, <1>1, NatLessThanWellFounded
<1> HIDE DEF Less
<1>3. \E x \in S : \A y \in S : ~(<<y, x>> \in Less)
  BY Zenon, <1>2, WFMin
<1>4. \A x, y \in Nat : <<y, x>> \in Less <=> y < x
  BY Zenon DEF Less
<1>5. PICK x \in S : \A y \in S : ~(<<y, x>> \in Less)
  BY Zenon, <1>3
<1>6. \A y \in S : ~(y < x)
  BY Zenon, <1>4, <1>5
<1>7. \A y \in S : x <= y
  BY <1>6
<1> QED
  BY Zenon, <1>7 DEF Min

\* actualizeLowestIndex moves a pointer that stands at upd to the first index
\* that does not exist, and no other pointer.
LEMMA ActualizeLowestIndex ==
    ASSUME NEW c \in 1..(MaxBlock + 1), NEW u \in Block, NEW E \in SUBSET Block
    PROVE  LET r == actualizeLowestIndex(c, u, E)
           IN  /\ r \in c..(MaxBlock + 1)
               /\ c # u => r = c
               /\ c = u => /\ r > c /\ r \notin E
                           /\ \A n \in (c + 1)..(r - 1) : n \in E
<1> DEFINE S == {n \in (c + 1)..(MaxBlock + 1) : n \notin E}
<1>1. CASE c = u
  <2>1. S \in SUBSET Nat /\ MaxBlock + 1 \in S
    BY <1>1, ConstantsAssumption DEF Block
  <2>2. Min(S) \in S /\ \A y \in S : Min(S) <= y
    BY Zenon, <2>1, MinOfNaturals
  <2>3. actualizeLowestIndex(c, u, E) = Min(S)
    BY Zenon, <1>1 DEF actualizeLowestIndex
  <2> HIDE DEF S
  <2> DEFINE r == Min(S)
  <2>4. r \in (c + 1)..(MaxBlock + 1) /\ r \notin E
    BY Zenon, <2>2 DEF S
  <2>5. \A n \in (c + 1)..(r - 1) : n \in E
    <3> SUFFICES ASSUME NEW n \in (c + 1)..(r - 1), n \notin E
                 PROVE  FALSE
      BY Zenon
    <3>1. n \in S
      BY <2>4, ConstantsAssumption DEF S
    <3> QED
      BY <2>2, <2>4, <3>1, ConstantsAssumption
  <2> HIDE DEF r
  <2> QED
    BY <1>1, <2>3, <2>4, <2>5, ConstantsAssumption DEF r
<1>2. CASE c # u
  BY <1>2, ConstantsAssumption DEF actualizeLowestIndex
<1> QED
  BY Zenon, <1>1, <1>2

-----------------------------------------------------------------------------
(* Type correctness. *)

\* The tables after the genesis have their types.
LEMMA InitTypeOK == Init => TypeOK
  BY ConstantsAssumption
  DEF Init, TypeOK, EmptyIndex, EmptyCache, IndexEntry, CacheEntry, LlrState,
      Block, EngineIdle, BrIdle, BlockProcIdle, Durable

\* Writing cache entries back gives a table of entries.
LEMMA FlushedType ==
    ASSUME NEW index \in [Key -> IndexEntry], NEW cache, NEW keys,
           DOMAIN cache \in SUBSET Key, cache \in [DOMAIN cache -> CacheEntry]
    PROVE  Flushed(index, cache, keys) \in [Key -> IndexEntry]
  BY Zenon DEF Flushed, IndexEntry, CacheEntry

\* The entry of a key, and what a vote makes of it.
LEMMA EntryType ==
    ASSUME TypeOK, NEW k \in Key
    PROVE  getLlrVoteWeight(k) \in IndexEntry
  BY Zenon DEF TypeOK, getLlrVoteWeight, IndexEntry, CacheEntry

\* Counting a vote of Nat weight in an entry gives an entry.
LEMMA AddType ==
    ASSUME NEW entry \in IndexEntry, NEW i \in Index, NEW diff \in Nat
    PROVE  addLlrVoteWeight(entry, i, diff) \in IndexEntry
  BY DEF addLlrVoteWeight, IndexEntry

\* CacheAdd keeps the types of the cache and of the table under it.
LEMMA CacheAddType ==
    ASSUME TypeOK, NEW k \in Key, NEW old \in IndexEntry, NEW new \in IndexEntry,
           CacheAdd(k, old, new)
    PROVE  /\ LlrBlockVotesIndex' \in [Key -> IndexEntry]
           /\ DOMAIN votesCache' \in SUBSET Key
           /\ votesCache' \in [DOMAIN votesCache' -> CacheEntry]
<1>1. PICK E \in Evictions(k) :
        /\ LlrBlockVotesIndex' = Flushed(LlrBlockVotesIndex, votesCache, E)
        /\ votesCache' =
             [x \in (DOMAIN votesCache \ E) \cup {k} |->
                IF x = k
                THEN [weight |-> new.weight, set |-> new.set,
                      mutated |-> \/ new # old
                                  \/ k \in DOMAIN votesCache /\ votesCache[k].mutated]
                ELSE votesCache[x]]
  BY Zenon DEF CacheAdd
<1>2. LlrBlockVotesIndex' \in [Key -> IndexEntry]
  BY Zenon, <1>1, FlushedType DEF TypeOK
<1>3. \A x \in DOMAIN votesCache : votesCache[x] \in CacheEntry
  BY Zenon DEF TypeOK
<1>4. \A x \in DOMAIN votesCache' : votesCache'[x] \in CacheEntry
  BY Zenon, <1>1, <1>3 DEF CacheEntry, IndexEntry
<1> QED
  BY Zenon, <1>1, <1>2, <1>4 DEF TypeOK

\* The vote at position n of a batch.
LEMMA VoteKeyType ==
    ASSUME NEW bvs \in BVs, NEW n \in 1..Len(bvs.votes)
    PROVE  VoteKey(bvs, n) \in Key /\ VoteKey(bvs, n).block \in Block
<1>1. bvs.votes[n] \in Hash
  BY VotesAssumption
<1>2. bvs.start + n - 1 \in Block
  BY SMTT(60), VotesAssumption, ConstantsAssumption DEF Block
<1> QED
  BY Zenon, <1>1, <1>2, VotesAssumption DEF VoteKey, Key

\* While a batch is processed its signer is in the group it signed under, the
\* batch is not stored yet, and nobody else moves the LLR state.
Voting ==
    engine.pc = "vote" =>
        /\ Exists(engine.bvs.signed, engine.bvs.creator)
        /\ engine.next \in 1..(Len(engine.bvs.votes) + 1)
        /\ engine.bvs \notin LlrBlockVotes
        /\ engine.llrs.LowestBlockToFill = llrState.LowestBlockToFill

\* The inductive form of type correctness.
TypeInv == TypeOK /\ Voting

\* TypeInv holds after the genesis.
LEMMA TypeInvInit == Init => TypeInv
  BY InitTypeOK DEF Init, TypeInv, Voting, EngineIdle

\* The pointer to fill stays in its range.
LEMMA FillType ==
    ASSUME TypeOK, NEW b \in Block, updateLowestBlockToFill(b)
    PROVE  llrState' \in LlrState
<1>1. actualizeLowestIndex(llrState.LowestBlockToFill, b, Stored)
        \in 1..(MaxBlock + 1)
  BY ActualizeLowestIndex, ConstantsAssumption DEF TypeOK, LlrState, Stored
<1> QED
  BY Zenon, <1>1 DEF updateLowestBlockToFill, TypeOK, LlrState

\* What is known of the batch that is being processed.
LEMMA VotingType ==
    ASSUME TypeInv, engine.pc = "vote"
    PROVE  /\ engine \in [pc : {"vote"}, bvs : BVs, next : Nat, llrs : LlrState]
           /\ engine.bvs \in BVs /\ engine.llrs \in LlrState
           /\ engine.next \in Nat \ {0} /\ engine.next <= Len(engine.bvs.votes) + 1
           /\ Len(engine.bvs.votes) \in Nat
           /\ engine.bvs.signed \in Epoch
           /\ Position(engine.bvs) \in Index
           /\ GetWeightByIdx(engine.bvs.signed, Position(engine.bvs)) \in Nat
<1>1. engine \in [pc : {"vote"}, bvs : BVs, next : Nat, llrs : LlrState]
  <2>1. engine # EngineIdle /\ engine # [pc |-> "commit"]
    BY DEF EngineIdle
  <2> QED
    BY Zenon, <2>1 DEF TypeInv, TypeOK
<1>2. engine.bvs \in BVs /\ engine.llrs \in LlrState
  BY Zenon, <1>1
<1>3. Len(engine.bvs.votes) \in Nat /\ engine.bvs.signed \in Epoch
  BY <1>2, VotesAssumption
<1>4. engine.next \in Nat \ {0} /\ engine.next <= Len(engine.bvs.votes) + 1
  BY <1>3 DEF TypeInv, Voting
<1>5. engine.bvs.creator \in Group(engine.bvs.signed)
  BY Zenon DEF TypeInv, Voting, Exists
<1>6. Position(engine.bvs) \in Index
  BY Zenon, <1>3, <1>5, GroupsAssumption DEF Position
<1>7. GetWeightByIdx(engine.bvs.signed, Position(engine.bvs)) \in Nat
  <2>1. W[engine.bvs.signed] \in [SUBSET Index -> Nat]
    BY Zenon, <1>3, GroupsAssumption
  <2> QED
    BY Zenon, <1>6, <2>1 DEF GetWeightByIdx
<1> QED
  BY Zenon, <1>1, <1>2, <1>3, <1>4, <1>6, <1>7

\* Every step of every thread, and a crash, keeps TypeInv.
LEMMA TypeInvNext == TypeInv /\ [Next]_vars => TypeInv'
<1> SUFFICES ASSUME TypeInv, [Next]_vars PROVE TypeInv'
  BY Zenon
<1> USE DEF TypeInv
<1>1. ASSUME NEW bvs \in BVs, processBlockVotes(bvs) PROVE TypeInv'
  <2>1. 1 \in 1..(Len(bvs.votes) + 1)
    BY VotesAssumption
  <2>2. engine' = [pc |-> "vote", bvs |-> bvs, next |-> 1, llrs |-> llrState]
    BY Zenon, <1>1 DEF processBlockVotes
  <2>3. engine' \in [pc : {"vote"}, bvs : BVs, next : Nat, llrs : LlrState]
    BY Zenon, <2>2 DEF TypeOK
  <2>4. TypeOK'
    BY Zenon, <1>1, <2>3 DEF processBlockVotes, TypeOK, tables
  <2>5. Voting'
    BY <1>1, <2>1, <2>2 DEF processBlockVotes, Voting, tables, Exists, Group
  <2> QED
    BY Zenon, <2>4, <2>5
<1>2. CASE processBlockVote
  <2> DEFINE x == engine.bvs
             i == Position(x)
             n == engine.next
             k == VoteKey(x, n)
             old == getLlrVoteWeight(k)
             upd == addLlrVoteWeight(old, i, GetWeightByIdx(x.signed, i))
             a == actualizeLowestIndex(engine.llrs.LowestBlockToDecide, k.block,
                                       Decided \cup {k.block})
  <2>1. engine.pc = "vote" /\ n <= Len(x.votes)
    BY Zenon, <1>2 DEF processBlockVote
  <2>2. /\ engine \in [pc : {"vote"}, bvs : BVs, next : Nat, llrs : LlrState]
        /\ x \in BVs /\ engine.llrs \in LlrState
        /\ n \in 1..Len(x.votes) /\ Len(x.votes) \in Nat /\ x.signed \in Epoch
        /\ i \in Index /\ GetWeightByIdx(x.signed, i) \in Nat
    BY <2>1, VotingType
  <2>3. k \in Key /\ k.block \in Block /\ k.v \in Hash
    BY Zenon, <2>2, VoteKeyType DEF Key
  <2>4. old \in IndexEntry /\ upd \in IndexEntry
    BY Zenon, <2>2, <2>3, EntryType, AddType
  <2>5. CacheAdd(k, old, upd)
    BY Zenon, <1>2 DEF processBlockVote, Position
  <2>6. /\ LlrBlockVotesIndex' \in [Key -> IndexEntry]
        /\ DOMAIN votesCache' \in SUBSET Key
        /\ votesCache' \in [DOMAIN votesCache' -> CacheEntry]
    BY Zenon, <2>3, <2>4, <2>5, CacheAddType
  <2>7. \/ LlrBlockResults' = LlrBlockResults
        \/ LlrBlockResults' = [LlrBlockResults EXCEPT ![k.block] = k.v]
    BY ZenonT(30), <1>2 DEF processBlockVote
  <2>8. LlrBlockResults' \in [Block -> Hash \cup {None}]
    BY Zenon, <2>3, <2>7 DEF TypeOK
  <2>9. a \in 1..(MaxBlock + 1)
    BY <2>2, <2>3, ActualizeLowestIndex, ConstantsAssumption DEF LlrState, Decided
  <2>10. \E d \in {a, engine.llrs.LowestBlockToDecide} :
           engine' = [engine EXCEPT !.next = n + 1, !.llrs.LowestBlockToDecide = d]
    BY ZenonT(30), <1>2 DEF processBlockVote
  <2>11. /\ UNCHANGED <<LlrBlockVotes, Blocks, BlockEpochHistory, llrState, lastBVs,
                         lastBlock, br, blockProc, disk, crashes>>
    BY Zenon, <1>2 DEF processBlockVote
  <2> HIDE DEF k, old, upd, a, i
  <2>12. /\ engine' \in [pc : {"vote"}, bvs : BVs, next : Nat, llrs : LlrState]
         /\ engine'.bvs = x /\ engine'.next = n + 1
         /\ engine'.llrs.LowestBlockToFill = engine.llrs.LowestBlockToFill
    <3>1. PICK d \in {a, engine.llrs.LowestBlockToDecide} :
             engine' = [engine EXCEPT !.next = n + 1, !.llrs.LowestBlockToDecide = d]
      BY Zenon, <2>10
    <3> DEFINE l == [engine.llrs EXCEPT !.LowestBlockToDecide = d]
    <3>2. l \in LlrState /\ l.LowestBlockToFill = engine.llrs.LowestBlockToFill
      BY Zenon, <2>2, <2>9 DEF LlrState
    <3>3. engine' = [engine EXCEPT !.next = n + 1, !.llrs = l]
      BY Zenon, <2>2, <3>1
    <3> HIDE DEF l
    <3>4. engine'.bvs = x /\ engine'.next = n + 1 /\ engine'.llrs = l
      BY Zenon, <2>2, <3>3
    <3>5. n + 1 \in Nat
      BY <2>2
    <3>6. engine' \in [pc : {"vote"}, bvs : BVs, next : Nat, llrs : LlrState]
      BY ZenonT(30), <2>2, <3>2, <3>3, <3>5
    <3> QED
      BY Zenon, <3>2, <3>4, <3>6
  <2>13. TypeOK'
    BY Zenon, <2>6, <2>8, <2>11, <2>12 DEF TypeOK
  <2>14. engine'.next \in 1..(Len(x.votes) + 1)
    BY SMTT(30), <2>2, <2>12
  <2>15. Voting'
    BY Zenon, <2>1, <2>11, <2>12, <2>14 DEF Voting, Exists, Group
  <2> QED
    BY Zenon, <2>13, <2>15
<1>3. CASE endBlockVotes
  <2>1. engine.bvs \in BVs /\ engine.llrs \in LlrState
    BY <1>3 DEF endBlockVotes, TypeOK, EngineIdle
  <2>2. engine.bvs.creator \in Creator /\ LastBlock(engine.bvs) \in Block
    BY Zenon, <2>1, VotesAssumption DEF Creator, LastBlock
  <2>3. lastBVs' \in [Creator -> 0..MaxBlock]
    <3> DEFINE c == engine.bvs.creator
               l == LastBlock(engine.bvs)
               m == IF l > lastBVs[c] THEN l ELSE lastBVs[c]
    <3>1. lastBVs' = [lastBVs EXCEPT ![c] = m]
      BY Zenon, <1>3 DEF endBlockVotes
    <3>2. lastBVs \in [Creator -> 0..MaxBlock]
      BY Zenon DEF TypeOK
    <3> HIDE DEF l
    <3>3. m \in 0..MaxBlock
      BY <2>2, <3>2, ConstantsAssumption DEF Block, l
    <3> HIDE DEF m, c
    <3> QED
      BY ZenonT(30), <2>2, <3>1, <3>2, <3>3 DEF c
  <2>4. engine' \in {EngineIdle, [pc |-> "commit"]}
    BY ZenonT(30), <1>3 DEF endBlockVotes, mayCommit
  <2>5. LlrBlockVotes' \in SUBSET BVs /\ llrState' \in LlrState
    BY Zenon, <1>3, <2>1 DEF endBlockVotes, TypeOK
  <2>6. UNCHANGED <<LlrBlockVotesIndex, LlrBlockResults, Blocks, BlockEpochHistory,
                    votesCache, lastBlock, br, blockProc, disk, crashes>>
    BY ZenonT(30), <1>3 DEF endBlockVotes
  <2>7. TypeOK'
    BY Zenon, <2>3, <2>4, <2>5, <2>6 DEF TypeOK
  <2>8. Voting'
    BY SMTT(30), <2>4 DEF Voting, EngineIdle
  <2> QED
    BY Zenon, <2>7, <2>8
<1>4. ASSUME NEW b \in Block, NEW h \in Hash, checkFullBlockRecord(b, h) PROVE TypeInv'
  BY Zenon, <1>4 DEF checkFullBlockRecord, TypeOK, Voting, tables, Exists, Group
<1>5. CASE WriteFullBlockRecord
  <2>1. br \in [pc : {"write", "lock"}, block : Block, hash : Hash]
    BY SMTT(30), <1>5 DEF WriteFullBlockRecord, TypeOK, BrIdle
  <2> QED
    BY ZenonT(30), <1>5, <2>1 DEF WriteFullBlockRecord, TypeOK, Voting, Exists, Group
<1>6. CASE endFullBlockRecord
  <2>1. br.block \in Block
    BY <1>6 DEF endFullBlockRecord, TypeOK, BrIdle
  <2>2. llrState' \in LlrState
    BY Zenon, <1>6, <2>1, FillType DEF endFullBlockRecord
  <2> QED
    BY SMTT(30), <1>6, <2>2 DEF endFullBlockRecord, mayCommit, TypeOK, Voting, EngineIdle
<1>7. CASE EndBlock
  <2>1. lastBlock + 1 \in Block
    BY <1>7, ConstantsAssumption DEF EndBlock, TypeOK, Block
  <2>2. llrState' \in LlrState
    <3> DEFINE l == llrState.LowestBlockToDecide
               m == IF lastBlock + 1 < LlrStart /\ l = lastBlock + 1 THEN l + 1 ELSE l
    <3>0. l \in 1..(MaxBlock + 1)
      BY Zenon DEF TypeOK, LlrState
    <3>1. m \in 1..(MaxBlock + 1)
      BY <2>1, <3>0, ConstantsAssumption DEF Block
    <3>2. llrState' = [llrState EXCEPT !.LowestBlockToDecide = m]
      BY Zenon, <1>7 DEF EndBlock
    <3> QED
      BY Zenon, <3>1, <3>2 DEF TypeOK, LlrState
  <2> QED
    BY <1>7, <2>1, <2>2 DEF EndBlock, mayCommit, TypeOK, Voting, EngineIdle
<1>8. CASE blockFnSetBlock
  <2>1. blockProc \in [pc : {"write", "update"}, block : Block]
    BY <1>8 DEF blockFnSetBlock, TypeOK, BlockProcIdle
  <2>2. OwnHash[blockProc.block] \in Hash
    BY Zenon, <2>1, ConstantsAssumption
  <2> QED
    BY ZenonT(30), <1>8, <2>1, <2>2 DEF blockFnSetBlock, TypeOK, Voting, Exists, Group
<1>9. CASE blockFnEnd
  <2>1. blockProc.block \in Block
    BY <1>9 DEF blockFnEnd, TypeOK, BlockProcIdle
  <2>2. llrState' \in LlrState
    BY Zenon, <1>9, <2>1, FillType DEF blockFnEnd
  <2>3. lastBlock' \in 0..MaxBlock
    BY <1>9, <2>1, ConstantsAssumption DEF blockFnEnd, Block
  <2> QED
    BY Zenon, <1>9, <2>2, <2>3 DEF blockFnEnd, TypeOK, Voting
<1>10. ASSUME NEW b \in Block, SwitchEpochTo(b) PROVE TypeInv'
  <2>1. TypeOK'
    BY SMTT(30), <1>10, ConstantsAssumption DEF SwitchEpochTo, TypeOK, Block
  <2>2. Voting'
    BY Zenon, <1>10 DEF SwitchEpochTo, Voting
  <2> QED
    BY Zenon, <2>1, <2>2
<1>11. ASSUME NEW e \in Epoch, SetHistoryBlockEpochState(e) PROVE TypeInv'
  BY Zenon, <1>11 DEF SetHistoryBlockEpochState, TypeOK, Voting, Exists, Group
<1>12. CASE flusherCommit
  <2>1. TypeOK'
    BY Zenon, <1>12 DEF flusherCommit, TypeOK, tables
  <2>2. Voting'
    BY Zenon, <1>12 DEF flusherCommit, Voting
  <2> QED
    BY Zenon, <2>1, <2>2
<1>13. CASE commit
  <2>1. LlrBlockVotesIndex' \in [Key -> IndexEntry]
    BY Zenon, <1>13, FlushedType DEF commit, TypeOK
  <2>2. /\ DOMAIN votesCache' \in SUBSET Key
        /\ votesCache' \in [DOMAIN votesCache' -> CacheEntry]
    <3>1. votesCache' = [k \in DOMAIN votesCache |-> [votesCache[k] EXCEPT !.mutated = FALSE]]
      BY Zenon, <1>13 DEF commit, FlushMutated
    <3>2. \A k \in DOMAIN votesCache : votesCache[k] \in CacheEntry
      BY Zenon DEF TypeOK
    <3>3. \A k \in DOMAIN votesCache : [votesCache[k] EXCEPT !.mutated = FALSE] \in CacheEntry
      BY Zenon, <3>2 DEF CacheEntry
    <3>4. DOMAIN votesCache \in SUBSET Key
      BY Zenon DEF TypeOK
    <3> QED
      BY Zenon, <3>1, <3>3, <3>4
  <2> QED
    BY Zenon, <1>13, <2>1, <2>2 DEF commit, Durable, TypeOK, Voting, EngineIdle
<1>14. CASE Crash
  <2>1. /\ DOMAIN votesCache' \in SUBSET Key
        /\ votesCache' \in [DOMAIN votesCache' -> CacheEntry]
    BY Zenon, <1>14 DEF Crash, EmptyCache
  <2>2. engine' = EngineIdle /\ br' = BrIdle /\ blockProc' = BlockProcIdle /\ disk' = disk
    BY Zenon, <1>14 DEF Crash
  <2>3. crashes' \in 0..MaxCrashes
    BY <1>14, ConstantsAssumption DEF Crash, TypeOK
  <2>4. /\ LlrBlockVotes' = disk.votes /\ LlrBlockVotesIndex' = disk.index
        /\ LlrBlockResults' = disk.results /\ Blocks' = disk.blocks
        /\ BlockEpochHistory' = disk.epochs /\ llrState' = disk.llrState
        /\ lastBVs' = disk.lastBVs /\ lastBlock' = disk.lastBlock
    BY Zenon, <1>14 DEF Crash
  <2>5. TypeOK'
    BY Zenon, <2>1, <2>2, <2>3, <2>4 DEF TypeOK
  <2>6. Voting'
    BY Zenon, <2>2 DEF Voting, EngineIdle
  <2> QED
    BY Zenon, <2>5, <2>6
<1>15. CASE UNCHANGED vars
  BY Zenon, <1>15 DEF vars, tables, TypeOK, Voting, Exists, Group
<1> QED
  BY Zenon, <1>1, <1>2, <1>3, <1>4, <1>5, <1>6, <1>7, <1>8, <1>9, <1>10, <1>11, <1>12,
     <1>13, <1>14, <1>15 DEF Next

\* TypeInv is an invariant of the node.
LEMMA TypeInvariant == Spec => []TypeInv
  BY TypeInvInit, TypeInvNext, PTL DEF Spec

\* Every table, cache and thread of the LLR block handlers keeps its type.
THEOREM TypeCorrect == Spec => []TypeOK
  BY TypeInvariant, PTL DEF TypeInv


-----------------------------------------------------------------------------
(* The pointers of the LLR state. *)

\* LowestBlockToDecide as the thread that may move it sees it.
ToDecide == IF engine.pc = "vote" THEN engine.llrs.LowestBlockToDecide
            ELSE llrState.LowestBlockToDecide

\* The inductive form of the exactness of LowestBlockToDecide.
DecideInv ==
    /\ LowestUndecided(ToDecide, LlrBlockResults)
    /\ LowestUndecided(disk.llrState.LowestBlockToDecide, disk.results)

\* A vote that decides a block moves the pointer past all the decided ones.
LEMMA DecideInvVote ==
    ASSUME TypeInv, DecideInv, processBlockVote
    PROVE  DecideInv'
<1> DEFINE l == engine.llrs.LowestBlockToDecide
<1>1. engine.pc = "vote" /\ engine.next <= Len(engine.bvs.votes) /\ disk' = disk
  BY Zenon DEF processBlockVote
<1>2. /\ engine.bvs \in BVs /\ engine.next \in 1..Len(engine.bvs.votes)
      /\ l \in 1..(MaxBlock + 1)
      /\ engine \in [pc : {"vote"}, bvs : BVs, next : Nat, llrs : LlrState]
  BY <1>1, VotingType DEF LlrState
<1>3. PICK k \in Key : k = VoteKey(engine.bvs, engine.next)
  BY Zenon, <1>2, VoteKeyType
<1>4. PICK b \in Block : b = k.block
  BY Zenon DEF Key
<1> DEFINE a == actualizeLowestIndex(l, b, Decided \cup {b})
<1>5. \/ LlrBlockResults' = LlrBlockResults /\ ToDecide' = l
      \/ /\ LlrBlockResults' = [LlrBlockResults EXCEPT ![b] = k.v]
         /\ LlrBlockResults[b] = None
         /\ ToDecide' = a
  BY ZenonT(60), <1>1, <1>2, <1>3, <1>4 DEF processBlockVote, ToDecide, LlrState
<1>6. ToDecide = l
  BY Zenon, <1>1 DEF ToDecide
<1>7. ASSUME LlrBlockResults' = [LlrBlockResults EXCEPT ![b] = k.v], LlrBlockResults[b] = None
      PROVE  LowestUndecided(a, LlrBlockResults')
  <2>1. /\ a \in l..(MaxBlock + 1)
        /\ l # b => a = l
        /\ l = b => /\ a > l /\ a \notin Decided \cup {b}
                    /\ \A n \in (l + 1)..(a - 1) : n \in Decided \cup {b}
    BY SMTT(60), <1>2, ActualizeLowestIndex DEF Decided
  <2>2. \A n \in Block : LlrBlockResults'[n] = None <=> n \notin Decided \cup {b}
    <3>1. k.v # None
      BY Zenon, ConstantsAssumption DEF Key
    <3> QED
      BY Zenon, <1>7, <3>1 DEF Decided, TypeInv, TypeOK
  <2> HIDE DEF a, l
  <2>3. \A n \in 1..(l - 1) : n \in Decided \/ n < LlrStart
    BY SMTT(60), <1>2, <1>6, ConstantsAssumption
    DEF DecideInv, LowestUndecided, Decided, Block
  <2>4. l \in Block => l \notin Decided
    BY Zenon, <1>6 DEF DecideInv, LowestUndecided, Decided
  <2>5. ASSUME NEW n \in 1..(a - 1) PROVE LlrBlockResults'[n] # None \/ n < LlrStart
    <3>0. n \in Block
      BY <1>2, <2>1, <2>5, ConstantsAssumption DEF Block
    <3>1. CASE n \in 1..(l - 1)
      BY Zenon, <2>2, <2>3, <3>0, <3>1
    <3>2. CASE n \notin 1..(l - 1)
      <4>1. l = b /\ (n = b \/ n \in (l + 1)..(a - 1))
        BY SMTT(60), <1>2, <2>1, <2>5, <3>2
      <4> QED
        BY Zenon, <2>1, <2>2, <3>0, <4>1
    <3> QED
      BY Zenon, <3>1, <3>2
  <2>6. a \in Block => LlrBlockResults'[a] = None
    BY Zenon, <2>1, <2>2, <2>4
  <2> QED
    BY Zenon, <2>5, <2>6 DEF LowestUndecided
<1>8. LowestUndecided(ToDecide', LlrBlockResults')
  BY Zenon, <1>5, <1>6, <1>7 DEF DecideInv
<1> QED
  BY Zenon, <1>1, <1>8 DEF DecideInv, LowestUndecided

\* Where the LLR upgrade is active from the first block, LowestBlockToDecide is
\* the first undecided block: in memory between two batches, on disk always.
THEOREM DecidePointerExact ==
    ASSUME LlrStart <= 1
    PROVE  Spec => []LowestToDecideExact
<1>1. ASSUME Init PROVE DecideInv
  <2>1. LlrBlockResults = [b \in Block |-> None] /\ disk.results = [b \in Block |-> None]
    BY Zenon, <1>1 DEF Init, Durable
  <2>2. llrState.LowestBlockToDecide = 1 /\ disk.llrState.LowestBlockToDecide = 1
    BY Zenon, <1>1 DEF Init, Durable
  <2>3. ToDecide = 1
    BY Zenon, <1>1, <2>2 DEF Init, ToDecide, EngineIdle
  <2> QED
    BY SMTT(60), <2>1, <2>2, <2>3 DEF DecideInv, LowestUndecided
<1>2. ASSUME TypeInv, DecideInv, [Next]_vars PROVE DecideInv'
  <2> USE <1>2
  <2>1. CASE processBlockVote
    BY Zenon, <2>1, DecideInvVote
  <2>2. CASE UNCHANGED <<LlrBlockResults, disk>> /\ ToDecide' = ToDecide
    BY Zenon, <2>2 DEF DecideInv, LowestUndecided
  <2>3. ASSUME NEW bvs \in BVs, processBlockVotes(bvs) PROVE DecideInv'
    BY Zenon, <2>2, <2>3 DEF processBlockVotes, tables, ToDecide, EngineIdle
  <2>4. CASE endBlockVotes
    BY SMTT(60), <2>2, <2>4 DEF endBlockVotes, mayCommit, ToDecide, EngineIdle
  <2>5. ASSUME NEW b \in Block, NEW h \in Hash, checkFullBlockRecord(b, h) PROVE DecideInv'
    BY Zenon, <2>2, <2>5 DEF checkFullBlockRecord, tables, ToDecide
  <2>6. CASE WriteFullBlockRecord
    BY Zenon, <2>2, <2>6 DEF WriteFullBlockRecord, ToDecide
  <2>7. CASE endFullBlockRecord
    BY <2>2, <2>7 DEF endFullBlockRecord, mayCommit, updateLowestBlockToFill, ToDecide,
                      EngineIdle, TypeInv, TypeOK, LlrState
  <2>8. CASE EndBlock
    <3>1. ~(lastBlock + 1 < LlrStart)
      BY ConstantsAssumption DEF TypeInv, TypeOK
    <3>2. llrState'.LowestBlockToDecide = llrState.LowestBlockToDecide
      BY Zenon, <2>8, <3>1 DEF EndBlock, TypeInv, TypeOK, LlrState
    <3> QED
      BY SMTT(60), <2>2, <2>8, <3>2 DEF EndBlock, mayCommit, ToDecide, EngineIdle
  <2>9. CASE blockFnSetBlock
    BY Zenon, <2>2, <2>9 DEF blockFnSetBlock, ToDecide
  <2>10. CASE blockFnEnd
    BY Zenon, <2>2, <2>10 DEF blockFnEnd, updateLowestBlockToFill, ToDecide, TypeInv, TypeOK, LlrState
  <2>11. ASSUME NEW b \in Block, SwitchEpochTo(b) PROVE DecideInv'
    BY Zenon, <2>2, <2>11 DEF SwitchEpochTo, ToDecide, EngineIdle
  <2>12. ASSUME NEW e \in Epoch, SetHistoryBlockEpochState(e) PROVE DecideInv'
    BY Zenon, <2>2, <2>12 DEF SetHistoryBlockEpochState, ToDecide
  <2>13. CASE flusherCommit
    BY Zenon, <2>2, <2>13 DEF flusherCommit, tables, ToDecide, EngineIdle
  <2>14. CASE commit
    BY ZenonT(30), <2>14 DEF commit, Durable, DecideInv, ToDecide, EngineIdle, LowestUndecided
  <2>15. CASE Crash
    BY ZenonT(30), <2>15 DEF Crash, DecideInv, ToDecide, EngineIdle, LowestUndecided
  <2>16. CASE UNCHANGED vars
    BY Zenon, <2>2, <2>16 DEF vars, tables, ToDecide
  <2> QED
    BY Zenon, <2>1, <2>3, <2>4, <2>5, <2>6, <2>7, <2>8, <2>9, <2>10, <2>11, <2>12, <2>13,
       <2>14, <2>15, <2>16 DEF Next
<1>3. Spec => []DecideInv
  BY <1>1, <1>2, TypeInvariant, PTL DEF Spec
<1>4. DecideInv => LowestToDecideExact
  BY Zenon DEF DecideInv, LowestToDecideExact, ToDecide
<1> QED
  BY <1>3, <1>4, PTL

\* What the two writers of blocks have stored, and which block is executed.
ChainInv ==
    /\ ChainComplete
    /\ br.pc = "lock" => Blocks[br.block] # None
    /\ blockProc.pc = "update" => Blocks[blockProc.block] # None
    /\ blockProc # BlockProcIdle => blockProc.block = lastBlock + 1

\* Moving LowestBlockToFill past a stored block makes no hole below it.
LEMMA FillNoHole ==
    ASSUME TypeOK, NEW b \in Block, Blocks[b] # None, updateLowestBlockToFill(b),
           NEW head, NoHole(Blocks, head, llrState.LowestBlockToFill)
    PROVE  NoHole(Blocks, head, llrState'.LowestBlockToFill)
<1> DEFINE l == llrState.LowestBlockToFill
           a == actualizeLowestIndex(l, b, Stored)
<1>1. l \in 1..(MaxBlock + 1) /\ llrState'.LowestBlockToFill = a
  BY Zenon DEF TypeOK, LlrState, updateLowestBlockToFill
<1>2. /\ a \in l..(MaxBlock + 1)
      /\ l # b => a = l
      /\ l = b => \A n \in (l + 1)..(a - 1) : n \in Stored
  BY <1>1, ActualizeLowestIndex DEF Stored
<1> HIDE DEF l, a
<1>3. \A n \in Block : n < a => n < l \/ n = b \/ n \in Stored
  BY <1>1, <1>2, ConstantsAssumption DEF Block
<1>4. \A n \in Block : n < a => n < l \/ Blocks[n] # None
  BY Zenon, <1>3 DEF Stored
<1> QED
  BY Zenon, <1>1, <1>4 DEF NoHole, l

\* Every step keeps the chain free of holes.
LEMMA ChainInvNext ==
    ASSUME TypeInv, ChainInv, [Next]_vars
    PROVE  ChainInv'
<1>0. TypeOK
  BY Zenon DEF TypeInv
<1> USE DEF ChainInv, ChainComplete
<1>1. CASE UNCHANGED <<Blocks, lastBlock, llrState, disk, br, blockProc>>
  BY Zenon, <1>1 DEF NoHole
<1>2. CASE processBlockVote
  BY ZenonT(60), <1>1, <1>2 DEF processBlockVote
<1>3. CASE endBlockVotes
  <2>1. llrState'.LowestBlockToFill = llrState.LowestBlockToFill
    BY Zenon, <1>3 DEF endBlockVotes, TypeInv, Voting
  <2> QED
    BY Zenon, <1>3, <2>1 DEF endBlockVotes, NoHole
<1>4. ASSUME NEW b \in Block, NEW h \in Hash, checkFullBlockRecord(b, h) PROVE ChainInv'
  BY Zenon, <1>4 DEF checkFullBlockRecord, tables, NoHole
<1>5. CASE WriteFullBlockRecord
  <2>1. br.block \in Block /\ br.hash \in Hash /\ br.hash # None
    BY SMTT(60), <1>0, <1>5, ConstantsAssumption DEF WriteFullBlockRecord, TypeOK, BrIdle
  <2>2. \A b \in Block : Blocks[b] # None => Blocks'[b] # None
    BY Zenon, <1>0, <1>5, <2>1 DEF WriteFullBlockRecord, TypeOK
  <2>3. Blocks'[br.block] # None
    BY Zenon, <1>0, <1>5, <2>1 DEF WriteFullBlockRecord, TypeOK
  <2>4. br'.block = br.block
    BY SMTT(60), <1>0, <1>5 DEF WriteFullBlockRecord, TypeOK, BrIdle
  <2>5. blockProc.pc = "update" => blockProc.block \in Block
    BY <1>0 DEF TypeOK, BlockProcIdle
  <2> QED
    BY Zenon, <1>5, <2>2, <2>3, <2>4, <2>5 DEF WriteFullBlockRecord, NoHole
<1>6. CASE endFullBlockRecord
  <2>1. br.block \in Block /\ Blocks[br.block] # None
    BY <1>0, <1>6 DEF endFullBlockRecord, TypeOK, BrIdle
  <2>2. NoHole(Blocks, lastBlock, llrState'.LowestBlockToFill)
    BY ZenonT(60), <1>0, <1>6, <2>1, FillNoHole DEF endFullBlockRecord
  <2> QED
    BY ZenonT(60), <1>6, <2>2 DEF endFullBlockRecord, BrIdle, NoHole
<1>7. CASE EndBlock
  <2>1. llrState'.LowestBlockToFill = llrState.LowestBlockToFill
    BY Zenon, <1>0, <1>7 DEF EndBlock, TypeOK, LlrState
  <2> QED
    BY Zenon, <1>7, <2>1 DEF EndBlock, NoHole
<1>8. CASE blockFnSetBlock
  <2>1. /\ blockProc \in [pc : {"write", "update"}, block : Block]
        /\ OwnHash[blockProc.block] # None
    <3>1. blockProc \in [pc : {"write", "update"}, block : Block]
      BY SMTT(60), <1>0, <1>8 DEF blockFnSetBlock, TypeOK, BlockProcIdle
    <3>2. OwnHash[blockProc.block] \in Hash
      BY Zenon, <3>1, ConstantsAssumption
    <3> QED
      BY Zenon, <3>1, <3>2, ConstantsAssumption
  <2>2. \A b \in Block : Blocks[b] # None => Blocks'[b] # None
    BY Zenon, <1>0, <1>8, <2>1 DEF blockFnSetBlock, TypeOK
  <2>3. Blocks'[blockProc.block] # None /\ blockProc'.block = blockProc.block
    BY Zenon, <1>0, <1>8, <2>1 DEF blockFnSetBlock, TypeOK
  <2>4. br.pc = "lock" => br.block \in Block
    BY <1>0 DEF TypeOK, BrIdle
  <2>5. blockProc # BlockProcIdle
    BY SMTT(60), <1>8 DEF blockFnSetBlock, BlockProcIdle
  <2> QED
    BY Zenon, <1>8, <2>2, <2>3, <2>4, <2>5 DEF blockFnSetBlock, NoHole
<1>9. CASE blockFnEnd
  <2>1. blockProc.block \in Block /\ Blocks[blockProc.block] # None
        /\ blockProc.block = lastBlock + 1
    BY <1>0, <1>9 DEF blockFnEnd, TypeOK, BlockProcIdle
  <2>2. NoHole(Blocks, lastBlock, llrState'.LowestBlockToFill)
    BY ZenonT(60), <1>0, <1>9, <2>1, FillNoHole DEF blockFnEnd
  <2>3. \A b \in Block : b <= lastBlock + 1 => b <= lastBlock \/ b = lastBlock + 1
    BY SMTT(20), <1>0, ConstantsAssumption DEF TypeOK, Block
  <2>4. NoHole(Blocks, lastBlock + 1, llrState'.LowestBlockToFill)
    BY ZenonT(60), <2>1, <2>2, <2>3 DEF NoHole
  <2> QED
    BY Zenon, <1>9, <2>1, <2>4 DEF blockFnEnd, BlockProcIdle, NoHole
<1>10. ASSUME NEW b \in Block, SwitchEpochTo(b) PROVE ChainInv'
  <2>1. \A n \in Block : n <= b => n < llrState.LowestBlockToFill
    BY SMTT(60), <1>0, <1>10, ConstantsAssumption DEF SwitchEpochTo, TypeOK, LlrState, Block
  <2> QED
    BY Zenon, <1>10, <2>1 DEF SwitchEpochTo, NoHole, BlockProcIdle
<1>11. ASSUME NEW e \in Epoch, SetHistoryBlockEpochState(e) PROVE ChainInv'
  BY ZenonT(30), <1>1, <1>11 DEF SetHistoryBlockEpochState
<1>12. CASE flusherCommit
  BY Zenon, <1>1, <1>12 DEF flusherCommit, tables
<1>13. CASE commit
  BY ZenonT(30), <1>13 DEF commit, Durable, NoHole
<1>14. CASE Crash
  BY ZenonT(60), <1>14 DEF Crash, NoHole, BrIdle, BlockProcIdle
<1>15. ASSUME NEW bvs \in BVs, processBlockVotes(bvs) PROVE ChainInv'
  BY Zenon, <1>1, <1>15 DEF processBlockVotes, tables
<1>16. CASE UNCHANGED vars
  BY Zenon, <1>1, <1>16 DEF vars, tables
<1> QED
  BY ZenonT(60), <1>2, <1>3, <1>4, <1>5, <1>6, <1>7, <1>8, <1>9, <1>10, <1>11, <1>12,
     <1>13, <1>14, <1>15, <1>16 DEF Next

\* No hole in the chain: below the head and below LowestBlockToFill every block
\* is stored, in memory and after any crash.
THEOREM ChainHasNoHole == Spec => []ChainComplete
<1>1. ASSUME Init PROVE ChainInv
  <2>1. lastBlock = 0 /\ disk.lastBlock = 0
    BY Zenon, <1>1 DEF Init, Durable
  <2>2. llrState.LowestBlockToFill = 1 /\ disk.llrState.LowestBlockToFill = 1
    BY Zenon, <1>1 DEF Init, Durable
  <2>3. NoHole(Blocks, lastBlock, 1) /\ NoHole(disk.blocks, disk.lastBlock, 1)
    BY SMTT(60), <2>1 DEF NoHole, Block
  <2>4. br = BrIdle /\ blockProc = BlockProcIdle
    BY Zenon, <1>1 DEF Init
  <2> QED
    BY Zenon, <2>2, <2>3, <2>4 DEF ChainInv, ChainComplete, BrIdle, BlockProcIdle
<1>2. Spec => []ChainInv
  BY <1>1, ChainInvNext, TypeInvariant, PTL DEF Spec
<1> QED
  BY <1>2, PTL DEF ChainInv

-----------------------------------------------------------------------------
(* LowestBlockToFill does not lag. *)

\* updateLowestBlockToFill leaves the pointer at a missing block, unless it did
\* not move it.
LEMMA FillMoves ==
    ASSUME TypeOK, NEW b \in Block, updateLowestBlockToFill(b)
    PROVE  IF llrState.LowestBlockToFill = b
           THEN llrState'.LowestBlockToFill \notin Stored
           ELSE llrState'.LowestBlockToFill = llrState.LowestBlockToFill
<1> DEFINE l == llrState.LowestBlockToFill
           a == actualizeLowestIndex(l, b, Stored)
<1>1. l \in 1..(MaxBlock + 1) /\ llrState'.LowestBlockToFill = a
  BY Zenon DEF TypeOK, LlrState, updateLowestBlockToFill
<1>2. (l # b => a = l) /\ (l = b => a \notin Stored)
  BY <1>1, ActualizeLowestIndex DEF Stored
<1> QED
  BY Zenon, <1>1, <1>2

\* Steps that store no block and move neither the pointer nor a thread that is
\* about to move it.
LEMMA FillTightSame ==
    ASSUME FillPointerTight, UNCHANGED <<Blocks, crashes>>,
           llrState'.LowestBlockToFill = llrState.LowestBlockToFill,
           br.pc = "lock" => br' = br,
           blockProc.pc = "update" => blockProc' = blockProc
    PROVE  FillPointerTight'
  BY Zenon DEF FillPointerTight, Stored

\* While the node has not crashed, a LowestBlockToFill that points at a stored
\* block is about to be moved: every thread that stores the block it points at
\* calls updateLowestBlockToFill with that block later.
THEOREM FillPointerDoesNotLag == Spec => []FillPointerTight
<1>1. ASSUME Init PROVE FillPointerTight
  <2>1. Stored = {}
    BY Zenon, <1>1 DEF Init, Stored
  <2> QED
    BY Zenon, <2>1 DEF FillPointerTight
<1>2. ASSUME TypeInv, FillPointerTight, [Next]_vars PROVE FillPointerTight'
  <2> USE <1>2
  <2> DEFINE l == llrState.LowestBlockToFill
  <2>0. TypeOK
    BY Zenon DEF TypeInv
  <2>1. ASSUME NEW bvs \in BVs, processBlockVotes(bvs) PROVE FillPointerTight'
    BY Zenon, <2>1, FillTightSame DEF processBlockVotes, tables
  <2>2. CASE processBlockVote
    BY Zenon, <2>2, FillTightSame DEF processBlockVote
  <2>3. CASE endBlockVotes
    <3>1. llrState'.LowestBlockToFill = llrState.LowestBlockToFill
      BY Zenon, <2>3 DEF endBlockVotes, TypeInv, Voting
    <3> QED
      BY ZenonT(30), <2>3, <3>1, FillTightSame DEF endBlockVotes
  <2>4. ASSUME NEW b \in Block, NEW h \in Hash, checkFullBlockRecord(b, h)
        PROVE  FillPointerTight'
    <3>1. br.pc # "lock"
      BY Zenon, <2>4 DEF checkFullBlockRecord, BrIdle
    <3> QED
      BY ZenonT(30), <2>4, <3>1, FillTightSame DEF checkFullBlockRecord, tables
  <2>5. CASE WriteFullBlockRecord
    <3>1. /\ br.pc = "write" /\ br'.pc = "lock" /\ br'.block = br.block
          /\ Blocks' = [Blocks EXCEPT ![br.block] = br.hash]
      BY <2>0, <2>5 DEF WriteFullBlockRecord, TypeOK, BrIdle
    <3>2. UNCHANGED <<llrState, blockProc, crashes>>
      BY ZenonT(30), <2>5 DEF WriteFullBlockRecord
    <3>3. \A b \in Block : b # br.block => Blocks'[b] = Blocks[b]
      BY Zenon, <2>0, <3>1 DEF TypeOK
    <3> QED
      BY Zenon, <3>1, <3>2, <3>3 DEF FillPointerTight, Stored
  <2>6. CASE endFullBlockRecord
    <3>1. br.pc = "lock" /\ br.block \in Block /\ updateLowestBlockToFill(br.block)
      BY <2>0, <2>6 DEF endFullBlockRecord, TypeOK, BrIdle
    <3>2. UNCHANGED <<Blocks, blockProc, crashes>>
      BY Zenon, <2>6 DEF endFullBlockRecord
    <3>3. IF l = br.block THEN llrState'.LowestBlockToFill \notin Stored
          ELSE llrState'.LowestBlockToFill = l
      BY Zenon, <2>0, <3>1, FillMoves
    <3> QED
      BY Zenon, <3>1, <3>2, <3>3 DEF FillPointerTight, Stored
  <2>7. CASE EndBlock
    <3>1. llrState'.LowestBlockToFill = llrState.LowestBlockToFill
      BY Zenon, <2>0, <2>7 DEF EndBlock, TypeOK, LlrState
    <3>2. blockProc.pc # "update"
      BY Zenon, <2>7 DEF EndBlock, BlockProcIdle
    <3> QED
      BY ZenonT(30), <2>7, <3>1, <3>2, FillTightSame DEF EndBlock
  <2>8. CASE blockFnSetBlock
    <3>1. /\ blockProc.pc = "write" /\ blockProc'.pc = "update"
          /\ blockProc'.block = blockProc.block
          /\ Blocks' = [Blocks EXCEPT ![blockProc.block] = OwnHash[blockProc.block]]
      BY <2>0, <2>8 DEF blockFnSetBlock, TypeOK, BlockProcIdle
    <3>2. UNCHANGED <<llrState, br, crashes>>
      BY ZenonT(30), <2>8 DEF blockFnSetBlock
    <3>3. \A b \in Block : b # blockProc.block => Blocks'[b] = Blocks[b]
      BY Zenon, <2>0, <3>1 DEF TypeOK
    <3> QED
      BY Zenon, <3>1, <3>2, <3>3 DEF FillPointerTight, Stored
  <2>9. CASE blockFnEnd
    <3>1. /\ blockProc.pc = "update" /\ blockProc.block \in Block
          /\ updateLowestBlockToFill(blockProc.block)
      BY <2>0, <2>9 DEF blockFnEnd, TypeOK, BlockProcIdle
    <3>2. UNCHANGED <<Blocks, br, crashes>>
      BY Zenon, <2>9 DEF blockFnEnd
    <3>3. IF l = blockProc.block THEN llrState'.LowestBlockToFill \notin Stored
          ELSE llrState'.LowestBlockToFill = l
      BY Zenon, <2>0, <3>1, FillMoves
    <3> QED
      BY Zenon, <3>1, <3>2, <3>3 DEF FillPointerTight, Stored
  <2>10. ASSUME NEW b \in Block, SwitchEpochTo(b) PROVE FillPointerTight'
    BY Zenon, <2>10, FillTightSame DEF SwitchEpochTo
  <2>11. ASSUME NEW e \in Epoch, SetHistoryBlockEpochState(e) PROVE FillPointerTight'
    BY Zenon, <2>11, FillTightSame DEF SetHistoryBlockEpochState
  <2>12. CASE flusherCommit
    BY Zenon, <2>12, FillTightSame DEF flusherCommit, tables
  <2>13. CASE commit
    BY ZenonT(30), <2>13, FillTightSame DEF commit
  <2>14. CASE Crash
    <3>1. crashes' # 0
      BY <2>0, <2>14, ConstantsAssumption DEF Crash, TypeOK
    <3> QED
      BY ZenonT(30), <3>1 DEF FillPointerTight
  <2>15. CASE UNCHANGED vars
    BY Zenon, <2>15, FillTightSame DEF vars, tables
  <2> QED
    BY ZenonT(30), <2>1, <2>2, <2>3, <2>4, <2>5, <2>6, <2>7, <2>8, <2>9, <2>10, <2>11, <2>12,
       <2>13, <2>14, <2>15 DEF Next
<1> QED
  BY <1>1, <1>2, TypeInvariant, PTL DEF Spec

-----------------------------------------------------------------------------
(* The last vote remembered for a validator. *)

LastBlocks(votes, v) == {0} \cup {LastBlock(x) : x \in {y \in votes : y.creator = v}}

\* last remembers the greatest block of the votes of every validator.
Latest(last, votes) ==
    \A v \in Creator : /\ last[v] \in LastBlocks(votes, v)
                       /\ \A n \in LastBlocks(votes, v) : n <= last[v]

LastInv == Latest(lastBVs, LlrBlockVotes) /\ Latest(disk.lastBVs, disk.votes)

\* The greatest of a set of numbers is the one that no other exceeds.
LEMMA GreatestIsMax ==
    ASSUME NEW S \in SUBSET Nat, NEW m \in S, \A n \in S : n <= m
    PROVE  Max(S) = m
<1>1. \A x \in S : (\A y \in S : x >= y) => x = m
  OBVIOUS
<1>2. m \in S /\ \A y \in S : m >= y
  BY Zenon
<1> QED
  BY Zenon, <1>1, <1>2 DEF Max

\* The last block of a batch is a block.
LEMMA LastBlockType ==
    ASSUME NEW x \in BVs
    PROVE  LastBlock(x) \in Nat
  BY SMTT(30), VotesAssumption, ConstantsAssumption DEF LastBlock, Block

\* A stored batch raises what is remembered of its signer, and of nobody else.
LEMMA LatestAdd ==
    ASSUME NEW last \in [Creator -> Nat], NEW votes \in SUBSET BVs, NEW x \in BVs,
           Latest(last, votes)
    PROVE  Latest([last EXCEPT ![x.creator] =
                      IF LastBlock(x) > @ THEN LastBlock(x) ELSE @], votes \cup {x})
<1> DEFINE c == x.creator
           m == IF LastBlock(x) > last[c] THEN LastBlock(x) ELSE last[c]
           next == [last EXCEPT ![c] = m]
<1>1. c \in Creator /\ LastBlock(x) \in Nat /\ last[c] \in Nat
  BY Zenon, LastBlockType DEF Creator
<1>2. LastBlocks(votes \cup {x}, c) = LastBlocks(votes, c) \cup {LastBlock(x)}
  BY Zenon DEF LastBlocks
<1>3. \A v \in Creator \ {c} : LastBlocks(votes \cup {x}, v) = LastBlocks(votes, v)
  BY Zenon DEF LastBlocks
<1>4. next[c] = m /\ \A v \in Creator \ {c} : next[v] = last[v]
  BY Zenon, <1>1
<1>5. LastBlocks(votes, c) \in SUBSET Nat
  BY LastBlockType DEF LastBlocks
<1>6. last[c] \in LastBlocks(votes, c) /\ \A n \in LastBlocks(votes, c) : n <= last[c]
  BY Zenon, <1>1 DEF Latest
<1>7. /\ m \in LastBlocks(votes, c) \cup {LastBlock(x)}
      /\ \A n \in LastBlocks(votes, c) \cup {LastBlock(x)} : n <= m
  <2> HIDE DEF c
  <2> QED
    BY SMTT(30), <1>1, <1>5, <1>6
<1> HIDE DEF m, next
<1>8. ASSUME NEW v \in Creator
      PROVE  /\ next[v] \in LastBlocks(votes \cup {x}, v)
             /\ \A n \in LastBlocks(votes \cup {x}, v) : n <= next[v]
  <2>1. CASE v = c
    BY ZenonT(30), <1>2, <1>4, <1>7, <2>1
  <2>2. CASE v # c
    BY ZenonT(30), <1>3, <1>4, <2>2, <1>8 DEF Latest
  <2> QED
    BY Zenon, <2>1, <2>2
<1>9. Latest(next, votes \cup {x})
  BY Zenon, <1>8 DEF Latest
<1> QED
  BY Zenon, <1>9 DEF next, m

\* The last vote remembered for a validator is the highest block of its stored
\* batches, in whatever order processBlockVotes took them and however often the
\* node crashed and processed some of them again.
THEOREM LastVoteExact == Spec => []LastBVsExact
<1>1. ASSUME Init PROVE LastInv
  <2>1. /\ LlrBlockVotes = {} /\ disk.votes = {}
        /\ lastBVs = [v \in Creator |-> 0] /\ disk.lastBVs = [v \in Creator |-> 0]
    BY Zenon, <1>1 DEF Init, Durable
  <2>2. \A v \in Creator : LastBlocks({}, v) = {0}
    BY Zenon DEF LastBlocks
  <2> QED
    BY SMTT(30), <2>1, <2>2 DEF LastInv, Latest
<1>2. ASSUME TypeInv, LastInv, [Next]_vars PROVE LastInv'
  <2> USE <1>2
  <2>1. ASSUME Latest(lastBVs', LlrBlockVotes'), Latest(disk'.lastBVs, disk'.votes)
        PROVE  LastInv'
    BY Zenon, <2>1 DEF LastInv, Latest, LastBlocks, LastBlock
  <2>2. CASE UNCHANGED <<LlrBlockVotes, lastBVs, disk>>
    BY Zenon, <2>1, <2>2 DEF LastInv
  <2>3. CASE endBlockVotes
    <3>1. engine.bvs \in BVs
      BY Zenon, <2>3, VotingType DEF endBlockVotes
    <3>2. lastBVs \in [Creator -> Nat] /\ LlrBlockVotes \in SUBSET BVs
      BY SMTT(30), ConstantsAssumption DEF TypeInv, TypeOK
    <3>3. Latest([lastBVs EXCEPT ![engine.bvs.creator] =
                     IF LastBlock(engine.bvs) > @ THEN LastBlock(engine.bvs) ELSE @],
                 LlrBlockVotes \cup {engine.bvs})
      BY Zenon, <3>1, <3>2, LatestAdd DEF LastInv
    <3>4. /\ LlrBlockVotes' = LlrBlockVotes \cup {engine.bvs} /\ disk' = disk
          /\ lastBVs' = [lastBVs EXCEPT ![engine.bvs.creator] =
                 IF LastBlock(engine.bvs) > @ THEN LastBlock(engine.bvs) ELSE @]
      BY Zenon, <2>3 DEF endBlockVotes
    <3> QED
      BY ZenonT(30), <2>1, <3>3, <3>4 DEF LastInv
  <2>4. CASE commit
    <3>1. /\ UNCHANGED <<LlrBlockVotes, lastBVs>>
          /\ disk'.votes = LlrBlockVotes /\ disk'.lastBVs = lastBVs
      BY Zenon, <2>4 DEF commit, Durable
    <3> QED
      BY Zenon, <2>1, <3>1 DEF LastInv
  <2>5. CASE Crash
    <3>1. LlrBlockVotes' = disk.votes /\ lastBVs' = disk.lastBVs /\ disk' = disk
      BY Zenon, <2>5 DEF Crash
    <3> QED
      BY Zenon, <2>1, <3>1 DEF LastInv
  <2> QED
    BY ZenonT(30), <2>2, <2>3, <2>4, <2>5
    DEF Next, vars, tables, processBlockVotes, processBlockVote, checkFullBlockRecord,
        WriteFullBlockRecord, endFullBlockRecord, EndBlock, blockFnSetBlock, blockFnEnd,
        SwitchEpochTo, SetHistoryBlockEpochState, flusherCommit
<1>3. ASSUME TypeInv, LastInv PROVE LastBVsExact
  <2> SUFFICES ASSUME NEW v \in Creator
               PROVE  lastBVs[v] = Max(LastBlocks(LlrBlockVotes, v))
    BY Zenon DEF LastBVsExact, LastBlocks
  <2>1. LastBlocks(LlrBlockVotes, v) \in SUBSET Nat
    BY <1>3, LastBlockType DEF LastBlocks, TypeInv, TypeOK
  <2> QED
    BY Zenon, <1>3, <2>1, GreatestIsMax DEF LastInv, Latest
<1>4. Spec => []LastInv
  BY <1>1, <1>2, TypeInvariant, PTL DEF Spec
<1> QED
  BY <1>3, <1>4, TypeInvariant, PTL


-----------------------------------------------------------------------------
(* The votes index is exact. *)

\* A cached entry that was not changed is the stored one, so that dropping it
\* from the cache loses nothing.
CacheClean ==
    \A k \in DOMAIN votesCache :
        ~votesCache[k].mutated =>
            LlrBlockVotesIndex[k] = [weight |-> votesCache[k].weight,
                                     set |-> votesCache[k].set]

\* Putting an entry into the cache, with the evictions it causes, changes what
\* getLlrVoteWeight answers for its key only.
LEMMA CacheAddView ==
    ASSUME TypeOK, CacheClean, NEW k \in Key, NEW old, NEW upd \in IndexEntry,
           old = getLlrVoteWeight(k), CacheAdd(k, old, upd)
    PROVE  /\ getLlrVoteWeight(k)' = upd
           /\ \A x \in Key \ {k} : getLlrVoteWeight(x)' = getLlrVoteWeight(x)
           /\ CacheClean'
<1>1. PICK E \in Evictions(k) :
        /\ LlrBlockVotesIndex' = Flushed(LlrBlockVotesIndex, votesCache, E)
        /\ votesCache' =
             [x \in (DOMAIN votesCache \ E) \cup {k} |->
                IF x = k
                THEN [weight |-> upd.weight, set |-> upd.set,
                      mutated |-> \/ upd # old
                                  \/ k \in DOMAIN votesCache /\ votesCache[k].mutated]
                ELSE votesCache[x]]
  BY Zenon DEF CacheAdd
<1>2. k \notin E /\ E \subseteq DOMAIN votesCache
  BY Zenon DEF Evictions
<1>3. upd = [weight |-> upd.weight, set |-> upd.set]
  BY Zenon DEF IndexEntry
<1>4. \A x \in Key : LlrBlockVotesIndex'[x] =
        IF x \in E /\ votesCache[x].mutated
        THEN [weight |-> votesCache[x].weight, set |-> votesCache[x].set]
        ELSE LlrBlockVotesIndex[x]
  BY Zenon, <1>1, <1>2 DEF Flushed
<1>5. DOMAIN votesCache' = (DOMAIN votesCache \ E) \cup {k}
  BY Zenon, <1>1
<1>6. \A x \in DOMAIN votesCache' : x # k => votesCache'[x] = votesCache[x]
  BY Zenon, <1>1, <1>5
<1>7. /\ votesCache'[k].weight = upd.weight /\ votesCache'[k].set = upd.set
      /\ votesCache'[k].mutated <=> \/ upd # old
                                    \/ k \in DOMAIN votesCache /\ votesCache[k].mutated
  BY Zenon, <1>1
<1>8. getLlrVoteWeight(k)' = upd
  BY Zenon, <1>3, <1>5, <1>7 DEF getLlrVoteWeight
<1>9. ASSUME NEW x \in Key \ {k} PROVE getLlrVoteWeight(x)' = getLlrVoteWeight(x)
  <2>1. CASE x \in DOMAIN votesCache \ E
    BY Zenon, <1>5, <1>6, <1>9, <2>1 DEF getLlrVoteWeight
  <2>2. CASE x \in E
    BY Zenon, <1>2, <1>4, <1>5, <1>9, <2>2 DEF getLlrVoteWeight, CacheClean
  <2>3. CASE x \notin DOMAIN votesCache
    BY ZenonT(30), <1>2, <1>4, <1>5, <1>9, <2>3 DEF getLlrVoteWeight
  <2> QED
    BY Zenon, <2>1, <2>2, <2>3
<1>10. CacheClean'
  <2> SUFFICES ASSUME NEW x \in DOMAIN votesCache', ~votesCache'[x].mutated
               PROVE  LlrBlockVotesIndex'[x] = [weight |-> votesCache'[x].weight,
                                                set |-> votesCache'[x].set]
    BY Zenon DEF CacheClean
  <2>1. CASE x = k
    <3>1. upd = old /\ ~(k \in DOMAIN votesCache /\ votesCache[k].mutated)
      BY Zenon, <1>7, <2>1
    <3>2. LlrBlockVotesIndex[k] = old
      BY Zenon, <3>1 DEF getLlrVoteWeight, CacheClean
    <3> QED
      BY ZenonT(30), <1>2, <1>3, <1>4, <1>7, <2>1, <3>1, <3>2
  <2>2. CASE x # k
    <3>1. x \in DOMAIN votesCache \ E /\ x \in Key
      BY Zenon, <1>5, <2>2 DEF TypeOK
    <3> QED
      BY Zenon, <1>4, <1>6, <2>2, <3>1 DEF CacheClean
  <2> QED
    BY Zenon, <2>1, <2>2
<1> QED
  BY Zenon, <1>8, <1>9, <1>10

\* Flushing the cache writes to the table what getLlrVoteWeight answers.
LEMMA CommitView ==
    ASSUME TypeOK, CacheClean, commit
    PROVE  /\ \A k \in Key : /\ LlrBlockVotesIndex'[k] = getLlrVoteWeight(k)
                             /\ getLlrVoteWeight(k)' = getLlrVoteWeight(k)
           /\ CacheClean'
<1>1. ASSUME NEW k \in Key PROVE LlrBlockVotesIndex'[k] = getLlrVoteWeight(k)
  BY Zenon DEF commit, Flushed, getLlrVoteWeight, CacheClean
<1>2. /\ DOMAIN votesCache' = DOMAIN votesCache
      /\ \A k \in DOMAIN votesCache :
            /\ votesCache'[k].weight = votesCache[k].weight
            /\ votesCache'[k].set = votesCache[k].set
  BY DEF commit, FlushMutated, TypeOK, CacheEntry
<1>3. ASSUME NEW k \in Key PROVE getLlrVoteWeight(k)' = getLlrVoteWeight(k)
  BY Zenon, <1>1, <1>2 DEF getLlrVoteWeight
<1>4. CacheClean'
  BY Zenon, <1>1, <1>2 DEF CacheClean, getLlrVoteWeight, TypeOK
<1> QED
  BY Zenon, <1>1, <1>3, <1>4

\* The batches counted under a key.
Counted(k) == StoredFor(LlrBlockVotes, k) \cup CurrentFor(k)

\* The inductive form of the exactness of the index.
IndexInv == VotesIndexExact /\ DurableIndexExact /\ CacheClean

\* The batches counted under a key are among those that may reach the node.
LEMMA CountedType ==
    ASSUME TypeOK, NEW k \in Key
    PROVE  /\ Counted(k) \subseteq BVs
           /\ \A x \in Counted(k) : x.epoch = k.epoch
  BY Zenon DEF TypeOK, Counted, StoredFor, CurrentFor, VotesFor

\* After n votes of a batch, it votes for the keys of the first n - 1 and for the
\* n-th.
LEMMA VotesForStep ==
    ASSUME NEW x \in BVs, NEW n \in 1..Len(x.votes), NEW k \in Key
    PROVE  VotesFor(x, k, n) <=> VotesFor(x, k, n - 1) \/ k = VoteKey(x, n)
<1>1. Len(x.votes) \in Nat /\ x.start \in Nat /\ k.block \in Nat
  BY VotesAssumption, ConstantsAssumption DEF Key, Block
<1>2. k = VoteKey(x, n) <=>
        k.block = x.start + n - 1 /\ k.epoch = x.epoch /\ k.v = x.votes[n]
  BY DEF VoteKey, Key
<1>3. k.block \in x.start..(x.start + n - 1) <=>
        k.block \in x.start..(x.start + (n - 1) - 1) \/ k.block = x.start + n - 1
  BY SMTT(60), <1>1
<1>4. k.block = x.start + n - 1 => k.block - x.start + 1 = n
  BY <1>1
<1> QED
  BY Zenon, <1>2, <1>3, <1>4 DEF VotesFor

\* No vote of a batch is reached before the first.
LEMMA VotesForNone ==
    ASSUME NEW x \in BVs, NEW k \in Key
    PROVE  ~VotesFor(x, k, 0)
  BY SMTT(60), VotesAssumption, ConstantsAssumption DEF VotesFor, Key, Block

\* Counting the vote of x keeps an entry exact.
LEMMA AddExact ==
    ASSUME StableGroups, NEW k \in Key, NEW X \in SUBSET BVs, NEW x \in BVs,
           x.epoch = k.epoch, \A y \in X : y.epoch = k.epoch,
           Position(x) \in Index, NEW entry \in IndexEntry, EntryExact(entry, X)
    PROVE  EntryExact(addLlrVoteWeight(entry, Position(x),
                                       GetWeightByIdx(x.signed, Position(x))),
                      X \cup {x})
<1> DEFINE i == Position(x)
           new == addLlrVoteWeight(entry, i, GetWeightByIdx(x.signed, i))
<1>1. x.signed \in Epoch /\ W[x.signed] \in [SUBSET Index -> Nat]
  BY ZenonT(30), VotesAssumption, GroupsAssumption
<1>2. \A y \in X : W[y.signed] = W[x.signed]
  BY DEF StableGroups
<1>3. entry.set = {Position(y) : y \in X} /\ entry.set \in SUBSET Index /\ entry.weight \in Nat
  BY Zenon DEF EntryExact, IndexEntry
<1>4. entry.weight = W[x.signed][entry.set]
  <2>1. CASE X = {}
    <3>1. entry.set = {} /\ entry.weight = 0
      BY Zenon, <1>3, <2>1 DEF EntryExact
    <3>2. W[x.signed][{}] = 0
      BY Zenon, <1>1, GroupsAssumption
    <3> QED
      BY Zenon, <3>1, <3>2
  <2>2. CASE X # {}
    BY Zenon, <1>2, <2>2 DEF EntryExact
  <2> QED
    BY Zenon, <2>1, <2>2
<1>5. new.set = entry.set \cup {i} /\ new.weight = W[x.signed][entry.set \cup {i}]
  <2>1. CASE i \in entry.set
    <3>1. new = entry
      BY Zenon, <2>1 DEF addLlrVoteWeight
    <3>2. entry.set \cup {i} = entry.set
      BY Zenon, <2>1
    <3> HIDE DEF new, i
    <3> QED
      BY Zenon, <1>4, <3>1, <3>2
  <2>2. CASE i \notin entry.set
    <3>1. W[x.signed][entry.set \cup {i}] = W[x.signed][entry.set] + W[x.signed][{i}]
      <4>1. {i} \in SUBSET Index /\ entry.set \cap {i} = {}
        BY Zenon, <2>2
      <4>2. \A S, T \in SUBSET Index : S \cap T = {} =>
              W[x.signed][S \cup T] = W[x.signed][S] + W[x.signed][T]
        BY ZenonT(60), <1>1, GroupsAssumption
      <4> HIDE DEF i
      <4> QED
        BY Zenon, <1>3, <4>1, <4>2
    <3> QED
      BY Zenon, <1>4, <2>2, <3>1 DEF addLlrVoteWeight, GetWeightByIdx
  <2> QED
    BY Zenon, <2>1, <2>2
<1>6. new.set = {Position(y) : y \in X \cup {x}}
  BY Zenon, <1>3, <1>5
<1> HIDE DEF new
<1>7. \A y \in X \cup {x} : new.weight = W[y.signed][new.set]
  BY Zenon, <1>2, <1>5
<1>8. EntryExact(new, X \cup {x})
  BY Zenon, <1>6, <1>7 DEF EntryExact
<1> QED
  BY Zenon, <1>8 DEF new

\* Exactness after a step is exactness of what the tables hold after it.
LEMMA VotesExactNext ==
    ASSUME \A k \in Key : EntryExact(getLlrVoteWeight(k)',
                             StoredFor(LlrBlockVotes', k) \cup CurrentFor(k)')
    PROVE  VotesIndexExact'
  BY Zenon DEF VotesIndexExact, EntryExact, Position, StoredFor, VotesFor

LEMMA DurableExactNext ==
    ASSUME \A k \in Key : EntryExact(disk'.index[k], StoredFor(disk'.votes, k))
    PROVE  DurableIndexExact'
  BY Zenon DEF DurableIndexExact, EntryExact, Position, StoredFor, VotesFor

\* The databases hold the same until the next commit.
LEMMA DurableExactSame ==
    ASSUME DurableIndexExact, disk' = disk
    PROVE  DurableIndexExact'
<1>1. \A k \in Key : EntryExact(disk'.index[k], StoredFor(disk'.votes, k))
  BY Zenon DEF DurableIndexExact
<1> QED
  BY Zenon, <1>1, DurableExactNext

\* Steps that leave the votes and their index alone.
LEMMA IndexInvSame ==
    ASSUME IndexInv,
           UNCHANGED <<LlrBlockVotes, LlrBlockVotesIndex, votesCache, disk>>,
           \/ UNCHANGED engine
           \/ engine = EngineIdle /\ engine' \in {EngineIdle, [pc |-> "commit"]}
    PROVE  IndexInv'
<1>1. \A k \in Key : getLlrVoteWeight(k)' = getLlrVoteWeight(k)
  BY Zenon DEF getLlrVoteWeight
<1>2. \A k \in Key : CurrentFor(k)' = CurrentFor(k)
  BY DEF CurrentFor, EngineIdle, VotesFor
<1>3. VotesIndexExact'
  <2>1. \A k \in Key : EntryExact(getLlrVoteWeight(k)',
                           StoredFor(LlrBlockVotes', k) \cup CurrentFor(k)')
    BY Zenon, <1>1, <1>2 DEF IndexInv, VotesIndexExact
  <2> QED
    BY Zenon, <2>1, VotesExactNext
<1>4. DurableIndexExact'
  BY ZenonT(30), DurableExactSame DEF IndexInv
<1>5. CacheClean'
  BY Zenon DEF IndexInv, CacheClean
<1> QED
  BY Zenon, <1>3, <1>4, <1>5 DEF IndexInv

\* No vote is counted after the genesis.
LEMMA IndexInvInit == Init => IndexInv
<1> SUFFICES ASSUME Init PROVE IndexInv
  BY Zenon
<1>1. \A k \in Key : getLlrVoteWeight(k) = [weight |-> 0, set |-> {}]
  BY Zenon DEF Init, getLlrVoteWeight, EmptyIndex, EmptyCache
<1>2. \A k \in Key : StoredFor(LlrBlockVotes, k) = {} /\ CurrentFor(k) = {}
  BY Zenon DEF Init, StoredFor, CurrentFor, EngineIdle
<1>3. \A k \in Key : disk.index[k] = [weight |-> 0, set |-> {}] /\ StoredFor(disk.votes, k) = {}
  BY Zenon DEF Init, Durable, StoredFor, EmptyIndex
<1>4. EntryExact([weight |-> 0, set |-> {}], {})
  BY Zenon DEF EntryExact
<1>5. CacheClean
  BY Zenon DEF Init, CacheClean, EmptyCache
<1> QED
  BY Zenon, <1>1, <1>2, <1>3, <1>4, <1>5 DEF IndexInv, VotesIndexExact, DurableIndexExact

\* One round of the loop over a batch counts exactly the vote it reaches.
LEMMA IndexInvVote ==
    ASSUME StableGroups, TypeInv, IndexInv, processBlockVote
    PROVE  IndexInv'
<1> DEFINE x == engine.bvs
           i == Position(x)
           n == engine.next
<1>1. engine.pc = "vote" /\ n <= Len(x.votes)
  BY Zenon DEF processBlockVote
<1>2. /\ x \in BVs /\ n \in 1..Len(x.votes) /\ i \in Index
      /\ GetWeightByIdx(x.signed, i) \in Nat
      /\ engine \in [pc : {"vote"}, bvs : BVs, next : Nat, llrs : LlrState]
  BY <1>1, VotingType
<1>3. PICK k \in Key : k = VoteKey(x, n) /\ x.epoch = k.epoch
  BY ZenonT(60), <1>2, VoteKeyType DEF VoteKey
<1> DEFINE old == getLlrVoteWeight(k)
           upd == addLlrVoteWeight(old, i, GetWeightByIdx(x.signed, i))
<1>4. old \in IndexEntry /\ upd \in IndexEntry
  BY Zenon, <1>2, <1>3, EntryType, AddType DEF TypeInv
<1>5. CacheAdd(k, old, upd)
  BY Zenon, <1>3 DEF processBlockVote, Position
<1>6. UNCHANGED <<LlrBlockVotes, disk>>
  BY ZenonT(30) DEF processBlockVote
<1>7. engine'.pc = "vote" /\ engine'.bvs = x /\ engine'.next = n + 1
  BY ZenonT(60), <1>2 DEF processBlockVote
<1>8. \A y \in Key : StoredFor(LlrBlockVotes', y) = StoredFor(LlrBlockVotes, y)
  BY Zenon, <1>6
<1>9. \A y \in Key : CurrentFor(y)' = IF y = k THEN CurrentFor(y) \cup {x} ELSE CurrentFor(y)
  <2>1. \A y \in Key : VotesFor(x, y, n) <=> VotesFor(x, y, n - 1) \/ y = k
    BY Zenon, <1>2, <1>3, VotesForStep
  <2>2. (n + 1) - 1 = n
    BY SMTT(30), <1>2
  <2>3. \A y \in Key : CurrentFor(y) = {z \in {x} : VotesFor(z, y, n - 1)}
    BY Zenon, <1>1, <1>2 DEF CurrentFor
  <2>4. \A y \in Key : CurrentFor(y)' = {z \in {x} : VotesFor(z, y, n)}
    BY Zenon, <1>2, <1>7, <2>2 DEF CurrentFor, VotesFor
  <2> HIDE DEF x, n
  <2> QED
    BY SMTT(60), <2>1, <2>3, <2>4
<1>10. /\ getLlrVoteWeight(k)' = upd
       /\ \A y \in Key \ {k} : getLlrVoteWeight(y)' = getLlrVoteWeight(y)
       /\ CacheClean'
  BY Zenon, <1>3, <1>4, <1>5, CacheAddView DEF TypeInv, IndexInv
<1>11. EntryExact(upd, Counted(k) \cup {x})
  <2>1. EntryExact(old, Counted(k))
    BY Zenon, <1>3 DEF IndexInv, VotesIndexExact, Counted
  <2>2. Counted(k) \in SUBSET BVs /\ \A y \in Counted(k) : y.epoch = k.epoch
    BY Zenon, <1>3, CountedType DEF TypeInv
  <2> HIDE DEF old
  <2> QED
    BY ZenonT(60), <1>2, <1>3, <1>4, <2>1, <2>2, AddExact
<1> HIDE DEF x, n, i, old, upd
<1>12. \A y \in Key : EntryExact(getLlrVoteWeight(y)',
                    StoredFor(LlrBlockVotes', y) \cup CurrentFor(y)')
  <2> SUFFICES ASSUME NEW y \in Key
               PROVE  EntryExact(getLlrVoteWeight(y)',
                    StoredFor(LlrBlockVotes', y) \cup CurrentFor(y)')
    BY Zenon
  <2>1. CASE y = k
    <3>1. StoredFor(LlrBlockVotes', y) \cup CurrentFor(y)' = Counted(k) \cup {x}
      BY Zenon, <1>8, <1>9, <2>1 DEF Counted
    <3> QED
      BY Zenon, <1>10, <1>11, <2>1, <3>1
  <2>2. CASE y # k
    <3>1. StoredFor(LlrBlockVotes', y) \cup CurrentFor(y)' =
            StoredFor(LlrBlockVotes, y) \cup CurrentFor(y)
      BY Zenon, <1>8, <1>9, <2>2
    <3> QED
      BY Zenon, <1>10, <2>2, <3>1 DEF IndexInv, VotesIndexExact
  <2> QED
    BY Zenon, <2>1, <2>2
<1>13. VotesIndexExact'
  BY Zenon, <1>12, VotesExactNext
<1>14. DurableIndexExact'
  BY Zenon, <1>6, DurableExactSame DEF IndexInv
<1> QED
  BY Zenon, <1>10, <1>13, <1>14 DEF IndexInv

\* When the loop over a batch is over, all its votes are counted and it is
\* stored.
LEMMA IndexInvEndVotes ==
    ASSUME TypeInv, IndexInv, endBlockVotes
    PROVE  IndexInv'
<1> DEFINE x == engine.bvs
<1>1. engine.pc = "vote" /\ engine.next > Len(x.votes)
  BY Zenon DEF endBlockVotes
<1>2. x \in BVs /\ engine.next - 1 = Len(x.votes)
  BY <1>1, VotingType
<1>3. UNCHANGED <<LlrBlockVotesIndex, votesCache, disk>>
  BY Zenon DEF endBlockVotes
<1>4. \A k \in Key : StoredFor(LlrBlockVotes', k) = Counted(k)
  <2>1. LlrBlockVotes' = LlrBlockVotes \cup {x}
    BY Zenon DEF endBlockVotes
  <2>2. \A k \in Key : CurrentFor(k) = {z \in {x} : VotesFor(z, k, Len(z.votes))}
    BY Zenon, <1>1, <1>2 DEF CurrentFor
  <2> HIDE DEF x
  <2>3. \A k \in Key : StoredFor(LlrBlockVotes', k) =
          {z \in LlrBlockVotes \cup {x} : VotesFor(z, k, Len(z.votes))}
    BY ZenonT(30), <2>1 DEF StoredFor
  <2> QED
    BY Zenon, <2>2, <2>3 DEF Counted, StoredFor
<1>5. \A k \in Key : CurrentFor(k)' = {}
  BY SMTT(60) DEF endBlockVotes, mayCommit, EngineIdle, CurrentFor
<1>6. \A k \in Key : getLlrVoteWeight(k)' = getLlrVoteWeight(k)
  BY Zenon, <1>3 DEF getLlrVoteWeight
<1>7. \A k \in Key : EntryExact(getLlrVoteWeight(k)',
                    StoredFor(LlrBlockVotes', k) \cup CurrentFor(k)')
  <2>1. \A k \in Key : EntryExact(getLlrVoteWeight(k), Counted(k))
    BY Zenon DEF IndexInv, VotesIndexExact, Counted
  <2> QED
    BY Zenon, <1>4, <1>5, <1>6, <2>1
<1>8. VotesIndexExact'
  BY Zenon, <1>7, VotesExactNext
<1>9. DurableIndexExact'
  BY ZenonT(30), <1>3, DurableExactSame DEF IndexInv
<1>10. CacheClean'
  BY Zenon, <1>3 DEF IndexInv, CacheClean
<1> QED
  BY Zenon, <1>8, <1>9, <1>10 DEF IndexInv

\* A commit makes the index durable together with the votes behind it.
LEMMA IndexInvCommit ==
    ASSUME TypeInv, IndexInv, commit
    PROVE  IndexInv'
<1>1. /\ \A k \in Key : /\ LlrBlockVotesIndex'[k] = getLlrVoteWeight(k)
                        /\ getLlrVoteWeight(k)' = getLlrVoteWeight(k)
      /\ CacheClean'
  BY Zenon, CommitView DEF TypeInv, IndexInv
<1>2. \A k \in Key : CurrentFor(k) = {} /\ CurrentFor(k)' = {}
  BY Zenon DEF commit, EngineIdle, CurrentFor
<1>3. LlrBlockVotes' = LlrBlockVotes
  BY ZenonT(30) DEF commit
<1>4. disk'.index = LlrBlockVotesIndex' /\ disk'.votes = LlrBlockVotes
  BY Zenon DEF commit, Durable
<1>5. \A k \in Key : EntryExact(getLlrVoteWeight(k), StoredFor(LlrBlockVotes, k) \cup {})
  BY ZenonT(30), <1>2 DEF IndexInv, VotesIndexExact
<1>6. VotesIndexExact'
  <2>1. \A k \in Key : EntryExact(getLlrVoteWeight(k)',
                      StoredFor(LlrBlockVotes', k) \cup CurrentFor(k)')
    BY Zenon, <1>1, <1>2, <1>3, <1>5
  <2> QED
    BY Zenon, <2>1, VotesExactNext
<1>7. DurableIndexExact'
  <2>1. \A k \in Key : EntryExact(disk'.index[k], StoredFor(disk'.votes, k))
    <3>1. \A k \in Key : StoredFor(LlrBlockVotes, k) \cup {} = StoredFor(LlrBlockVotes, k)
      BY Zenon
    <3> QED
      BY ZenonT(30), <1>1, <1>4, <1>5, <3>1
  <2> QED
    BY Zenon, <2>1, DurableExactNext
<1> QED
  BY ZenonT(30), <1>1, <1>6, <1>7 DEF IndexInv

\* A crash leaves a consistent pair of votes and index.
LEMMA IndexInvCrash ==
    ASSUME TypeInv, IndexInv, Crash
    PROVE  IndexInv'
<1>1. \A k \in Key : getLlrVoteWeight(k)' = disk.index[k]
  BY Zenon DEF Crash, getLlrVoteWeight, EmptyCache
<1>2. \A k \in Key : CurrentFor(k)' = {}
  BY Zenon DEF Crash, EngineIdle, CurrentFor
<1>3. LlrBlockVotes' = disk.votes /\ disk' = disk
  BY Zenon DEF Crash
<1>4. VotesIndexExact'
  <2>1. \A k \in Key : EntryExact(disk.index[k], StoredFor(disk.votes, k))
    BY Zenon DEF IndexInv, DurableIndexExact
  <2>2. \A k \in Key : StoredFor(disk.votes, k) \cup {} = StoredFor(disk.votes, k)
    BY Zenon
  <2>3. \A k \in Key : EntryExact(getLlrVoteWeight(k)',
                      StoredFor(LlrBlockVotes', k) \cup CurrentFor(k)')
    BY ZenonT(30), <1>1, <1>2, <1>3, <2>1, <2>2
  <2> QED
    BY Zenon, <2>3, VotesExactNext
<1>5. DurableIndexExact'
  BY ZenonT(30), <1>3, DurableExactSame DEF IndexInv
<1>6. CacheClean'
  BY Zenon DEF Crash, EmptyCache, CacheClean
<1> QED
  BY Zenon, <1>4, <1>5, <1>6 DEF IndexInv

\* Starting on a batch counts none of its votes.
LEMMA IndexInvStartVotes ==
    ASSUME TypeInv, IndexInv, NEW bvs \in BVs, processBlockVotes(bvs)
    PROVE  IndexInv'
<1>1. UNCHANGED <<LlrBlockVotes, LlrBlockVotesIndex, votesCache, disk>>
  BY Zenon DEF processBlockVotes, tables
<1>2. \A k \in Key : CurrentFor(k) = {}
  BY Zenon DEF processBlockVotes, EngineIdle, CurrentFor
<1>3. \A k \in Key : CurrentFor(k)' = {}
  <2>1. engine'.bvs = bvs /\ engine'.next - 1 = 0
    BY SMTT(60) DEF processBlockVotes
  <2> QED
    BY Zenon, <2>1, VotesForNone DEF CurrentFor, VotesFor
<1>4. LlrBlockVotes' = LlrBlockVotes
  BY ZenonT(30), <1>1
<1>5. \A k \in Key : getLlrVoteWeight(k)' = getLlrVoteWeight(k)
  BY Zenon, <1>1 DEF getLlrVoteWeight
<1>6. VotesIndexExact'
  <2>1. \A k \in Key : EntryExact(getLlrVoteWeight(k),
                                  StoredFor(LlrBlockVotes, k) \cup CurrentFor(k))
    BY Zenon DEF IndexInv, VotesIndexExact
  <2>2. \A k \in Key : EntryExact(getLlrVoteWeight(k)',
                      StoredFor(LlrBlockVotes', k) \cup CurrentFor(k)')
    BY ZenonT(30), <1>2, <1>3, <1>4, <1>5, <2>1
  <2> QED
    BY Zenon, <2>2, VotesExactNext
<1>7. DurableIndexExact'
  BY ZenonT(30), <1>1, DurableExactSame DEF IndexInv
<1>8. CacheClean'
  BY Zenon, <1>1 DEF IndexInv, CacheClean
<1> QED
  BY Zenon, <1>6, <1>7, <1>8 DEF IndexInv

\* IndexInv is an invariant when groups do not change under the votes.
LEMMA IndexInvariant ==
    ASSUME StableGroups
    PROVE  Spec => []IndexInv
<1>1. TypeInv /\ IndexInv /\ [Next]_vars => IndexInv'
  <2> SUFFICES ASSUME TypeInv, IndexInv, [Next]_vars PROVE IndexInv'
    BY Zenon
  <2>1. ASSUME NEW bvs \in BVs, processBlockVotes(bvs) PROVE IndexInv'
    BY Zenon, <2>1, IndexInvStartVotes
  <2>2. CASE processBlockVote
    BY Zenon, <2>2, IndexInvVote
  <2>3. CASE endBlockVotes
    BY Zenon, <2>3, IndexInvEndVotes
  <2>4. ASSUME NEW b \in Block, NEW h \in Hash, checkFullBlockRecord(b, h) PROVE IndexInv'
    BY Zenon, <2>4, IndexInvSame DEF checkFullBlockRecord, tables
  <2>5. CASE WriteFullBlockRecord
    BY Zenon, <2>5, IndexInvSame DEF WriteFullBlockRecord
  <2>6. CASE endFullBlockRecord
    BY Zenon, <2>6, IndexInvSame DEF endFullBlockRecord, mayCommit
  <2>7. CASE EndBlock
    BY Zenon, <2>7, IndexInvSame DEF EndBlock, mayCommit
  <2>8. CASE blockFnSetBlock
    BY Zenon, <2>8, IndexInvSame DEF blockFnSetBlock
  <2>9. CASE blockFnEnd
    BY Zenon, <2>9, IndexInvSame DEF blockFnEnd
  <2>10. ASSUME NEW b \in Block, SwitchEpochTo(b) PROVE IndexInv'
    BY Zenon, <2>10, IndexInvSame DEF SwitchEpochTo
  <2>11. ASSUME NEW e \in Epoch, SetHistoryBlockEpochState(e) PROVE IndexInv'
    BY Zenon, <2>11, IndexInvSame DEF SetHistoryBlockEpochState
  <2>12. CASE flusherCommit
    BY Zenon, <2>12, IndexInvSame DEF flusherCommit, tables
  <2>13. CASE commit
    BY Zenon, <2>13, IndexInvCommit
  <2>14. CASE Crash
    BY Zenon, <2>14, IndexInvCrash
  <2>15. CASE UNCHANGED vars
    BY Zenon, <2>15, IndexInvSame DEF vars, tables
  <2> QED
    BY Zenon, <2>1, <2>2, <2>3, <2>4, <2>5, <2>6, <2>7, <2>8, <2>9, <2>10, <2>11, <2>12,
       <2>13, <2>14, <2>15 DEF Next
<1> QED
  BY <1>1, IndexInvInit, TypeInvariant, PTL DEF Spec

\* In every group arrangement in which the votes that meet in one entry were
\* signed under one order of the validators, the weight that getLlrVoteWeight
\* answers is that of the validators whose votes processBlockVote counted, each
\* once.
THEOREM IndexExact ==
    ASSUME StableGroups
    PROVE  Spec => []VotesIndexExact
  BY IndexInvariant, PTL DEF IndexInv

\* So is the index in the databases, for the votes that are there with it: after
\* any crash the node neither counts a vote twice nor takes an uncounted one for
\* known.
THEOREM IndexExactOnDisk ==
    ASSUME StableGroups
    PROVE  Spec => []DurableIndexExact
  BY IndexInvariant, PTL DEF IndexInv


-----------------------------------------------------------------------------
(* Decisions and stored blocks agree with the node's own execution. *)

OwnOrNone(f) == \A b \in Block : f[b] \in {None, OwnHash[b]}
Members(votes) == \A x \in votes : Exists(x.signed, x.creator)

\* Tables and the record in flight hold only the node's own records.
ValueInv ==
    /\ Members(LlrBlockVotes) /\ Members(disk.votes)
    /\ OwnOrNone(LlrBlockResults) /\ OwnOrNone(disk.results)
    /\ OwnOrNone(Blocks) /\ OwnOrNone(disk.blocks)
    /\ br # BrIdle => br.hash = OwnHash[br.block]

\* More positions weigh no less.
LEMMA WeightMonotonic ==
    ASSUME NEW g \in Epoch, NEW S \in SUBSET Index, NEW T \in SUBSET Index, S \subseteq T
    PROVE  W[g][S] <= W[g][T]
<1>1. W[g] \in [SUBSET Index -> Nat]
  BY Zenon, GroupsAssumption
<1> DEFINE R == T \ S
<1>2. R \in SUBSET Index /\ S \cap R = {} /\ S \cup R = T
  BY Zenon
<1> HIDE DEF R
<1>3. \A A, B \in SUBSET Index : A \cap B = {} => W[g][A \cup B] = W[g][A] + W[g][B]
  BY Zenon, GroupsAssumption
<1>4. W[g][S \cup R] = W[g][S] + W[g][R]
  BY ZenonT(60), <1>2, <1>3
<1>5. W[g][S] \in Nat /\ W[g][R] \in Nat
  BY Zenon, <1>1, <1>2
<1>6. W[g][T] = W[g][S] + W[g][R]
  BY Zenon, <1>2, <1>4
<1> QED
  BY <1>5, <1>6

\* A record other than the node's own never has more than a third of the weight
\* behind it, counting the vote that is being added.
LEMMA WrongRecordLoses ==
    ASSUME StableGroups, FaultyBound, TypeInv, IndexInv, Members(LlrBlockVotes),
           engine.pc = "vote", engine.next <= Len(engine.bvs.votes),
           NEW k \in Key, k = VoteKey(engine.bvs, engine.next),
           k.v # OwnHash[k.block]
    PROVE  addLlrVoteWeight(getLlrVoteWeight(k), Position(engine.bvs),
               GetWeightByIdx(engine.bvs.signed, Position(engine.bvs))).weight
             <= TotalWeight(engine.bvs.signed) \div 3
<1> DEFINE x == engine.bvs
           g == x.signed
           X == Counted(k) \cup {x}
           upd == addLlrVoteWeight(getLlrVoteWeight(k), Position(x), GetWeightByIdx(g, Position(x)))
<1>1. /\ x \in BVs /\ engine.next \in 1..Len(x.votes) /\ g \in Epoch
      /\ Position(x) \in Index /\ GetWeightByIdx(g, Position(x)) \in Nat
      /\ Exists(g, x.creator)
  BY SMTT(60), VotingType DEF TypeInv, Voting
<1>2. Counted(k) \in SUBSET BVs /\ \A y \in Counted(k) : y.epoch = k.epoch
  BY Zenon, CountedType DEF TypeInv
<1>3. x.epoch = k.epoch
  BY Zenon DEF VoteKey
<1>4. getLlrVoteWeight(k) \in IndexEntry /\ EntryExact(getLlrVoteWeight(k), Counted(k))
  BY Zenon, EntryType DEF IndexInv, VotesIndexExact, Counted, TypeInv
<1>5. EntryExact(upd, X)
  BY ZenonT(60), <1>1, <1>2, <1>3, <1>4, AddExact
<1>6. upd.weight = W[g][{Position(y) : y \in X}]
  BY ZenonT(60), <1>5 DEF EntryExact
<1>7. ASSUME NEW y \in X PROVE Position(y) \in WrongSigners(g)
  <2>1. y \in BVs /\ Idx[y.signed] = Idx[g]
    BY SMTT(60), <1>1, <1>2, <1>3, <1>7 DEF StableGroups
  <2>2. y.creator \in Group(g)
    <3>1. CASE y = x
      BY Zenon, <1>1, <3>1 DEF Exists
    <3>2. CASE y \in LlrBlockVotes
      BY Zenon, <2>1, <3>2 DEF Members, Exists, Group
    <3> QED
      BY Zenon, <1>7, <3>1, <3>2 DEF Counted, StoredFor, CurrentFor
  <2>3. \E j \in 1..Len(y.votes) : y.votes[j] # OwnHash[y.start + j - 1]
    <3>0. Len(y.votes) \in Nat /\ y.start \in Nat /\ k.block \in Nat
      BY SMTT(60), <2>1, VotesAssumption, ConstantsAssumption DEF Key, Block
    <3>1. CASE y = x
      <4>1. x.votes[engine.next] = k.v /\ k.block = x.start + engine.next - 1
        BY Zenon DEF VoteKey
      <4> QED
        BY ZenonT(60), <1>1, <3>1, <4>1
    <3>2. ASSUME NEW m \in 0..Len(y.votes), VotesFor(y, k, m) PROVE <2>3
      <4> DEFINE j == k.block - y.start + 1
      <4>1. j \in 1..Len(y.votes) /\ y.start + j - 1 = k.block
        <5>1. k.block \in y.start..(y.start + m - 1)
          BY Zenon, <3>2 DEF VotesFor
        <5>2. \A b, s, l \in Nat : \A q \in 0..l :
                b \in s..(s + q - 1) => b - s + 1 \in 1..l /\ s + (b - s + 1) - 1 = b
          OBVIOUS
        <5> QED
          BY Zenon, <3>0, <5>1, <5>2
      <4>2. y.votes[j] = k.v
        BY Zenon, <3>2 DEF VotesFor
      <4> HIDE DEF j
      <4> QED
        BY Zenon, <4>1, <4>2
    <3>3. CASE y \in StoredFor(LlrBlockVotes, k)
      BY SMTT(30), <3>0, <3>2, <3>3 DEF StoredFor
    <3> QED
      BY Zenon, <1>7, <3>1, <3>3 DEF Counted, CurrentFor
  <2> QED
    BY Zenon, <2>1, <2>2, <2>3 DEF WrongSigners, Position
<1>8. WrongSigners(g) \in SUBSET Index
  BY SMTT(60), <1>1, GroupsAssumption DEF WrongSigners
<1>9. W[g][{Position(y) : y \in X}] <= W[g][WrongSigners(g)]
  <2>1. {Position(y) : y \in X} \subseteq WrongSigners(g)
    BY Zenon, <1>7
  <2> HIDE DEF X, g
  <2> QED
    BY ZenonT(60), <1>1, <1>8, <2>1, WeightMonotonic
<1>10. W[g][WrongSigners(g)] <= TotalWeight(g) \div 3
  BY Zenon, <1>1 DEF FaultyBound
<1>11. /\ W[g][{Position(y) : y \in X}] \in Nat /\ W[g][WrongSigners(g)] \in Nat
       /\ TotalWeight(g) \div 3 \in Nat
  <2>1. W[g] \in [SUBSET Index -> Nat] /\ W[g][Index] \in Nat
    BY ZenonT(60), <1>1, GroupsAssumption
  <2>2. {Position(y) : y \in X} \in SUBSET Index
    BY Zenon, <1>7, <1>8
  <2>3. W[g][Index] \div 3 \in Nat
    BY SMTT(60), <2>1
  <2> QED
    BY Zenon, <1>8, <2>1, <2>2, <2>3 DEF TotalWeight
<1> HIDE DEF upd, X
<1>12. upd.weight <= TotalWeight(g) \div 3
  BY SMTT(30), <1>6, <1>9, <1>10, <1>11
<1> QED
  BY Zenon, <1>12 DEF upd

\* No step stores or decides a record other than the node's own.
LEMMA ValueInvNext ==
    ASSUME StableGroups, FaultyBound, TypeInv, IndexInv, ValueInv, [Next]_vars
    PROVE  ValueInv'
<1> USE DEF ValueInv, OwnOrNone
<1>0. TypeOK
  BY Zenon DEF TypeInv
<1>1. ASSUME NEW bvs \in BVs, processBlockVotes(bvs) PROVE ValueInv'
  BY ZenonT(30), <1>1 DEF processBlockVotes, tables, Members, Exists, Group
<1>2. CASE processBlockVote
  <2>1. engine.pc = "vote" /\ engine.next <= Len(engine.bvs.votes)
    BY ZenonT(60), <1>2 DEF processBlockVote
  <2>2. engine.bvs \in BVs /\ engine.next \in 1..Len(engine.bvs.votes)
    BY SMTT(60), <2>1, VotingType
  <2>3. PICK k \in Key : k = VoteKey(engine.bvs, engine.next)
    BY Zenon, <2>2, VoteKeyType
  <2> DEFINE upd == addLlrVoteWeight(getLlrVoteWeight(k), Position(engine.bvs),
                      GetWeightByIdx(engine.bvs.signed, Position(engine.bvs)))
             w == upd.weight
             q == TotalWeight(engine.bvs.signed) \div 3
  <2>4. \/ LlrBlockResults' = LlrBlockResults
        \/ w >= q + 1 /\ LlrBlockResults' = [LlrBlockResults EXCEPT ![k.block] = k.v]
    BY ZenonT(30), <1>2, <2>3 DEF processBlockVote, enoughVotes, Position
  <2>5. k.v # OwnHash[k.block] => w <= q
    <3>1. Members(LlrBlockVotes)
      BY ZenonT(60)
    <3> HIDE DEF ValueInv, OwnOrNone
    <3> QED
      BY Zenon, <2>1, <2>3, <3>1, WrongRecordLoses
  <2>6. w \in Nat /\ q \in Nat
    <3>1. upd \in IndexEntry
      BY Zenon, <2>1, <2>3, VotingType, EntryType, AddType DEF TypeInv
    <3>2. W[engine.bvs.signed][Index] \in Nat
      BY Zenon, <2>1, VotingType, GroupsAssumption
    <3> QED
      BY SMTT(60), <3>1, <3>2 DEF IndexEntry, TotalWeight
  <2> HIDE DEF w, q
  <2>7. w >= q + 1 => k.v = OwnHash[k.block]
    BY SMTT(60), <2>5, <2>6
  <2>8. OwnOrNone(LlrBlockResults')
    BY SMTT(60), <1>0, <2>4, <2>7 DEF TypeOK, Key
  <2> QED
    BY ZenonT(30), <1>2, <2>8 DEF processBlockVote, Members, Exists, Group
<1>3. CASE endBlockVotes
  BY Zenon, <1>3 DEF endBlockVotes, TypeInv, Voting, Members, Exists, Group
<1>4. ASSUME NEW b \in Block, NEW h \in Hash, checkFullBlockRecord(b, h) PROVE ValueInv'
  BY Zenon, <1>4, ConstantsAssumption DEF checkFullBlockRecord, tables, Members, Exists, Group
<1>5. CASE WriteFullBlockRecord
  BY <1>0, <1>5 DEF WriteFullBlockRecord, Members, Exists, Group, TypeOK, BrIdle
<1>6. CASE endFullBlockRecord
  BY ZenonT(30), <1>6 DEF endFullBlockRecord, Members, Exists, Group
<1>7. CASE EndBlock
  BY Zenon, <1>7 DEF EndBlock, Members, Exists, Group
<1>8. CASE blockFnSetBlock
  BY Zenon, <1>0, <1>8 DEF blockFnSetBlock, Members, Exists, Group, TypeOK
<1>9. CASE blockFnEnd
  BY ZenonT(60), <1>9 DEF blockFnEnd, Members, Exists, Group
<1>10. ASSUME NEW b \in Block, SwitchEpochTo(b) PROVE ValueInv'
  BY Zenon, <1>10 DEF SwitchEpochTo, Members, Exists, Group
<1>11. ASSUME NEW e \in Epoch, SetHistoryBlockEpochState(e) PROVE ValueInv'
  BY ZenonT(60), <1>11 DEF SetHistoryBlockEpochState, Members, Exists, Group
<1>12. CASE flusherCommit
  BY Zenon, <1>12 DEF flusherCommit, tables, Members, Exists, Group
<1>13. CASE commit
  BY ZenonT(30), <1>13 DEF commit, Durable, Members, Exists, Group
<1>14. CASE Crash
  BY ZenonT(60), <1>14 DEF Crash, Members, Exists, Group
<1>15. CASE UNCHANGED vars
  BY Zenon, <1>15 DEF vars, tables, Members, Exists, Group
<1> QED
  BY ZenonT(60), <1>1, <1>2, <1>3, <1>4, <1>5, <1>6, <1>7, <1>8, <1>9, <1>10, <1>11, <1>12,
     <1>13, <1>14, <1>15 DEF Next

\* ValueInv is an invariant when the wrong signers hold at most a third.
LEMMA ValueInvariant ==
    ASSUME StableGroups, FaultyBound
    PROVE  Spec => []ValueInv
<1>1. ASSUME Init PROVE ValueInv
  <2>1. disk.votes = {} /\ LlrBlockVotes = {}
    BY Zenon, <1>1 DEF Init, Durable
  <2>2. LlrBlockResults = [b \in Block |-> None] /\ disk.results = [b \in Block |-> None]
    BY Zenon, <1>1 DEF Init, Durable
  <2>3. Blocks = [b \in Block |-> None] /\ disk.blocks = [b \in Block |-> None]
    BY Zenon, <1>1 DEF Init, Durable
  <2>4. br = BrIdle
    BY Zenon, <1>1 DEF Init
  <2> QED
    BY Zenon, <2>1, <2>2, <2>3, <2>4 DEF ValueInv, OwnOrNone, Members
<1> QED
  BY <1>1, ValueInvNext, TypeInvariant, IndexInvariant, PTL DEF Spec

\* The refinement mappings permit a block its own record and nothing else.
LEMMA OwnHashPermitted ==
    /\ UNION {[b \in Block |-> {OwnHash[b]}][s] : s \in Block} =
       UNION {{OwnHash[s]} : s \in Block}
    /\ \A s \in Block : [b \in Block |-> {OwnHash[b]}][s] = {OwnHash[s]}
<1>1. \A s \in Block : [b \in Block |-> {OwnHash[b]}][s] = {OwnHash[s]}
  BY Zenon
<1>2. {[b \in Block |-> {OwnHash[b]}][s] : s \in Block} = {{OwnHash[s]} : s \in Block}
  BY Zenon, <1>1
<1> QED
  BY Zenon, <1>1, <1>2

\* Decisions survive: whatever the order of votes, evictions, commits and
\* crashes, the table of decisions behaves as a write-once table that holds
\* only the records the node would execute.
THEOREM DecisionsRefine ==
    ASSUME StableGroups, FaultyBound
    PROVE  Spec => DecisionsWriteOnce
<1>1. Init => Decisions!Init
  BY SMTT(60) DEF Init, Durable, Decisions!Init, Decisions!Empty
<1>2. ASSUME TypeInv, TypeInv', ValueInv', [Next]_vars
      PROVE  [Decisions!Next]_<<LlrBlockResults, disk.results>>
  <2>1. CASE processBlockVote
    <3>1. LlrBlockResults' \in [Block -> (UNION {{OwnHash[s]} : s \in Block}) \cup {None}]
      BY SMTT(60), <1>2 DEF TypeInv, TypeOK, ValueInv, OwnOrNone
    <3>2. engine.bvs \in BVs /\ engine.next \in 1..Len(engine.bvs.votes)
      <4>1. engine.pc = "vote" /\ engine.next <= Len(engine.bvs.votes)
        BY Zenon, <2>1 DEF processBlockVote
      <4> QED
        BY <1>2, <4>1, VotingType
    <3>3. PICK k \in Key : k = VoteKey(engine.bvs, engine.next)
      BY Zenon, <3>2, VoteKeyType
    <3>4. \/ LlrBlockResults' = LlrBlockResults
          \/ /\ LlrBlockResults[k.block] = None
             /\ LlrBlockResults' = [LlrBlockResults EXCEPT ![k.block] = k.v]
      BY ZenonT(60), <2>1, <3>3 DEF processBlockVote
    <3>5. \A s \in Block :
             \/ LlrBlockResults'[s] = LlrBlockResults[s]
             \/ LlrBlockResults[s] = None /\ LlrBlockResults'[s] \in {OwnHash[s]}
      BY <1>2, <3>4, ConstantsAssumption DEF TypeInv, TypeOK, ValueInv, OwnOrNone, Key
    <3>6. disk' = disk
      BY Zenon, <2>1 DEF processBlockVote
    <3>7. Decisions!Write
      BY ZenonT(60), <3>1, <3>5, <3>6, OwnHashPermitted DEF Decisions!Write
    <3> QED
      BY ZenonT(60), <3>7 DEF Decisions!Next
  <2>2. CASE commit
    BY Zenon, <2>2 DEF commit, Durable, Decisions!Next, Decisions!Persist
  <2>3. CASE Crash
    BY Zenon, <2>3 DEF Crash, Decisions!Next, Decisions!Crash
  <2>4. CASE UNCHANGED <<LlrBlockResults, disk>>
    BY Zenon, <2>4
  <2> QED
    BY Zenon, <1>2, <2>1, <2>2, <2>3, <2>4
    DEF Next, vars, tables, processBlockVotes, endBlockVotes, checkFullBlockRecord,
        WriteFullBlockRecord, endFullBlockRecord, EndBlock, blockFnSetBlock, blockFnEnd,
        SwitchEpochTo, SetHistoryBlockEpochState, flusherCommit
<1> QED
  BY <1>1, <1>2, TypeInvariant, ValueInvariant, PTL
  DEF Spec, DecisionsWriteOnce, Decisions!Spec

\* The same of the block table, with two threads writing to it: a record from a
\* peer and a block executed here never hold different content.
THEOREM RecordsRefine ==
    ASSUME StableGroups, FaultyBound
    PROVE  Spec => RecordsWriteOnce
<1>1. Init => Records!Init
  BY DEF Init, Durable, Records!Init, Records!Empty
<1>2. ASSUME TypeInv, TypeInv', ValueInv, ValueInv', [Next]_vars
      PROVE  [Records!Next]_<<Blocks, disk.blocks>>
  <2>0. Blocks' \in [Block -> (UNION {{OwnHash[s]} : s \in Block}) \cup {None}]
    BY <1>2 DEF TypeInv, TypeOK, ValueInv, OwnOrNone
  <2>1. ASSUME NEW b \in Block, Blocks' = [Blocks EXCEPT ![b] = OwnHash[b]], disk' = disk
        PROVE  [Records!Next]_<<Blocks, disk.blocks>>
    <3>1. \A s \in Block : \/ Blocks'[s] = Blocks[s]
                           \/ Blocks[s] = None /\ Blocks'[s] \in {OwnHash[s]}
      BY <1>2, <2>1 DEF TypeInv, TypeOK, ValueInv, OwnOrNone
    <3>2. Records!Write
      BY ZenonT(30), <2>0, <2>1, <3>1, OwnHashPermitted DEF Records!Write
    <3> QED
      BY ZenonT(60), <3>2 DEF Records!Next
  <2>2. CASE WriteFullBlockRecord
    BY ZenonT(60), <1>2, <2>1, <2>2 DEF WriteFullBlockRecord, TypeInv, TypeOK, ValueInv, BrIdle
  <2>3. CASE blockFnSetBlock
    BY ZenonT(30), <1>2, <2>1, <2>3 DEF blockFnSetBlock, TypeInv, TypeOK, BlockProcIdle
  <2>4. CASE commit
    BY Zenon, <2>4 DEF commit, Durable, Records!Next, Records!Persist
  <2>5. CASE Crash
    BY Zenon, <2>5 DEF Crash, Records!Next, Records!Crash
  <2>6. CASE UNCHANGED <<Blocks, disk>>
    BY Zenon, <2>6
  <2> QED
    BY ZenonT(60), <1>2, <2>2, <2>3, <2>4, <2>5, <2>6
    DEF Next, vars, tables, processBlockVotes, processBlockVote, endBlockVotes,
        checkFullBlockRecord, endFullBlockRecord, EndBlock, blockFnEnd,
        SwitchEpochTo, SetHistoryBlockEpochState, flusherCommit
<1> QED
  BY <1>1, <1>2, TypeInvariant, ValueInvariant, PTL
  DEF Spec, RecordsWriteOnce, Records!Spec

-----------------------------------------------------------------------------
(* Every decision can be justified by stored votes, whoever signs them. *)

\* The batch that is being processed.
InHand == {x \in BVs : engine.pc = "vote" /\ x = engine.bvs}

\* All the votes that reached the tables are of members of their group, and they
\* back the decisions.
BackedInv ==
    /\ Members(LlrBlockVotes) /\ Members(disk.votes)
    /\ DecisionBacked

\* What the decisions and the votes are after a step says whether they are backed.
LEMMA BackedNext ==
    ASSUME Members(LlrBlockVotes'), Members(disk'.votes),
           \A b \in Block : LlrBlockResults'[b] # None =>
               Backed(b, LlrBlockResults'[b], LlrBlockVotes' \cup InHand'),
           \A b \in Block : disk'.results[b] # None =>
               Backed(b, disk'.results[b], disk'.votes)
    PROVE  BackedInv'
<1>1. Members(LlrBlockVotes)' /\ Members(disk.votes)'
  BY Zenon DEF Members, Exists, Group
<1>2. DecisionBacked'
  BY ZenonT(30) DEF DecisionBacked, Decided, Backed, VotesFor, Position, TotalWeight, InHand
<1> QED
  BY Zenon, <1>1, <1>2 DEF BackedInv

\* A member of a group has a position in it.
LEMMA MemberPosition ==
    ASSUME NEW x \in BVs, Exists(x.signed, x.creator)
    PROVE  Position(x) \in Index
  BY Zenon, VotesAssumption, GroupsAssumption DEF Position, Exists

\* More votes back what fewer did.
LEMMA BackedMore ==
    ASSUME NEW b \in Block, NEW h, NEW votes, NEW more \in SUBSET BVs, votes \subseteq more,
           Members(more), Backed(b, h, votes)
    PROVE  Backed(b, h, more)
<1> DEFINE For(S, e) ==
             {x \in S : VotesFor(x, [block |-> b, epoch |-> e, v |-> h], Len(x.votes))}
           P(S, e) == {Position(y) : y \in For(S, e)}
<1>1. PICK e \in Epoch :
        \E x \in For(votes, e) : W[x.signed][P(votes, e)] > TotalWeight(x.signed) \div 3
  BY Zenon DEF Backed
<1>2. PICK x \in For(votes, e) : W[x.signed][P(votes, e)] > TotalWeight(x.signed) \div 3
  BY Zenon, <1>1
<1>3. x \in For(more, e) /\ x \in BVs /\ x.signed \in Epoch
  BY ZenonT(30), VotesAssumption
<1>4. P(votes, e) \subseteq P(more, e)
  BY Zenon
<1>5. P(more, e) \in SUBSET Index
  <2>1. \A y \in more : Position(y) \in Index
    BY Zenon, MemberPosition DEF Members
  <2> QED
    BY Zenon, <2>1
<1> HIDE DEF P, For
<1>6. P(votes, e) \in SUBSET Index
  BY Zenon, <1>4, <1>5
<1>7. W[x.signed][P(votes, e)] <= W[x.signed][P(more, e)]
  BY ZenonT(30), <1>3, <1>4, <1>5, <1>6, WeightMonotonic
<1>8. /\ W[x.signed][P(votes, e)] \in Nat /\ W[x.signed][P(more, e)] \in Nat
      /\ TotalWeight(x.signed) \div 3 \in Nat
  <2>1. W[x.signed] \in [SUBSET Index -> Nat]
    BY ZenonT(30), <1>3, GroupsAssumption
  <2>2. W[x.signed][Index] \in Nat
    BY Zenon, <2>1
  <2> QED
    BY <1>5, <1>6, <2>1, <2>2 DEF TotalWeight
<1>9. W[x.signed][P(more, e)] > TotalWeight(x.signed) \div 3
  BY SMTT(30), <1>2, <1>7, <1>8
<1> QED
  BY Zenon, <1>3, <1>9 DEF Backed, P, For

\* The votes behind a key that has just been counted: all the stored ones for it,
\* and the batch in hand.
LEMMA CountedAll ==
    ASSUME TypeInv, engine.pc = "vote", engine.next \in 1..Len(engine.bvs.votes),
           NEW k \in Key, k = VoteKey(engine.bvs, engine.next)
    PROVE  {x \in LlrBlockVotes \cup InHand : VotesFor(x, k, Len(x.votes))} =
               Counted(k) \cup {engine.bvs}
<1> DEFINE x == engine.bvs
           n == engine.next
<1>1. x \in BVs /\ Len(x.votes) \in Nat /\ x.start \in Nat
  BY SMTT(30), VotingType, VotesAssumption, ConstantsAssumption DEF Block
<1>2. InHand = {x}
  BY Zenon, <1>1 DEF InHand
<1>3. VotesFor(x, k, Len(x.votes))
  <2>1. k.block = x.start + n - 1 /\ k.epoch = x.epoch /\ k.v = x.votes[n]
    BY Zenon DEF VoteKey
  <2>2. k.block \in x.start..(x.start + Len(x.votes) - 1) /\ k.block - x.start + 1 = n
    BY SMTT(30), <1>1, <2>1
  <2> QED
    BY Zenon, <2>1, <2>2 DEF VotesFor
<1>4. CurrentFor(k) \subseteq {x}
  BY Zenon DEF CurrentFor
<1> HIDE DEF x
<1>5. Counted(k) \cup {x} = {y \in LlrBlockVotes : VotesFor(y, k, Len(y.votes))} \cup {x}
  BY Zenon, <1>4 DEF Counted, StoredFor
<1> QED
  BY Zenon, <1>2, <1>3, <1>5 DEF x

\* A record that wins is backed by the votes that made it win.
LEMMA WinnerBacked ==
    ASSUME StableGroups, TypeInv, IndexInv, engine.pc = "vote",
           engine.next \in 1..Len(engine.bvs.votes),
           NEW k \in Key, k = VoteKey(engine.bvs, engine.next),
           enoughVotes(engine.bvs.signed,
               addLlrVoteWeight(getLlrVoteWeight(k), Position(engine.bvs),
                   GetWeightByIdx(engine.bvs.signed, Position(engine.bvs))).weight)
    PROVE  Backed(k.block, k.v, LlrBlockVotes \cup InHand)
<1> DEFINE x == engine.bvs
           g == x.signed
           upd == addLlrVoteWeight(getLlrVoteWeight(k), Position(x), GetWeightByIdx(g, Position(x)))
           X == {y \in LlrBlockVotes \cup InHand : VotesFor(y, k, Len(y.votes))}
<1>1. /\ x \in BVs /\ g \in Epoch /\ Position(x) \in Index
      /\ GetWeightByIdx(g, Position(x)) \in Nat
  BY Zenon, VotingType
<1>2. Counted(k) \in SUBSET BVs /\ \A y \in Counted(k) : y.epoch = k.epoch
  BY Zenon, CountedType DEF TypeInv
<1>3. getLlrVoteWeight(k) \in IndexEntry /\ EntryExact(getLlrVoteWeight(k), Counted(k))
  BY Zenon, EntryType DEF IndexInv, VotesIndexExact, Counted, TypeInv
<1>4. x.epoch = k.epoch /\ k.epoch \in Epoch
  BY Zenon DEF VoteKey, Key
<1>5. EntryExact(upd, Counted(k) \cup {x})
  BY ZenonT(30), <1>1, <1>2, <1>3, <1>4, AddExact
<1>6. X = Counted(k) \cup {x}
  BY Zenon, CountedAll
<1>7. upd.weight = W[g][{Position(y) : y \in X}]
  BY ZenonT(30), <1>5, <1>6 DEF EntryExact
<1>8. upd.weight \in Nat /\ TotalWeight(g) \div 3 \in Nat
  <2>1. upd \in IndexEntry
    BY ZenonT(30), <1>1, <1>3, AddType
  <2>2. W[g][Index] \in Nat
    BY Zenon, <1>1, GroupsAssumption
  <2> QED
    BY <2>1, <2>2 DEF IndexEntry, TotalWeight
<1> HIDE DEF upd, g, X
<1>9. W[g][{Position(y) : y \in X}] > TotalWeight(g) \div 3
  <2>1. upd.weight >= (TotalWeight(g) \div 3) + 1
    BY ZenonT(30) DEF enoughVotes, upd, g
  <2> QED
    BY <1>7, <1>8, <2>1
<1>10. k = [block |-> k.block, epoch |-> k.epoch, v |-> k.v]
  BY Zenon DEF Key
<1>11. x \in X
  BY Zenon, <1>6
<1> QED
  BY Zenon, <1>4, <1>9, <1>10, <1>11 DEF Backed, X, g

\* Steps that decide nothing and store no votes, but may take a batch in hand.
LEMMA BackedSame ==
    ASSUME TypeInv, TypeInv', BackedInv, UNCHANGED <<LlrBlockResults, LlrBlockVotes, disk>>,
           InHand \subseteq InHand'
    PROVE  BackedInv'
<1> DEFINE more == LlrBlockVotes \cup InHand'
<1>1. more \in SUBSET BVs
  BY Zenon DEF TypeInv, TypeOK, InHand
<1>2. Members(InHand')
  BY Zenon DEF TypeInv, Voting, InHand, Members, Exists, Group
<1>3. Members(more)
  BY Zenon, <1>2 DEF BackedInv, Members
<1>4. ASSUME NEW b \in Block, LlrBlockResults[b] # None
      PROVE  Backed(b, LlrBlockResults[b], more)
  <2>1. Backed(b, LlrBlockResults[b], LlrBlockVotes \cup InHand)
    BY Zenon, <1>4 DEF BackedInv, DecisionBacked, Decided, InHand
  <2>2. LlrBlockVotes \cup InHand \subseteq more
    BY Zenon
  <2> HIDE DEF more
  <2> QED
    BY ZenonT(30), <1>1, <1>3, <2>1, <2>2, BackedMore
<1> QED
  BY ZenonT(30), <1>4, BackedNext DEF BackedInv, DecisionBacked

\* Every step keeps the decisions backed.
LEMMA BackedInvNext ==
    ASSUME StableGroups, TypeInv, TypeInv', IndexInv, BackedInv, [Next]_vars
    PROVE  BackedInv'
<1>1. CASE processBlockVote
  <2>1. engine.pc = "vote" /\ engine.next <= Len(engine.bvs.votes)
    BY Zenon, <1>1 DEF processBlockVote
  <2>2. /\ engine.bvs \in BVs /\ engine.next \in 1..Len(engine.bvs.votes)
        /\ engine \in [pc : {"vote"}, bvs : BVs, next : Nat, llrs : LlrState]
    BY <2>1, VotingType
  <2>3. PICK k \in Key : k = VoteKey(engine.bvs, engine.next)
    BY Zenon, <2>2, VoteKeyType
  <2>4. UNCHANGED <<LlrBlockVotes, disk>>
    BY Zenon, <1>1 DEF processBlockVote
  <2>5. InHand' = InHand
    <3>1. engine'.pc = engine.pc /\ engine'.bvs = engine.bvs
      BY ZenonT(30), <1>1, <2>2 DEF processBlockVote
    <3> QED
      BY Zenon, <3>1 DEF InHand
  <2>6. CASE LlrBlockResults' = LlrBlockResults
    BY ZenonT(30), <2>4, <2>5, <2>6, BackedSame
  <2>7. CASE LlrBlockResults' # LlrBlockResults
    <3>1. /\ enoughVotes(engine.bvs.signed,
                 addLlrVoteWeight(getLlrVoteWeight(k), Position(engine.bvs),
                     GetWeightByIdx(engine.bvs.signed, Position(engine.bvs))).weight)
          /\ LlrBlockResults' = [LlrBlockResults EXCEPT ![k.block] = k.v]
      BY ZenonT(30), <1>1, <2>3, <2>7 DEF processBlockVote, Position
    <3>2. Backed(k.block, k.v, LlrBlockVotes \cup InHand)
      BY ZenonT(30), <2>1, <2>2, <2>3, <3>1, WinnerBacked
    <3>3. \A b \in Block : LlrBlockResults'[b] # LlrBlockResults[b] =>
            b = k.block /\ LlrBlockResults'[b] = k.v
      BY Zenon, <3>1 DEF TypeInv, TypeOK
    <3>4. \A b \in Block : LlrBlockResults[b] # None =>
            Backed(b, LlrBlockResults[b], LlrBlockVotes \cup InHand)
      BY Zenon DEF BackedInv, DecisionBacked, Decided, InHand
    <3>5. \A b \in Block : LlrBlockResults'[b] # None =>
            Backed(b, LlrBlockResults'[b], LlrBlockVotes \cup InHand)
      BY ZenonT(30), <3>2, <3>3, <3>4
    <3> QED
      BY ZenonT(30), <2>4, <2>5, <3>5, BackedNext DEF BackedInv, DecisionBacked
  <2> QED
    BY Zenon, <2>6, <2>7
<1>2. CASE endBlockVotes
  <2>1. /\ engine.pc = "vote" /\ UNCHANGED <<LlrBlockResults, disk>>
        /\ LlrBlockVotes' = LlrBlockVotes \cup {engine.bvs}
    BY ZenonT(30), <1>2 DEF endBlockVotes
  <2>2. InHand = {engine.bvs} /\ Exists(engine.bvs.signed, engine.bvs.creator)
    BY Zenon, <2>1, VotingType DEF InHand, TypeInv, Voting
  <2>3. InHand' = {}
    BY <1>2 DEF endBlockVotes, mayCommit, EngineIdle, InHand
  <2>4. LlrBlockVotes' \cup InHand' = LlrBlockVotes \cup InHand
    BY Zenon, <2>1, <2>2, <2>3
  <2>5. Members(LlrBlockVotes')
    BY Zenon, <2>1, <2>2 DEF BackedInv, Members
  <2>6. \A b \in Block : LlrBlockResults[b] # None =>
          Backed(b, LlrBlockResults[b], LlrBlockVotes \cup InHand)
    BY Zenon DEF BackedInv, DecisionBacked, Decided, InHand
  <2> QED
    BY ZenonT(30), <2>1, <2>4, <2>5, <2>6, BackedNext DEF BackedInv, DecisionBacked
<1>3. CASE commit
  <2>1. /\ UNCHANGED <<LlrBlockResults, LlrBlockVotes>>
        /\ disk'.votes = LlrBlockVotes /\ disk'.results = LlrBlockResults
    BY Zenon, <1>3 DEF commit, Durable
  <2>2. InHand = {} /\ InHand' = {}
    BY Zenon, <1>3 DEF commit, EngineIdle, InHand
  <2>3. LlrBlockVotes \cup {} = LlrBlockVotes
    BY Zenon
  <2>4. \A b \in Block : LlrBlockResults[b] # None =>
          Backed(b, LlrBlockResults[b], LlrBlockVotes \cup InHand)
    BY Zenon DEF BackedInv, DecisionBacked, Decided, InHand
  <2> QED
    BY ZenonT(30), <2>1, <2>2, <2>3, <2>4, BackedNext DEF BackedInv
<1>4. CASE Crash
  <2>1. LlrBlockVotes' = disk.votes /\ LlrBlockResults' = disk.results /\ disk' = disk
    BY ZenonT(30), <1>4 DEF Crash
  <2>2. InHand' = {}
    BY Zenon, <1>4 DEF Crash, EngineIdle, InHand
  <2>3. disk.votes \cup {} = disk.votes
    BY Zenon
  <2> QED
    BY ZenonT(30), <2>1, <2>2, <2>3, BackedNext DEF BackedInv, DecisionBacked
<1>5. CASE /\ UNCHANGED <<LlrBlockResults, LlrBlockVotes, disk>>
           /\ engine' = engine \/ engine = EngineIdle
  <2>1. InHand \subseteq InHand'
    BY <1>5 DEF InHand, EngineIdle
  <2> QED
    BY ZenonT(30), <1>5, <2>1, BackedSame
<1> QED
  BY ZenonT(30), <1>1, <1>2, <1>3, <1>4, <1>5
  DEF Next, vars, tables, processBlockVotes, checkFullBlockRecord, WriteFullBlockRecord,
      endFullBlockRecord, EndBlock, blockFnSetBlock, blockFnEnd, SwitchEpochTo,
      SetHistoryBlockEpochState, flusherCommit

\* BackedInv is an invariant.
LEMMA BackedInvariant ==
    ASSUME StableGroups
    PROVE  Spec => []BackedInv
<1>1. ASSUME Init PROVE BackedInv
  <2>1. disk.votes = {} /\ LlrBlockVotes = {}
    BY Zenon, <1>1 DEF Init, Durable
  <2>2. LlrBlockResults = [b \in Block |-> None] /\ disk.results = [b \in Block |-> None]
    BY Zenon, <1>1 DEF Init, Durable
  <2> QED
    BY Zenon, <2>1, <2>2 DEF BackedInv, Members, DecisionBacked, Decided
<1> QED
  BY <1>1, BackedInvNext, TypeInvariant, IndexInvariant, PTL DEF Spec

\* Every decision of processBlockVote, and every one a restarted node finds, is
\* backed by stored votes of more than a third of a group, however many
\* validators sign wrong records.
THEOREM DecisionsBacked ==
    ASSUME StableGroups
    PROVE  Spec => []DecisionBacked
  BY BackedInvariant, PTL DEF BackedInv

\* The first vote of a validator for a record always adds its weight in
\* addLlrVoteWeight, provided that the votes which meet in one entry were signed
\* under one order of the validators.
THEOREM NewVotesCount ==
    ASSUME StableGroups
    PROVE  Spec => NewVoteCounts
<1> DEFINE x == engine.bvs
           n == engine.next
<1>1. ASSUME TypeInv, IndexInv, BackedInv, [Next]_vars, NEW k \in Key,
             engine.pc = "vote", engine'.pc = "vote", engine'.next = n + 1,
             VotesFor(x, k, n), ~VotesFor(x, k, n - 1),
             \A y \in StoredFor(LlrBlockVotes, k) : y.creator # x.creator
      PROVE  getLlrVoteWeight(k)'.weight =
                 getLlrVoteWeight(k).weight + W[x.signed][{Position(x)}]
  <2> USE <1>1
  <2>1. /\ x \in BVs /\ n \in Nat /\ Position(x) \in Index /\ x.signed \in Epoch
        /\ GetWeightByIdx(x.signed, Position(x)) \in Nat
    BY Zenon, VotingType
  <2>2. processBlockVote
    <3>1. engine' # engine /\ engine # EngineIdle /\ engine' # EngineIdle
          /\ engine' # [pc |-> "commit"] /\ engine # [pc |-> "commit"]
      BY SMTT(30), <2>1 DEF EngineIdle
    <3> QED
      BY ZenonT(30), <3>1
      DEF Next, vars, tables, processBlockVotes, endBlockVotes, mayCommit,
          checkFullBlockRecord, WriteFullBlockRecord, endFullBlockRecord, EndBlock,
          blockFnSetBlock, blockFnEnd, SwitchEpochTo, SetHistoryBlockEpochState,
          flusherCommit, commit, Crash
  <2>3. n \in 1..Len(x.votes)
    <3>1. n <= Len(x.votes)
      BY ZenonT(30), <2>2 DEF processBlockVote
    <3> QED
      BY <3>1, VotingType
  <2>4. k = VoteKey(x, n) /\ x.epoch = k.epoch
    <3>1. k = VoteKey(x, n)
      BY Zenon, <2>1, <2>3, VotesForStep
    <3> QED
      BY Zenon, <3>1 DEF VoteKey
  <2> DEFINE old == getLlrVoteWeight(k)
             upd == addLlrVoteWeight(old, Position(x), GetWeightByIdx(x.signed, Position(x)))
  <2>5. old \in IndexEntry /\ upd \in IndexEntry
    BY Zenon, <2>1, EntryType, AddType DEF TypeInv
  <2>6. CacheAdd(k, old, upd)
    BY ZenonT(30), <2>2, <2>4 DEF processBlockVote, Position
  <2>7. getLlrVoteWeight(k)' = upd
    BY Zenon, <2>5, <2>6, CacheAddView DEF TypeInv, IndexInv
  <2>8. old.set = {Position(y) : y \in StoredFor(LlrBlockVotes, k)}
    <3>1. CurrentFor(k) = {}
      BY Zenon DEF CurrentFor
    <3>2. StoredFor(LlrBlockVotes, k) \cup {} = StoredFor(LlrBlockVotes, k)
      BY Zenon
    <3> QED
      BY ZenonT(30), <3>1, <3>2 DEF IndexInv, VotesIndexExact, EntryExact
  <2>9. ASSUME NEW y \in StoredFor(LlrBlockVotes, k) PROVE Position(y) # Position(x)
    <3>1. y \in BVs /\ y.epoch = x.epoch /\ Exists(y.signed, y.creator)
      BY Zenon, <2>4, <2>9 DEF StoredFor, VotesFor, TypeInv, TypeOK, BackedInv, Members
    <3>2. Idx[y.signed] = Idx[x.signed]
      BY ZenonT(30), <2>1, <3>1 DEF StableGroups
    <3>3. y.creator \in Group(x.signed) /\ x.creator \in Group(x.signed)
      BY Zenon, <3>1, <3>2 DEF Exists, Group, TypeInv, Voting
    <3>4. Idx[x.signed][y.creator] # Idx[x.signed][x.creator]
      BY ZenonT(30), <2>1, <2>9, <3>3, GroupsAssumption
    <3> QED
      BY ZenonT(30), <3>2, <3>4 DEF Position
  <2>10. Position(x) \notin old.set
    BY Zenon, <2>8, <2>9
  <2>11. upd.weight = old.weight + GetWeightByIdx(x.signed, Position(x))
    BY Zenon, <2>10 DEF addLlrVoteWeight
  <2> QED
    BY ZenonT(30), <2>7, <2>11 DEF GetWeightByIdx
<1>2. ASSUME TypeInv, IndexInv, BackedInv, [Next]_vars
      PROVE  \A k \in Key : CountsNewVote(k)
  BY Zenon, <1>1, <1>2 DEF CountsNewVote
<1> QED
  BY <1>2, TypeInvariant, IndexInvariant, BackedInvariant, PTL DEF Spec, NewVoteCounts

=============================================================================
