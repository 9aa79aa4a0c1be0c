-------------------------- MODULE LlrEpochsProofs --------------------------
(***************************************************************************)
(* Proofs about the epoch records of LlrEpochs, for any number of epochs,  *)
(* validators, votes, packs and crashes: the chain of trust, the votes     *)
(* index, the pointer LowestEpochToFill, and the upgrade heights.          *)
(***************************************************************************)
EXTENDS LlrEpochs, TLAPS, WellFoundedInduction

-----------------------------------------------------------------------------
(* Shapes. *)

Entry == [vals : Record \cup {None}, set : SUBSET Validator, weight : Nat]

\* The records the threads keep between their steps.
EpShape ==
    \/ ep = Idle
    \/ /\ ep = [pc |-> "votes", pack |-> ep.pack, verdicts |-> ep.verdicts,
                processed |-> ep.processed, pending |-> ep.pending]
       /\ ep.pack \in Packs /\ ep.processed \in Nat
       /\ ep.pending \subseteq DOMAIN ep.pack.votes
       /\ DOMAIN ep.verdicts \subseteq DOMAIN ep.pack.votes
    \/ /\ ep = [pc |-> ep.pc, idx |-> ep.idx, er |-> ep.er]
       /\ ep.pc \in {"record", "fill"} /\ ep.idx \in Epoch
    \/ /\ ep = [pc |-> ep.pc, idx |-> ep.idx, er |-> ep.er, hh |-> ep.hh]
       /\ ep.pc \in {"add", "cache"} /\ ep.idx \in Epoch

EngineShape ==
    \/ engine = Idle
    \/ engine = [pc |-> engine.pc] /\ engine.pc \in {"seal", "commit"}
    \/ engine = [pc |-> engine.pc, hh |-> engine.hh] /\ engine.pc \in {"add", "cache"}

BlockProcShape == blockProc = Idle \/ blockProc \in [pc : {"history", "fill"}]

\* Tables have their domains; the node is in an epoch of the model, and in the
\* next one only once it is sealed.
Tables(index, results, history, cur) ==
    /\ index \in [Epoch \X Record -> Entry]
    /\ results \in [Epoch -> Record \cup {None}]
    /\ history \in [Epoch -> Record \cup {None}]
    /\ cur = [epoch |-> cur.epoch, es |-> cur.es]
    /\ cur.epoch \in Epoch /\ cur.es \in Record

TypeInv ==
    /\ Tables(LlrEpochVoteIndex, LlrEpochResults, BlockEpochStateHistory, current)
    /\ Tables(disk.index, disk.results, disk.history, disk.current)
    /\ EpShape
    /\ EngineShape
    /\ BlockProcShape
    /\ engine.pc \in {"add", "cache", "seal"} => /\ blockProc = Idle
                                                /\ current.epoch + 1 \in Epoch

\* What a commit makes durable is what is in memory, at the end of the step.
LEMMA DiskStep ==
    ASSUME Next
    PROVE  \/ disk' = disk
           \/ /\ disk'.index = LlrEpochVoteIndex'
              /\ disk'.results = LlrEpochResults'
              /\ disk'.history = BlockEpochStateHistory'
              /\ disk'.heights = UpgradeHeights'
              /\ disk'.llrState = llrState'
              /\ disk'.current = current'
              /\ blockProc' = Idle
<1> USE DEF Durable, mayCommit, tables
<1>1. CASE \E ev \in EVs : ProcessEventVote(ev)
  BY <1>1 DEF ProcessEventVote
<1>2. CASE \E p \in Packs : Enqueue(p)
  BY Zenon, <1>2 DEF Enqueue
<1>3. CASE \E i \in 1..Max({Len(p.votes) : p \in Packs}) : checked(i)
  BY Zenon, <1>3 DEF checked
<1>4. CASE processEV
  BY <1>4 DEF processEV
<1>5. CASE ProcessFullEpochRecord
  BY Zenon, <1>5 DEF ProcessFullEpochRecord
<1>6. CASE WriteUpgradeHeight
  BY Zenon, <1>6 DEF WriteUpgradeHeight
<1>7. CASE addUpgradeHeight
  BY Zenon, <1>7 DEF addUpgradeHeight
<1>8. CASE updateLowestEpochToFill
  BY <1>8 DEF updateLowestEpochToFill
<1>9. CASE sealEpoch
  BY Zenon, <1>9 DEF sealEpoch
<1>10. CASE sealAddUpgradeHeight
  BY Zenon, <1>10 DEF sealAddUpgradeHeight
<1>11. CASE sealed
  BY Zenon, <1>11 DEF sealed
<1>12. CASE blockFn
  BY Zenon, <1>12 DEF blockFn
<1>13. CASE sealCommit
  BY Zenon, <1>13 DEF sealCommit
<1>14. CASE \E n \in Epoch : SwitchEpochTo(n)
  BY Zenon, <1>14 DEF SwitchEpochTo
<1>15. CASE updateSnapsyncStage
  BY Zenon, <1>15 DEF updateSnapsyncStage
<1>16. CASE flusherCommit
  BY Zenon, <1>16 DEF flusherCommit
<1>17. CASE Crash
  BY Zenon, <1>17 DEF Crash
<1> QED
  BY Zenon, <1>1, <1>2, <1>3, <1>4, <1>5, <1>6, <1>7, <1>8, <1>9, <1>10, <1>11, <1>12,
     <1>13, <1>14, <1>15, <1>16, <1>17 DEF Next

\* The states the groups are taken from.
LEMMA HistoryType ==
    ASSUME TypeInv, NEW n \in Epoch
    PROVE  GetHistoryEpochState(n) \in Record \cup {None}
  BY Zenon DEF TypeInv, Tables, GetHistoryEpochState

\* Voters are validators, and a group's weight of one of them is a natural.
LEMMA VoterType ==
    ASSUME NEW r \in Record, NEW v \in Group[r]
    PROVE  v \in Validator /\ W[r][{v}] \in Nat
<1>1. {v} \in SUBSET Group[r]
  BY Zenon
<1>2. W[r] \in [SUBSET Group[r] -> Nat]
  BY Zenon, ConstantsAssumption
<1> QED
  BY Zenon, <1>1, <1>2 DEF Validator

\* Counting a vote gives an entry.
LEMMA AddType ==
    ASSUME TypeInv, NEW ev \in EVs, NEW r \in Record, ev.creator \in Group[r]
    PROVE  AddLlrEpochVoteWeight(ev, r) \in Entry
<1>1. LlrEpochVoteIndex[<<ev.epoch, ev.vote>>] \in Entry
  BY Zenon, VotesAssumption DEF TypeInv, Tables
<1>2. ev.creator \in Validator /\ W[r][{ev.creator}] \in Nat
  BY Zenon, VoterType
<1> QED
  BY <1>1, <1>2 DEF AddLlrEpochVoteWeight, Entry

\* A counted vote keeps the tables' types; the state it is counted under is
\* that of the epoch before.
LEMMA VoteTables ==
    ASSUME TypeInv, NEW ev \in EVs, Countable(ev),
           processEpochVote(ev)
    PROVE  Tables(LlrEpochVoteIndex, LlrEpochResults, BlockEpochStateHistory, current)'
<1> DEFINE r == GetHistoryEpochState(ev.epoch - 1)
<1>1. ev.epoch \in Epoch /\ ev.epoch - 1 \in Epoch /\ ev.vote \in Record
  BY VotesAssumption, ConstantsAssumption DEF Epoch
<1>2. r \in Record /\ ev.creator \in Group[r]
  BY Zenon, <1>1, HistoryType DEF Countable
<1> HIDE DEF r
<1>3. AddLlrEpochVoteWeight(ev, r) \in Entry
  BY Zenon, <1>2, AddType
<1>4. processRawEpochVote(ev, r) /\ UNCHANGED <<BlockEpochStateHistory, current>>
  BY Zenon DEF processEpochVote, r
<1>5. LlrEpochVoteIndex' \in [Epoch \X Record -> Entry]
  BY Zenon, <1>1, <1>3, <1>4 DEF processRawEpochVote, TypeInv, Tables
<1>6. LlrEpochResults' \in [Epoch -> Record \cup {None}]
  BY SMTT(30), <1>1, <1>4 DEF processRawEpochVote, TypeInv, Tables
<1> QED
  BY Zenon, <1>4, <1>5, <1>6 DEF TypeInv, Tables

\* Init has the types.
LEMMA InitType == Init => TypeInv
<1> SUFFICES ASSUME Init PROVE TypeInv
  BY Zenon
<1>1. 1 \in Epoch /\ Own[1] \in Record
  BY ConstantsAssumption DEF Epoch
<1>2. [vals |-> None, set |-> {}, weight |-> 0] \in Entry
  BY Zenon DEF Entry
<1>3. Tables(LlrEpochVoteIndex, LlrEpochResults, BlockEpochStateHistory, current)
  BY Zenon, <1>1, <1>2 DEF Init, Tables
<1>4. Tables(disk.index, disk.results, disk.history, disk.current)
  BY Zenon, <1>3 DEF Init, Durable
<1> QED
  BY Zenon, <1>3, <1>4 DEF Init, TypeInv, EpShape, EngineShape, BlockProcShape, Idle

\* The part of the invariant that is not about the databases.
Threads ==
    /\ EpShape
    /\ EngineShape
    /\ BlockProcShape
    /\ engine.pc \in {"add", "cache", "seal"} => /\ blockProc = Idle
                                                /\ current.epoch + 1 \in Epoch

\* Every step keeps the types of the tables in memory and of the threads.
LEMMA NextMemory ==
    ASSUME TypeInv, Next
    PROVE  /\ Tables(LlrEpochVoteIndex, LlrEpochResults, BlockEpochStateHistory, current)'
           /\ Threads'
<1> DEFINE Mem == Tables(LlrEpochVoteIndex, LlrEpochResults, BlockEpochStateHistory, current)
<1>a. Mem /\ Threads
  BY Zenon DEF TypeInv, Threads
<1>b. UNCHANGED <<LlrEpochVoteIndex, LlrEpochResults, BlockEpochStateHistory, current>> => Mem'
  BY Zenon, <1>a DEF Tables
<1>c. UNCHANGED <<engine, blockProc, current, ep>> => Threads'
  BY Zenon, <1>a DEF Threads, EpShape, EngineShape, BlockProcShape
<1>d. UNCHANGED ep => EpShape'
  BY Zenon, <1>a DEF Threads, EpShape
<1>e. UNCHANGED <<engine, blockProc, current>> /\ EpShape' => Threads'
  BY Zenon, <1>a DEF Threads, EngineShape, BlockProcShape
<1>f. UNCHANGED tables => UNCHANGED <<LlrEpochVoteIndex, LlrEpochResults, BlockEpochStateHistory, current>>
  BY Zenon DEF tables
<1> HIDE DEF Mem
<1>1. CASE \E ev \in EVs : ProcessEventVote(ev)
  <2>1. PICK ev \in EVs : ProcessEventVote(ev)
    BY Zenon, <1>1
  <2>2. Countable(ev) /\ processEpochVote(ev) /\ UNCHANGED <<engine, blockProc, ep>>
    BY Zenon, <2>1 DEF ProcessEventVote
  <2>3. UNCHANGED current
    BY Zenon, <2>2 DEF processEpochVote
  <2> QED
    BY Zenon, <2>2, <2>3, <1>c, VoteTables DEF Mem
<1>2. CASE \E p \in Packs : Enqueue(p)
  <2>1. PICK p \in Packs : Enqueue(p)
    BY Zenon, <1>2
  <2>2. EpShape'
    BY <2>1 DEF Enqueue, EpShape
  <2> QED
    BY Zenon, <2>1, <2>2, <1>b, <1>e, <1>f DEF Enqueue, Mem
<1>3. CASE \E i \in 1..Max({Len(p.votes) : p \in Packs}) : checked(i)
  <2>1. PICK i : checked(i)
    BY Zenon, <1>3
  <2>2. EpShape'
    BY Zenon, <1>a, <2>1 DEF checked, EpShape, Threads, Idle
  <2> QED
    BY Zenon, <2>1, <2>2, <1>b, <1>e, <1>f DEF checked, Mem
<1>4. CASE processEV
  <2> DEFINE i  == ep.processed + 1
             ev == ep.pack.votes[i]
  <2>1. EpShape' /\ ev \in EVs
    <3>1. ep.pc = "votes" /\ i \in DOMAIN ep.verdicts
      BY Zenon, <1>4 DEF processEV
    <3>2. /\ ep = [pc |-> "votes", pack |-> ep.pack, verdicts |-> ep.verdicts,
                   processed |-> ep.processed, pending |-> ep.pending]
          /\ ep.pack \in Packs /\ ep.processed \in Nat
          /\ ep.pending \subseteq DOMAIN ep.pack.votes
          /\ DOMAIN ep.verdicts \subseteq DOMAIN ep.pack.votes
      BY <1>a, <3>1 DEF Threads, EpShape, Idle
    <3>3. ev \in EVs
      BY <3>1, <3>2, VotesAssumption
    <3>4. ep' = [ep EXCEPT !.processed = i]
      BY Zenon, <1>4 DEF processEV
    <3> QED
      BY <3>2, <3>3, <3>4 DEF EpShape
  <2>2. CASE ep.verdicts[i] /\ Countable(ev)
    BY Zenon, <1>4, <2>1, <2>2, <1>e, VoteTables DEF processEV, processEpochVote, Mem
  <2>3. CASE ~(ep.verdicts[i] /\ Countable(ev))
    BY Zenon, <1>4, <2>1, <2>3, <1>b, <1>e, <1>f DEF processEV, Mem
  <2> QED
    BY Zenon, <2>2, <2>3
<1>5. CASE ProcessFullEpochRecord
  <2>1. ep.pc = "votes" /\ ep.pack \in Packs
    BY <1>5, <1>a DEF ProcessFullEpochRecord, Threads, EpShape, Idle
  <2>2. ep.pack.idx \in Epoch /\ ep.pack.record \in Record
    BY Zenon, <2>1, VotesAssumption
  <2>3. EpShape'
    BY SMTT(30), <1>5, <2>2 DEF ProcessFullEpochRecord, EpShape
  <2>4. Mem'
    BY Zenon, <1>5, <1>a, <2>2 DEF ProcessFullEpochRecord, Mem, Tables
  <2> QED
    BY Zenon, <1>5, <2>3, <2>4, <1>e DEF ProcessFullEpochRecord, Mem
<1>6. CASE WriteUpgradeHeight
  <2>1. EpShape'
    <3>1. ep.idx \in Epoch /\ ep = [pc |-> "record", idx |-> ep.idx, er |-> ep.er]
      BY <1>6, <1>a DEF WriteUpgradeHeight, EpShape, Threads, Idle
    <3>2. CASE ep' = [ep EXCEPT !.pc = "fill"]
      BY Zenon, <3>1, <3>2 DEF EpShape
    <3>3. CASE ep' = [pc |-> "add", idx |-> ep.idx, er |-> ep.er,
                      hh |-> Append(heightsCache, Height(ep.er, ep.idx))]
      BY Zenon, <3>1, <3>3 DEF EpShape
    <3> QED
      BY <1>6, <3>2, <3>3, Zenon DEF WriteUpgradeHeight
  <2> QED
    BY Zenon, <1>6, <2>1, <1>b, <1>e, <1>f DEF WriteUpgradeHeight, Mem
<1>7. CASE addUpgradeHeight
  <2>1. EpShape'
    BY <1>7, <1>a DEF addUpgradeHeight, AddUpgradeHeight, EpShape, Threads, Idle
  <2> QED
    BY Zenon, <1>7, <2>1, <1>b, <1>e DEF addUpgradeHeight, Mem
<1>8. CASE updateLowestEpochToFill
  <2>1. EpShape'
    BY Zenon, <1>8 DEF updateLowestEpochToFill, EpShape
  <2> QED
    BY Zenon, <1>8, <2>1, <1>b, <1>e DEF updateLowestEpochToFill, Mem
<1>9. CASE sealEpoch
  <2>1. Threads'
    BY Zenon, <1>9, <1>a, <1>d, <1>f DEF sealEpoch, Threads, EngineShape, BlockProcShape, Idle
  <2> QED
    BY Zenon, <1>9, <2>1, <1>b, <1>f DEF sealEpoch, Mem
<1>10. CASE sealAddUpgradeHeight
  <2>1. Threads'
    BY <1>10, <1>a, <1>d DEF sealAddUpgradeHeight, Threads, EngineShape, BlockProcShape, Idle
  <2> QED
    BY Zenon, <1>10, <2>1, <1>b DEF sealAddUpgradeHeight, Mem
<1>11. CASE sealed
  <2>1. current.epoch + 1 \in Epoch
    BY Zenon, <1>11, <1>a DEF sealed, Threads
  <2>2. Mem'
    BY Zenon, <1>11, <1>a, <2>1, ConstantsAssumption DEF sealed, Mem, Tables
  <2>3. Threads'
    BY Zenon, <1>11, <1>a, <1>d DEF sealed, Threads, EngineShape, BlockProcShape
  <2> QED
    BY Zenon, <2>2, <2>3 DEF Mem
<1>12. CASE blockFn
  <2>1. Mem'
    BY Zenon, <1>12, <1>a DEF blockFn, Mem, Tables
  <2>2. Threads'
    BY <1>12, <1>a, <1>d DEF blockFn, Threads, EngineShape, BlockProcShape, Idle
  <2> QED
    BY Zenon, <2>1, <2>2 DEF Mem
<1>13. CASE sealCommit
  <2>1. Threads'
    BY Zenon, <1>13, <1>a, <1>d, <1>f DEF sealCommit, Threads, EngineShape, BlockProcShape, Idle
  <2> QED
    BY Zenon, <1>13, <2>1, <1>b, <1>f DEF sealCommit, Mem
<1>14. CASE \E n \in Epoch : SwitchEpochTo(n)
  <2>1. PICK n \in Epoch : SwitchEpochTo(n)
    BY Zenon, <1>14
  <2>2. Mem'
    BY Zenon, <2>1, <1>a DEF SwitchEpochTo, Mem, Tables
  <2>3. Threads'
    BY Zenon, <2>1, <1>a, <1>d DEF SwitchEpochTo, Threads, EngineShape, BlockProcShape, Idle
  <2> QED
    BY Zenon, <2>2, <2>3 DEF Mem
<1>15. CASE updateSnapsyncStage
  BY Zenon, <1>15, <1>b, <1>c, <1>f DEF updateSnapsyncStage, Mem, tables
<1>16. CASE flusherCommit
  BY Zenon, <1>16, <1>b, <1>c, <1>f DEF flusherCommit, Mem, tables
<1>17. CASE Crash
  <2>1. Mem'
    BY Zenon, <1>17 DEF Crash, TypeInv, Mem, Tables
  <2>2. Threads'
    BY Zenon, <1>17 DEF Crash, Threads, EpShape, EngineShape, BlockProcShape, Idle
  <2> QED
    BY Zenon, <2>1, <2>2 DEF Mem
<1> QED
  BY Zenon, <1>1, <1>2, <1>3, <1>4, <1>5, <1>6, <1>7, <1>8, <1>9, <1>10, <1>11, <1>12,
     <1>13, <1>14, <1>15, <1>16, <1>17 DEF Next

LEMMA TypeNext == TypeInv /\ [Next]_vars => TypeInv'
<1> SUFFICES ASSUME TypeInv, [Next]_vars PROVE TypeInv'
  BY Zenon
<1>1. CASE Next
  <2>1. Tables(LlrEpochVoteIndex, LlrEpochResults, BlockEpochStateHistory, current)' /\ Threads'
    BY Zenon, <1>1, NextMemory
  <2>2. Tables(disk.index, disk.results, disk.history, disk.current)'
    BY Zenon, <1>1, <2>1, DiskStep DEF TypeInv, Tables
  <2> QED
    BY Zenon, <2>1, <2>2 DEF TypeInv, Threads
<1>2. CASE UNCHANGED vars
  <2>1. /\ UNCHANGED <<LlrEpochVoteIndex, LlrEpochResults, BlockEpochStateHistory>>
        /\ UNCHANGED <<current, disk, ep, engine, blockProc>>
    BY Zenon, <1>2 DEF vars, tables
  <2>2. /\ Tables(LlrEpochVoteIndex, LlrEpochResults, BlockEpochStateHistory, current)'
        /\ Tables(disk.index, disk.results, disk.history, disk.current)'
    BY Zenon, <2>1 DEF TypeInv, Tables
  <2>3. EpShape'
    BY Zenon, <2>1 DEF TypeInv, EpShape
  <2>4. EngineShape' /\ BlockProcShape'
    BY Zenon, <2>1 DEF TypeInv, EngineShape, BlockProcShape
  <2> QED
    BY Zenon, <2>1, <2>2, <2>3, <2>4 DEF TypeInv
<1> QED
  BY Zenon, <1>1, <1>2

LEMMA TypeInvariant == Spec => []TypeInv
  BY InitType, TypeNext, PTL DEF Spec

-----------------------------------------------------------------------------
(* The chain of trust. *)

NoEntry == [vals |-> None, set |-> {}, weight |-> 0]

\* An entry is empty, or it counts signers in the network's own group of the
\* epoch before.
Trusted(n, r, e) ==
    \/ e = NoEntry
    \/ /\ n # 1 /\ e.vals = Own[n - 1]
       /\ e.set \subseteq Group[Own[n - 1]]
       /\ e.weight = W[Own[n - 1]][e.set]
       /\ Signed(n, r, e.set)

Trust(index, results, history, cur) ==
    /\ \A n \in Epoch, r \in Record : Trusted(n, r, index[<<n, r>>])
    /\ \A n \in Epoch : results[n] \in {Own[n], None}
    /\ \A n \in Epoch : history[n] \in {Own[n], None}
    /\ cur.es = Own[cur.epoch]

TrustInv ==
    /\ Trust(LlrEpochVoteIndex, LlrEpochResults, BlockEpochStateHistory, current)
    /\ Trust(disk.index, disk.results, disk.history, disk.current)

LEMMA InitTrust == Init => TrustInv
<1> SUFFICES ASSUME Init PROVE TrustInv
  BY Zenon
<1>1. Trust(LlrEpochVoteIndex, LlrEpochResults, BlockEpochStateHistory, current)
  BY Zenon DEF Init, Trust, Trusted, NoEntry
<1> QED
  BY Zenon, <1>1 DEF Init, TrustInv, Durable

\* A group the node knows is the network's.
LEMMA GroupTrusted ==
    ASSUME TrustInv, NEW n \in Epoch, GetHistoryEpochState(n) # None
    PROVE  GetHistoryEpochState(n) = Own[n]
  BY Zenon DEF TrustInv, Trust, GetHistoryEpochState

\* A counted vote keeps the entry of its record trusted.
LEMMA AddTrusted ==
    ASSUME TypeInv, TrustInv, NEW ev \in EVs,
           ev.creator \in Group[Own[ev.epoch - 1]]
    PROVE  LET e == AddLlrEpochVoteWeight(ev, Own[ev.epoch - 1])
           IN  /\ Trusted(ev.epoch, ev.vote, e)
               /\ e # NoEntry
<1> DEFINE n == ev.epoch
           r == Own[n - 1]
           e == LlrEpochVoteIndex[<<n, ev.vote>>]
           f == AddLlrEpochVoteWeight(ev, r)
           v == ev.creator
<1>1. n \in Epoch \ {1} /\ n - 1 \in Epoch /\ ev.vote \in Record /\ r \in Record
  BY SMTT(30), VotesAssumption, ConstantsAssumption DEF Epoch
<1>2. e \in Entry /\ Trusted(n, ev.vote, e)
  BY Zenon, <1>1 DEF TypeInv, Tables, TrustInv, Trust
<1>3. /\ W[r] \in [SUBSET Group[r] -> Nat] /\ W[r][{}] = 0
      /\ \A S, T \in SUBSET Group[r] : S \cap T = {} => W[r][S \cup T] = W[r][S] + W[r][T]
  BY ZenonT(30), <1>1, ConstantsAssumption
<1>4. /\ f.vals = (IF e.vals = None THEN r ELSE e.vals)
      /\ f.set = e.set \cup {v}
      /\ f.weight = IF v \in e.set THEN e.weight ELSE e.weight + W[r][{v}]
  BY Zenon DEF AddLlrEpochVoteWeight
<1>5. /\ e.set \subseteq Group[r] /\ e.weight = W[r][e.set]
      /\ Signed(n, ev.vote, e.set) /\ e.vals \in {None, r}
  <2>1. CASE e = NoEntry
    <3>1. e.set = {} /\ e.weight = 0 /\ e.vals = None
      BY SMTT(30), <2>1 DEF NoEntry
    <3> QED
      BY Zenon, <3>1, <1>3 DEF Signed
  <2>2. CASE e # NoEntry
    BY Zenon, <1>2, <2>2 DEF Trusted
  <2> QED
    BY Zenon, <2>1, <2>2
<1> HIDE DEF e, f, n, r, v
<1>6. f.set \subseteq Group[r] /\ f.vals = r /\ v \in f.set
  BY Zenon, <1>4, <1>5 DEF r, n, v
<1>7. f.weight = W[r][f.set]
  <2>1. CASE v \in e.set
    <3>1. e.set \cup {v} = e.set
      BY Zenon, <2>1
    <3> QED
      BY Zenon, <2>1, <3>1, <1>4, <1>5
  <2>2. CASE v \notin e.set
    <3>1. e.set \cap {v} = {} /\ {v} \in SUBSET Group[r] /\ e.set \in SUBSET Group[r]
      BY Zenon, <2>2, <1>5 DEF r, n, v
    <3>2. W[r][e.set \cup {v}] = W[r][e.set] + W[r][{v}]
      BY Zenon, <3>1, <1>3
    <3> QED
      BY Zenon, <2>2, <3>2, <1>4, <1>5
  <2> QED
    BY Zenon, <2>1, <2>2
<1>8. Signed(n, ev.vote, f.set)
  BY Zenon, <1>4, <1>5 DEF Signed, n, v
<1>9. f # NoEntry
  BY <1>6 DEF NoEntry
<1> QED
  BY Zenon, <1>1, <1>6, <1>7, <1>8, <1>9 DEF Trusted, f, r, n

\* With the faulty weight bounded, no wrong record wins.
LEMMA WinnerOwn ==
    ASSUME FaultyBound, NEW n \in Epoch \ {1}, NEW r \in Record, NEW e,
           Trusted(n, r, e), e # NoEntry, Wins(Own[n - 1], e.weight)
    PROVE  r = Own[n]
<1> DEFINE o == Own[n - 1]
<1>1. o \in Record
  BY SMTT(30), ConstantsAssumption DEF Epoch
<1>2. /\ e.set \in SUBSET Group[o] /\ e.weight = W[o][e.set]
      /\ Signed(n, r, e.set)
  BY Zenon DEF Trusted
<1>3. W[o] \in [SUBSET Group[o] -> Nat]
  BY Zenon, <1>1, ConstantsAssumption
<1>4. W[o][e.set] \in Nat /\ TotalWeight(o) \in Nat
  BY Zenon, <1>2, <1>3 DEF TotalWeight
<1>5. e.weight >= TotalWeight(o) \div 3 + 1
  BY Zenon DEF Wins
<1>6. r # Own[n] => W[o][e.set] <= TotalWeight(o) \div 3
  BY Zenon, <1>2 DEF FaultyBound
<1> HIDE DEF o
<1> QED
  BY <1>2, <1>4, <1>5, <1>6

LEMMA VoteTrust ==
    ASSUME FaultyBound, TypeInv, TrustInv, NEW ev \in EVs, Countable(ev),
           processEpochVote(ev)
    PROVE  Trust(LlrEpochVoteIndex, LlrEpochResults, BlockEpochStateHistory, current)'
<1> DEFINE r == GetHistoryEpochState(ev.epoch - 1)
           f == AddLlrEpochVoteWeight(ev, r)
<1>1. ev.epoch \in Epoch \ {1} /\ ev.epoch - 1 \in Epoch /\ ev.vote \in Record
  BY VotesAssumption, ConstantsAssumption DEF Epoch
<1>2. r = Own[ev.epoch - 1] /\ ev.creator \in Group[r]
  BY Zenon, <1>1, GroupTrusted DEF Countable
<1>3. processRawEpochVote(ev, r) /\ UNCHANGED <<BlockEpochStateHistory, current>>
  BY Zenon DEF processEpochVote
<1> HIDE DEF r
<1>4. Trusted(ev.epoch, ev.vote, f) /\ f # NoEntry
  BY Zenon, <1>2, AddTrusted
<1>5. LlrEpochVoteIndex' = [LlrEpochVoteIndex EXCEPT ![<<ev.epoch, ev.vote>>] = f]
  BY Zenon, <1>3 DEF processRawEpochVote
<1>6. \/ UNCHANGED LlrEpochResults
      \/ /\ Wins(r, f.weight)
         /\ LlrEpochResults' = [LlrEpochResults EXCEPT ![ev.epoch] = ev.vote]
  BY Zenon, <1>3 DEF processRawEpochVote
<1> HIDE DEF f
<1>7. ASSUME NEW n \in Epoch, NEW q \in Record
      PROVE  Trusted(n, q, LlrEpochVoteIndex[<<n, q>>])'
  <2>1. CASE n = ev.epoch /\ q = ev.vote
    <3>1. LlrEpochVoteIndex'[<<n, q>>] = f
      BY Zenon, <1>1, <1>5, <2>1 DEF TypeInv, Tables
    <3> QED
      BY Zenon, <1>4, <2>1, <3>1
  <2>2. CASE ~(n = ev.epoch /\ q = ev.vote)
    <3>1. LlrEpochVoteIndex'[<<n, q>>] = LlrEpochVoteIndex[<<n, q>>]
      BY Zenon, <1>1, <1>5, <2>2 DEF TypeInv, Tables
    <3> QED
      BY Zenon, <3>1 DEF TrustInv, Trust
  <2> QED
    BY Zenon, <2>1, <2>2
<1>8. Wins(r, f.weight) => ev.vote = Own[ev.epoch]
  BY Zenon, <1>1, <1>2, <1>4, WinnerOwn
<1>9. \A n \in Epoch : LlrEpochResults'[n] \in {Own[n], None}
  BY Zenon, <1>1, <1>6, <1>8 DEF TypeInv, Tables, TrustInv, Trust
<1> QED
  BY Zenon, <1>3, <1>7, <1>9 DEF TrustInv, Trust

\* Every step keeps the tables in memory trusted.
LEMMA TrustMemory ==
    ASSUME FaultyBound, TypeInv, TrustInv, Next
    PROVE  Trust(LlrEpochVoteIndex, LlrEpochResults, BlockEpochStateHistory, current)'
<1> DEFINE Mem == Trust(LlrEpochVoteIndex, LlrEpochResults, BlockEpochStateHistory, current)
<1>a. Mem
  BY Zenon DEF TrustInv
<1>b. UNCHANGED <<LlrEpochVoteIndex, LlrEpochResults, BlockEpochStateHistory, current>> => Mem'
  BY Zenon, <1>a DEF Trust
<1> HIDE DEF Mem
<1>1. CASE \E ev \in EVs : ProcessEventVote(ev)
  BY Zenon, <1>1, VoteTrust DEF ProcessEventVote
<1>2. CASE \E p \in Packs : Enqueue(p)
  BY Zenon, <1>2, <1>b DEF Enqueue, Mem, tables
<1>3. CASE \E i \in 1..Max({Len(p.votes) : p \in Packs}) : checked(i)
  BY Zenon, <1>3, <1>b DEF checked, Mem, tables
<1>4. CASE processEV
  <2> DEFINE i  == ep.processed + 1
             ev == ep.pack.votes[i]
  <2>1. ev \in EVs
    <3>1. ep.pc = "votes" /\ i \in DOMAIN ep.verdicts
      BY Zenon, <1>4 DEF processEV
    <3>2. ep.pack \in Packs /\ DOMAIN ep.verdicts \subseteq DOMAIN ep.pack.votes
      BY <3>1 DEF TypeInv, EpShape, Idle
    <3> QED
      BY <3>1, <3>2, VotesAssumption
  <2>2. CASE ep.verdicts[i] /\ Countable(ev)
    BY Zenon, <1>4, <2>1, <2>2, VoteTrust DEF processEV
  <2>3. CASE ~(ep.verdicts[i] /\ Countable(ev))
    <3>1. UNCHANGED <<LlrEpochVoteIndex, LlrEpochResults, BlockEpochStateHistory, current>>
      BY Zenon, <1>4, <2>3 DEF processEV, tables
    <3> QED
      BY Zenon, <3>1, <1>b DEF Mem
  <2> QED
    BY Zenon, <2>2, <2>3
<1>5. CASE ProcessFullEpochRecord
  <2>1. ep.pack \in Packs
    BY <1>5 DEF ProcessFullEpochRecord, TypeInv, EpShape, Idle
  <2>2. ep.pack.idx \in Epoch /\ ep.pack.record \in Record
    BY Zenon, <2>1, VotesAssumption
  <2>3. CASE UNCHANGED BlockEpochStateHistory
    <3>1. UNCHANGED <<LlrEpochVoteIndex, LlrEpochResults, current>>
      BY Zenon, <1>5 DEF ProcessFullEpochRecord
    <3> QED
      BY Zenon, <2>3, <3>1, <1>b DEF Mem
  <2>4. CASE /\ LlrEpochResults[ep.pack.idx] = ep.pack.record
             /\ BlockEpochStateHistory' =
                    [BlockEpochStateHistory EXCEPT ![ep.pack.idx] = ep.pack.record]
    <3>1. ep.pack.record = Own[ep.pack.idx]
      BY Zenon, <2>2, <2>4, <1>a, ConstantsAssumption DEF Mem, Trust
    <3>2. \A n \in Epoch : BlockEpochStateHistory'[n] \in {Own[n], None}
      BY Zenon, <2>2, <2>4, <3>1, <1>a DEF Mem, Trust, TypeInv, Tables
    <3> QED
      BY Zenon, <1>5, <3>2, <1>a DEF ProcessFullEpochRecord, Mem, Trust
  <2> QED
    BY Zenon, <1>5, <2>3, <2>4 DEF ProcessFullEpochRecord, Accepts
<1>6. CASE WriteUpgradeHeight
  BY Zenon, <1>6, <1>b DEF WriteUpgradeHeight, Mem, tables
<1>7. CASE addUpgradeHeight
  BY Zenon, <1>7, <1>b DEF addUpgradeHeight, Mem
<1>8. CASE updateLowestEpochToFill
  BY Zenon, <1>8, <1>b DEF updateLowestEpochToFill, Mem
<1>9. CASE sealEpoch
  BY Zenon, <1>9, <1>b DEF sealEpoch, Mem, tables
<1>10. CASE sealAddUpgradeHeight
  BY Zenon, <1>10, <1>b DEF sealAddUpgradeHeight, Mem
<1>11. CASE sealed
  BY Zenon, <1>11, <1>a DEF sealed, Mem, Trust
<1>12. CASE blockFn
  <2>1. current.epoch \in Epoch /\ current.es = Own[current.epoch]
    BY Zenon, <1>a DEF Mem, Trust, TypeInv, Tables
  <2>2. \A n \in Epoch : BlockEpochStateHistory'[n] \in {Own[n], None}
    BY Zenon, <1>12, <2>1, <1>a DEF blockFn, Mem, Trust, TypeInv, Tables
  <2> QED
    BY Zenon, <1>12, <2>2, <1>a DEF blockFn, Mem, Trust
<1>13. CASE sealCommit
  BY Zenon, <1>13, <1>b DEF sealCommit, Mem, tables
<1>14. CASE \E n \in Epoch : SwitchEpochTo(n)
  BY <1>14, <1>a DEF SwitchEpochTo, Mem, Trust
<1>15. CASE updateSnapsyncStage
  BY Zenon, <1>15, <1>b DEF updateSnapsyncStage, Mem, tables
<1>16. CASE flusherCommit
  <2>1. UNCHANGED <<LlrEpochVoteIndex, LlrEpochResults, BlockEpochStateHistory, current>>
    BY Zenon, <1>16 DEF flusherCommit, tables
  <2> QED
    BY Zenon, <2>1, <1>b DEF Mem
<1>17. CASE Crash
  BY Zenon, <1>17 DEF Crash, TrustInv, Trust
<1> QED
  BY Zenon, <1>1, <1>2, <1>3, <1>4, <1>5, <1>6, <1>7, <1>8, <1>9, <1>10, <1>11, <1>12,
     <1>13, <1>14, <1>15, <1>16, <1>17 DEF Next

LEMMA TrustNext ==
    ASSUME FaultyBound
    PROVE  TypeInv /\ TrustInv /\ [Next]_vars => TrustInv'
<1> SUFFICES ASSUME TypeInv, TrustInv, [Next]_vars PROVE TrustInv'
  BY Zenon
<1>1. CASE Next
  <2>1. Trust(LlrEpochVoteIndex, LlrEpochResults, BlockEpochStateHistory, current)'
    BY Zenon, <1>1, TrustMemory
  <2>2. Trust(disk.index, disk.results, disk.history, disk.current)'
    BY Zenon, <1>1, <2>1, DiskStep DEF TrustInv, Trust
  <2> QED
    BY Zenon, <2>1, <2>2 DEF TrustInv
<1>2. CASE UNCHANGED vars
  BY Zenon, <1>2 DEF vars, tables, TrustInv, Trust
<1> QED
  BY Zenon, <1>1, <1>2

LEMMA TrustInvariant ==
    ASSUME FaultyBound
    PROVE  Spec => []TrustInv
<1>1. TypeInv /\ TrustInv /\ [Next]_vars => TrustInv'
  BY Zenon, TrustNext
<1> QED
  BY <1>1, InitTrust, TypeInvariant, PTL DEF Spec

\* Chain of trust, for any number of epochs, groups and weights: as long as the
\* signers of one wrong record never have more than a third of the weight of
\* the group before, every epoch state the node decides, stores, enters or
\* makes durable is the network's own (processEpochVote,
\* ProcessFullEpochRecord, SwitchEpochTo).
THEOREM RecordsTrusted ==
    ASSUME FaultyBound
    PROVE  Spec => []RecordsOwn
<1>1. TrustInv => RecordsOwn
  BY Zenon DEF TrustInv, Trust, RecordsOwn
<1> QED
  BY <1>1, TrustInvariant, PTL

\* Under the same bound the voters' bitmap of a record (addLlrVoteWeight) is
\* used with the group it was sized by, and the weight beside it is theirs.
THEOREM BitmapSized ==
    ASSUME FaultyBound
    PROVE  Spec => []BitmapFits
<1>1. TrustInv => BitmapFits
  <2> SUFFICES ASSUME TrustInv, NEW k \in Epoch \X Record,
                      LlrEpochVoteIndex[k].set # {}
               PROVE  LET e == LlrEpochVoteIndex[k]
                      IN  e.set \subseteq Group[e.vals] /\ e.weight = W[e.vals][e.set]
    BY Zenon DEF BitmapFits
  <2>1. PICK n \in Epoch, r \in Record : k = <<n, r>>
    BY SMTT(30)
  <2>2. Trusted(n, r, LlrEpochVoteIndex[k])
    BY Zenon, <2>1 DEF TrustInv, Trust
  <2> QED
    <3> DEFINE e == LlrEpochVoteIndex[k]
    <3>1. Trusted(n, r, e) /\ e.set # {}
      BY ZenonT(30), <2>2
    <3> HIDE DEF e
    <3>2. e.set \subseteq Group[e.vals] /\ e.weight = W[e.vals][e.set]
      BY SMTT(30), <3>1 DEF Trusted, NoEntry
    <3> QED
      BY Zenon, <3>2 DEF e
<1> QED
  BY <1>1, TrustInvariant, PTL

-----------------------------------------------------------------------------
(* The pointer LowestEpochToFill. *)

\* The least element of a nonempty set of naturals is one.
LEMMA MinOfNaturals ==
    ASSUME NEW S \in SUBSET Nat, S # {}
    PROVE  Min(S) \in S /\ \A y \in S : Min(S) <= y
<1> DEFINE Less == {p \in Nat \X Nat : p[1] < p[2]}
<1>1. OpToRel(<, Nat) = Less
  BY Zenon DEF OpToRel
<1>2. IsWellFoundedOn(Less, Nat)
  BY Zenon, <1>1, NatLessThanWellFounded
<1> HIDE DEF Less
<1>3. \E x \in S : \A y \in S : ~(<<y, x>> \in Less)
  BY Zenon, <1>2, WFMin
<1>4. \A x, y \in Nat : <<y, x>> \in Less <=> y < x
  BY Zenon DEF Less
<1>5. PICK x \in S : \A y \in S : ~(<<y, x>> \in Less)
  BY Zenon, <1>3
<1>6. \A y \in S : ~(y < x)
  BY Zenon, <1>4, <1>5
<1>7. \A y \in S : x <= y
  BY SMTT(30), <1>6
<1> QED
  BY Zenon, <1>7 DEF Min

\* actualizeLowestIndex leaves a pointer that is not at the updated index, and
\* moves one that is to the first index above that does not exist.
LEMMA ActualizeLowestIndex ==
    ASSUME NEW low \in 2..(MaxEpoch + 1), NEW u \in Epoch, NEW E \in SUBSET Epoch
    PROVE  LET r == actualizeLowestIndex(low, u, E)
           IN  /\ r \in 2..(MaxEpoch + 1)
               /\ low # u => r = low
               /\ low = u => /\ r > low /\ r \notin E
                             /\ \A n \in (low + 1)..(r - 1) : n \in E
<1> DEFINE S == {n \in (low + 1)..(MaxEpoch + 1) : n \notin E}
<1>1. CASE low = u
  <2>1. S \in SUBSET Nat /\ MaxEpoch + 1 \in S
    BY <1>1, ConstantsAssumption DEF Epoch
  <2>2. Min(S) \in S /\ \A y \in S : Min(S) <= y
    BY Zenon, <2>1, MinOfNaturals
  <2>3. actualizeLowestIndex(low, u, E) = Min(S)
    BY Zenon, <1>1 DEF actualizeLowestIndex
  <2> HIDE DEF S
  <2> DEFINE r == Min(S)
  <2>4. r \in (low + 1)..(MaxEpoch + 1) /\ r \notin E
    BY Zenon, <2>2 DEF S
  <2>5. \A n \in (low + 1)..(r - 1) : n \in E
    <3> SUFFICES ASSUME NEW n \in (low + 1)..(r - 1), n \notin E
                 PROVE  FALSE
      BY Zenon
    <3> HIDE DEF r
    <3>1. n \in S /\ n < r
      BY <2>4, ConstantsAssumption DEF S
    <3>2. r <= n
      BY Zenon, <2>2, <3>1 DEF r
    <3> QED
      BY <2>4, <3>1, <3>2, ConstantsAssumption
  <2> HIDE DEF r
  <2> QED
    BY SMTT(30), <1>1, <2>3, <2>4, <2>5, ConstantsAssumption DEF r
<1>2. CASE low # u
  BY Zenon, <1>2 DEF actualizeLowestIndex
<1> QED
  BY Zenon, <1>1, <1>2

\* The epochs below the pointer are stored.
Filled(llr, history) ==
    /\ llr = [LowestEpochToDecide |-> llr.LowestEpochToDecide,
              LowestEpochToFill |-> llr.LowestEpochToFill]
    /\ llr.LowestEpochToFill \in 2..(MaxEpoch + 1)
    /\ \A n \in 1..(llr.LowestEpochToFill - 1) : history[n] # None

\* The inserter is between WriteFullEpochRecord and updateLowestEpochToFill.
Writing == ep.pc \in {"record", "add", "cache", "fill"}

\* What the two writers have stored, and which of them will still move a
\* pointer that stands at a stored epoch.
FillMem ==
    /\ crashes \in Nat
    /\ Filled(llrState, BlockEpochStateHistory)
    /\ Writing => BlockEpochStateHistory[ep.idx] # None
    /\ blockProc.pc # "history" => BlockEpochStateHistory[current.epoch] # None
    /\ crashes = 0 /\ llrState.LowestEpochToFill \in Stored =>
           \/ Writing /\ ep.idx = llrState.LowestEpochToFill
           \/ blockProc.pc = "fill" /\ current.epoch = llrState.LowestEpochToFill

FillInv ==
    /\ FillMem
    /\ Filled(disk.llrState, disk.history)
    /\ disk.history[disk.current.epoch] # None

LEMMA InitFill == Init => FillInv
<1> SUFFICES ASSUME Init PROVE FillInv
  BY Zenon
<1>1. /\ MaxEpoch \in Nat /\ MaxEpoch > 1
      /\ None \notin Record /\ Own \in [Epoch -> Record]
  BY Zenon, ConstantsAssumption
<1>2. 1 \in Epoch /\ 2 \in 2..(MaxEpoch + 1) /\ \A n \in 1..(2 - 1) : n = 1
  BY <1>1 DEF Epoch
<1>3. Own[1] # None
  BY Zenon, <1>1, <1>2
<1>4. BlockEpochStateHistory = [n \in Epoch |-> IF n = 1 THEN Own[1] ELSE None]
  BY Zenon DEF Init
<1>5. BlockEpochStateHistory[1] # None /\ 2 \notin Stored
  BY <1>2, <1>3, <1>4 DEF Stored
<1>6. /\ llrState = [LowestEpochToDecide |-> 2, LowestEpochToFill |-> 2]
      /\ current = [epoch |-> 1, es |-> Own[1]]
      /\ ep = Idle /\ blockProc = Idle /\ crashes = 0 /\ disk = Durable
  BY ZenonT(30) DEF Init
<1>7. llrState.LowestEpochToFill = 2 /\ current.epoch = 1 /\ ep.pc = "idle"
  BY Zenon, <1>6 DEF Idle
<1>8. Filled(llrState, BlockEpochStateHistory)
  BY Zenon, <1>2, <1>5, <1>6 DEF Filled
<1>9. ~Writing
  BY Zenon, <1>7 DEF Writing
<1>10. FillMem
  BY Zenon, <1>5, <1>6, <1>7, <1>8, <1>9 DEF FillMem
<1>11. /\ disk.llrState = llrState /\ disk.history = BlockEpochStateHistory
       /\ disk.current = current
  BY Zenon, <1>6 DEF Durable
<1> QED
  BY Zenon, <1>5, <1>7, <1>8, <1>10, <1>11 DEF FillInv

\* Counting a vote leaves the pointer alone.
LEMMA VoteFill ==
    ASSUME FillMem, NEW ev, processEpochVote(ev), UNCHANGED <<blockProc, crashes>>,
           Writing' <=> Writing, Writing => ep'.idx = ep.idx
    PROVE  FillMem'
<1>1. /\ UNCHANGED <<BlockEpochStateHistory, current>>
      /\ \/ llrState' = llrState
         \/ \E x : llrState' = [llrState EXCEPT !.LowestEpochToDecide = x]
  BY Zenon DEF processEpochVote, processRawEpochVote
<1>2. llrState'.LowestEpochToFill = llrState.LowestEpochToFill /\ Filled(llrState, BlockEpochStateHistory)'
  BY Zenon, <1>1 DEF FillMem, Filled
<1> QED
  BY Zenon, <1>1, <1>2 DEF FillMem, Stored

\* Moving the pointer after epoch u was stored leaves no gap, and leaves it at
\* no stored epoch if it was at u.
LEMMA MoveFill ==
    ASSUME TypeInv, FillMem, NEW u \in Epoch, BlockEpochStateHistory[u] # None,
           llrState' = [llrState EXCEPT !.LowestEpochToFill =
                            actualizeLowestIndex(@, u, Stored)]
    PROVE  /\ Filled(llrState', BlockEpochStateHistory)
           /\ \/ llrState'.LowestEpochToFill \notin Stored
              \/ /\ llrState'.LowestEpochToFill = llrState.LowestEpochToFill
                 /\ llrState.LowestEpochToFill # u
<1> DEFINE low == llrState.LowestEpochToFill
           r   == actualizeLowestIndex(low, u, Stored)
<1>1. low \in 2..(MaxEpoch + 1) /\ Stored \in SUBSET Epoch
  BY Zenon DEF FillMem, Filled, Stored
<1>2. /\ r \in 2..(MaxEpoch + 1)
      /\ low # u => r = low
      /\ low = u => /\ r > low /\ r \notin Stored
                    /\ \A n \in (low + 1)..(r - 1) : n \in Stored
  BY Zenon, <1>1, ActualizeLowestIndex
<1>3. llrState' = [LowestEpochToDecide |-> llrState.LowestEpochToDecide,
                   LowestEpochToFill |-> r]
  BY Zenon DEF FillMem, Filled
<1>4. \A n \in 1..(low - 1) : BlockEpochStateHistory[n] # None
  BY Zenon DEF FillMem, Filled
<1> HIDE DEF low, r
<1>5. \A n \in 1..(r - 1) : BlockEpochStateHistory[n] # None
  <2>1. CASE low # u
    BY Zenon, <2>1, <1>2, <1>4
  <2>2. CASE low = u
    <3> SUFFICES ASSUME NEW n \in 1..(r - 1) PROVE BlockEpochStateHistory[n] # None
      BY Zenon
    <3>1. n \in 1..(low - 1) \/ n = low \/ n \in (low + 1)..(r - 1)
      BY <1>1, <1>2, ConstantsAssumption
    <3> QED
      BY Zenon, <2>2, <3>1, <1>2, <1>4 DEF Stored
  <2> QED
    BY Zenon, <2>1, <2>2
<1>6. llrState'.LowestEpochToFill = r
  BY <1>3
<1>7. Filled(llrState', BlockEpochStateHistory)
  BY Zenon, <1>2, <1>3, <1>5, <1>6 DEF Filled
<1>8. \/ r \notin Stored
      \/ r = low /\ low # u
  BY Zenon, <1>2
<1> QED
  BY Zenon, <1>6, <1>7, <1>8 DEF low

\* Every step keeps what FillMem says.
LEMMA FillMemory ==
    ASSUME TypeInv, FillInv, Next
    PROVE  FillMem'
<1>a. FillMem
  BY Zenon DEF FillInv
<1>b. ASSUME UNCHANGED <<llrState, BlockEpochStateHistory, current, blockProc, crashes>>,
             Writing' <=> Writing, Writing => ep'.idx = ep.idx
      PROVE  FillMem'
  BY Zenon, <1>a, <1>b DEF FillMem, Filled, Stored
<1>c. UNCHANGED ep => (Writing' <=> Writing) /\ (Writing => ep'.idx = ep.idx)
  BY Zenon DEF Writing
<1>1. CASE \E ev \in EVs : ProcessEventVote(ev)
  BY Zenon, <1>1, <1>a, <1>c, VoteFill DEF ProcessEventVote
<1>2. CASE \E p \in Packs : Enqueue(p)
  <2>1. ~Writing /\ ~Writing'
    BY <1>2 DEF Enqueue, Writing, Idle
  <2> QED
    BY Zenon, <1>2, <1>b, <2>1 DEF Enqueue, tables
<1>3. CASE \E i \in 1..Max({Len(p.votes) : p \in Packs}) : checked(i)
  <2>1. ~Writing /\ ~Writing'
    BY Zenon, <1>3 DEF checked, Writing, TypeInv, EpShape, Idle
  <2> QED
    BY Zenon, <1>3, <1>b, <2>1 DEF checked, tables
<1>4. CASE processEV
  <2>1. ~Writing /\ ~Writing'
    BY Zenon, <1>4 DEF processEV, Writing, TypeInv, EpShape, Idle
  <2>2. UNCHANGED <<blockProc, crashes>>
    BY Zenon, <1>4 DEF processEV
  <2>3. \/ UNCHANGED tables
        \/ \E ev : processEpochVote(ev)
    BY Zenon, <1>4 DEF processEV
  <2>4. CASE UNCHANGED tables
    BY Zenon, <2>1, <2>2, <2>4, <1>b DEF tables
  <2>5. CASE \E ev : processEpochVote(ev)
    BY Zenon, <2>1, <2>2, <2>5, <1>a, VoteFill
  <2> QED
    BY Zenon, <2>3, <2>4, <2>5
<1>5. CASE ProcessFullEpochRecord
  <2>1. ep.pack \in Packs /\ ~Writing
    BY SMTT(30), <1>5 DEF ProcessFullEpochRecord, TypeInv, EpShape, Idle, Writing
  <2>2. ep.pack.idx \in Epoch /\ ep.pack.record \in Record /\ ep.pack.record # None
    BY Zenon, <2>1, VotesAssumption, ConstantsAssumption
  <2>3. CASE ep' = Idle /\ UNCHANGED BlockEpochStateHistory
    <3>1. ~Writing'
      BY Zenon, <2>3 DEF Writing, Idle
    <3> QED
      BY Zenon, <1>5, <2>1, <2>3, <3>1, <1>b DEF ProcessFullEpochRecord
  <2>4. CASE /\ BlockEpochStateHistory' =
                    [BlockEpochStateHistory EXCEPT ![ep.pack.idx] = ep.pack.record]
             /\ ep' = [pc |-> "record", idx |-> ep.pack.idx, er |-> ep.pack.record]
    <3>1. /\ Writing' /\ ep'.idx = ep.pack.idx
          /\ UNCHANGED <<llrState, current, blockProc, crashes>>
      BY Zenon, <1>5, <2>4 DEF ProcessFullEpochRecord, Writing
    <3>2. \A n \in Epoch : BlockEpochStateHistory'[n] =
              IF n = ep.pack.idx THEN ep.pack.record ELSE BlockEpochStateHistory[n]
      BY Zenon, <2>2, <2>4 DEF TypeInv, Tables
    <3>3. Filled(llrState, BlockEpochStateHistory)'
      <4>1. \A n \in 1..(llrState.LowestEpochToFill - 1) : n \in Epoch
        BY <1>a, ConstantsAssumption DEF FillMem, Filled, Epoch
      <4> QED
        BY Zenon, <4>1, <2>2, <3>1, <3>2, <1>a DEF FillMem, Filled
    <3>4. Stored' = Stored \cup {ep.pack.idx}
      BY Zenon, <2>2, <3>2 DEF Stored
    <3>5. BlockEpochStateHistory'[ep'.idx] # None
      BY Zenon, <2>2, <3>1, <3>2
    <3>6. blockProc'.pc # "history" => BlockEpochStateHistory'[current'.epoch] # None
      BY Zenon, <2>2, <3>1, <3>2, <1>a DEF FillMem, TypeInv, Tables
    <3>7. crashes' = 0 /\ llrState'.LowestEpochToFill \in Stored' =>
             \/ ep'.idx = llrState'.LowestEpochToFill
             \/ blockProc'.pc = "fill" /\ current'.epoch = llrState'.LowestEpochToFill
      BY Zenon, <2>1, <3>1, <3>4, <1>a DEF FillMem
    <3> QED
      BY Zenon, <3>1, <3>3, <3>5, <3>6, <3>7, <1>a DEF FillMem
  <2> QED
    BY Zenon, <1>5, <2>3, <2>4 DEF ProcessFullEpochRecord
<1>6. CASE WriteUpgradeHeight
  <2>1. ep = [pc |-> "record", idx |-> ep.idx, er |-> ep.er]
    BY <1>6 DEF WriteUpgradeHeight, TypeInv, EpShape, Idle
  <2>2. \/ ep' = [ep EXCEPT !.pc = "fill"]
        \/ \E hh : ep' = [pc |-> "add", idx |-> ep.idx, er |-> ep.er, hh |-> hh]
    BY <1>6, Zenon DEF WriteUpgradeHeight
  <2>3. Writing /\ Writing' /\ ep'.idx = ep.idx
    BY SMTT(30), <2>1, <2>2 DEF Writing
  <2> QED
    BY Zenon, <1>6, <2>3, <1>b DEF WriteUpgradeHeight, tables
<1>7. CASE addUpgradeHeight
  <2>1. ep = [pc |-> ep.pc, idx |-> ep.idx, er |-> ep.er, hh |-> ep.hh]
    BY <1>7 DEF addUpgradeHeight, AddUpgradeHeight, TypeInv, EpShape, Idle
  <2>2. Writing /\ Writing' /\ ep'.idx = ep.idx
    BY SMTT(30), <1>7, <2>1 DEF addUpgradeHeight, AddUpgradeHeight, Writing
  <2> QED
    BY Zenon, <1>7, <2>2, <1>b DEF addUpgradeHeight
<1>8. CASE updateLowestEpochToFill
  <2>1. ep.idx \in Epoch /\ Writing /\ ~Writing'
    BY <1>8 DEF updateLowestEpochToFill, TypeInv, EpShape, Idle, Writing
  <2>2. BlockEpochStateHistory[ep.idx] # None
    BY Zenon, <2>1, <1>a DEF FillMem
  <2>3. UNCHANGED <<BlockEpochStateHistory, current, blockProc, crashes>>
    BY Zenon, <1>8 DEF updateLowestEpochToFill
  <2>4. /\ Filled(llrState', BlockEpochStateHistory)
        /\ \/ llrState'.LowestEpochToFill \notin Stored
           \/ /\ llrState'.LowestEpochToFill = llrState.LowestEpochToFill
              /\ llrState.LowestEpochToFill # ep.idx
    BY Zenon, <1>8, <1>a, <2>1, <2>2, MoveFill DEF updateLowestEpochToFill
  <2>5. Stored' = Stored
    BY Zenon, <2>3 DEF Stored
  <2> QED
    BY Zenon, <2>1, <2>3, <2>4, <2>5, <1>a DEF FillMem
<1>9. CASE sealEpoch
  BY Zenon, <1>9, <1>b, <1>c DEF sealEpoch, tables
<1>10. CASE sealAddUpgradeHeight
  BY Zenon, <1>10, <1>b, <1>c DEF sealAddUpgradeHeight
<1>11. CASE sealed
  <2>1. /\ UNCHANGED <<llrState, BlockEpochStateHistory, ep, crashes>>
        /\ blockProc = Idle /\ blockProc'.pc = "history"
    BY Zenon, <1>11 DEF sealed, TypeInv
  <2> QED
    BY Zenon, <2>1, <1>a, <1>c DEF FillMem, Filled, Stored, Idle
<1>12. CASE blockFn
  <2>1. current.epoch \in Epoch /\ current.es \in Record /\ current.es # None
    BY Zenon, ConstantsAssumption DEF TypeInv, Tables
  <2>2. UNCHANGED <<current, ep, crashes>>
    BY Zenon, <1>12 DEF blockFn
  <2>3. CASE /\ blockProc.pc = "history" /\ blockProc' = [pc |-> "fill"]
             /\ BlockEpochStateHistory' =
                    [BlockEpochStateHistory EXCEPT ![current.epoch] = current.es]
             /\ UNCHANGED llrState
    <3>1. \A n \in Epoch : BlockEpochStateHistory'[n] =
              IF n = current.epoch THEN current.es ELSE BlockEpochStateHistory[n]
      BY Zenon, <2>1, <2>3 DEF TypeInv, Tables
    <3>2. Filled(llrState, BlockEpochStateHistory)'
      <4>1. \A n \in 1..(llrState.LowestEpochToFill - 1) : n \in Epoch
        BY <1>a, ConstantsAssumption DEF FillMem, Filled, Epoch
      <4> QED
        BY Zenon, <4>1, <2>1, <2>3, <3>1, <1>a DEF FillMem, Filled
    <3>3. Stored' = Stored \cup {current.epoch}
      BY Zenon, <2>1, <3>1 DEF Stored
    <3>4. Writing' => ep'.idx \in Epoch
      BY SMTT(30), <2>2, <1>c DEF TypeInv, EpShape, Writing, Idle
    <3>5. Writing' => BlockEpochStateHistory'[ep'.idx] # None
      BY Zenon, <2>1, <2>2, <3>1, <3>4, <1>a, <1>c DEF FillMem
    <3> QED
      BY Zenon, <2>1, <2>2, <2>3, <3>1, <3>2, <3>3, <3>5, <1>a, <1>c DEF FillMem
  <2>4. CASE /\ blockProc.pc = "fill" \/ blockProc = Idle
             /\ llrState' = [llrState EXCEPT !.LowestEpochToFill =
                                 actualizeLowestIndex(@, current.epoch, Stored)]
             /\ blockProc' = Idle
             /\ UNCHANGED BlockEpochStateHistory
    <3>1. BlockEpochStateHistory[current.epoch] # None
      BY <2>4, <1>a DEF FillMem, Idle
    <3>2. /\ Filled(llrState', BlockEpochStateHistory)
          /\ \/ llrState'.LowestEpochToFill \notin Stored
             \/ /\ llrState'.LowestEpochToFill = llrState.LowestEpochToFill
                /\ llrState.LowestEpochToFill # current.epoch
      BY Zenon, <2>1, <2>4, <3>1, <1>a, MoveFill
    <3>3. Stored' = Stored
      BY Zenon, <2>4 DEF Stored
    <3> QED
      BY SMTT(30), <2>2, <2>4, <3>1, <3>2, <3>3, <1>a, <1>c DEF FillMem
  <2> QED
    BY Zenon, <1>12, <2>3, <2>4 DEF blockFn
<1>13. CASE sealCommit
  BY Zenon, <1>13, <1>b, <1>c DEF sealCommit, tables
<1>14. CASE \E n \in Epoch : SwitchEpochTo(n)
  <2>1. /\ UNCHANGED <<llrState, BlockEpochStateHistory, ep, blockProc, crashes>>
        /\ blockProc = Idle /\ BlockEpochStateHistory[current'.epoch] # None
    BY SMTT(30), <1>14 DEF SwitchEpochTo
  <2> QED
    BY Zenon, <2>1, <1>a, <1>c DEF FillMem, Filled, Stored, Idle
<1>15. CASE updateSnapsyncStage
  BY Zenon, <1>15, <1>b, <1>c DEF updateSnapsyncStage, tables
<1>16. CASE flusherCommit
  BY Zenon, <1>16, <1>b, <1>c DEF flusherCommit, tables
<1>17. CASE Crash
  <2>1. ~Writing' /\ crashes' # 0 /\ crashes' \in Nat
    BY SMTT(30), <1>17, <1>a DEF Crash, Writing, Idle, FillMem
  <2>2. Filled(llrState, BlockEpochStateHistory)'
    BY Zenon, <1>17 DEF Crash, FillInv, Filled
  <2>3. BlockEpochStateHistory'[current'.epoch] # None
    BY Zenon, <1>17 DEF Crash, FillInv
  <2> QED
    BY Zenon, <2>1, <2>2, <2>3 DEF FillMem
<1> QED
  BY Zenon, <1>1, <1>2, <1>3, <1>4, <1>5, <1>6, <1>7, <1>8, <1>9, <1>10, <1>11, <1>12,
     <1>13, <1>14, <1>15, <1>16, <1>17 DEF Next

LEMMA FillNext == TypeInv /\ FillInv /\ [Next]_vars => FillInv'
<1> SUFFICES ASSUME TypeInv, FillInv, [Next]_vars PROVE FillInv'
  BY Zenon
<1>1. CASE Next
  <2>1. FillMem'
    BY Zenon, <1>1, FillMemory
  <2>2. CASE disk' = disk
    BY Zenon, <2>1, <2>2 DEF FillInv
  <2>3. CASE /\ disk'.history = BlockEpochStateHistory'
             /\ disk'.llrState = llrState'
             /\ disk'.current = current'
             /\ blockProc' = Idle
    BY Zenon, <2>1, <2>3 DEF FillInv, FillMem, Idle
  <2> QED
    BY Zenon, <1>1, <2>2, <2>3, DiskStep
<1>2. CASE UNCHANGED vars
  BY Zenon, <1>2 DEF vars, tables, FillInv, FillMem, Filled, Writing, Stored
<1> QED
  BY Zenon, <1>1, <1>2

LEMMA FillInvariant == Spec => []FillInv
  BY InitFill, FillNext, TypeInvariant, PTL DEF Spec

\* LowestEpochToFill never passes an epoch that is not stored, and before the
\* first crash it stays at no stored epoch once both writers have ended, for
\* any number of epochs (updateLowestEpochToFill called by
\* ProcessFullEpochRecord and by the blocks, without a common lock around the
\* write of the record).
THEOREM FillPointerExact == Spec => []FillPointer
<1>1. FillInv => FillPointer
  <2> SUFFICES ASSUME FillInv PROVE FillPointer
    BY Zenon
  <2>1. \A n \in 1..(llrState.LowestEpochToFill - 1) : n \in Stored
    BY SMTT(30), ConstantsAssumption DEF FillInv, FillMem, Filled, Stored, Epoch
  <2>2. crashes = 0 /\ ep = Idle /\ blockProc = Idle =>
            llrState.LowestEpochToFill \notin Stored
    BY DEF FillInv, FillMem, Writing, Idle
  <2> QED
    BY Zenon, <2>1, <2>2 DEF FillPointer
<1> QED
  BY <1>1, FillInvariant, PTL

-----------------------------------------------------------------------------
(* The upgrade heights of a node that takes epochs from packs alone. *)

\* The heights are those of epochs up to k, in their order, from epoch 1 on.
Heights(hh, k) ==
    /\ hh \in Seq({Height(Own[n], n) : n \in 1..k})
    /\ hh # << >> /\ hh[1].height = 1
    /\ \A i, j \in DOMAIN hh : i < j => hh[i].height < hh[j].height

\* The upgrades of epoch n are those of the epoch before, or have a height.
Accounted(hh, n) ==
    \/ n = 1
    \/ Upgrades[Own[n]] = Upgrades[Own[n - 1]]
    \/ \E i \in DOMAIN hh : hh[i].height = n

\* The heights serve for every epoch below the fill pointer.
Serves(hh, low, k) == Heights(hh, k) /\ \A n \in 1..(low - 1) : Accounted(hh, n)

StoredUpTo(history, k) == \A n \in Epoch : history[n] # None <=> n <= k

\* Tables that belong together: the epochs are stored in their order, up to k.
Tidy(results, history, hh, low, epoch, k) ==
    /\ StoredUpTo(history, k)
    /\ \A n \in Epoch : results[n] # None => n <= k + 1
    /\ Serves(hh, low, k)
    /\ epoch < low /\ low <= k + 1

ConfigMem ==
    /\ engine = Idle /\ blockProc = Idle
    /\ \E k \in Epoch : Tidy(LlrEpochResults, BlockEpochStateHistory, UpgradeHeights,
                             llrState.LowestEpochToFill, current.epoch, k)
    /\ ep.pc # "cache" => heightsCache = UpgradeHeights
    /\ Writing =>
           /\ ep.idx # 1 /\ ep.er = Own[ep.idx]
           /\ StoredUpTo(BlockEpochStateHistory, ep.idx)
           /\ llrState.LowestEpochToFill <= ep.idx
           /\ ep.pc # "fill" => Serves(heightsCache, llrState.LowestEpochToFill, ep.idx - 1)
    /\ ep.pc = "add" => ep.hh = Append(heightsCache, Height(ep.er, ep.idx))
    /\ ep.pc = "cache" => UpgradeHeights = ep.hh
    /\ ep.pc \in {"cache", "fill"} => Accounted(UpgradeHeights, ep.idx)

ConfigInv ==
    /\ ConfigMem
    /\ \E k \in Epoch : Tidy(disk.results, disk.history, disk.heights,
                             disk.llrState.LowestEpochToFill, disk.current.epoch, k)

\* The greatest element of a nonempty bounded set of naturals is one.
LEMMA MaxOfNaturals ==
    ASSUME NEW S \in SUBSET Nat, S # {}, NEW b \in Nat, \A y \in S : y <= b
    PROVE  Max(S) \in S /\ \A y \in S : y <= Max(S)
<1> DEFINE B == {x \in Nat : \A y \in S : y <= x}
           m == Min(B)
<1>1. B \in SUBSET Nat /\ b \in B
  BY Zenon
<1>2. m \in B /\ \A x \in B : m <= x
  BY Zenon, <1>1, MinOfNaturals
<1>3. m \in Nat /\ \A y \in S : y <= m
  BY Zenon, <1>2
<1> HIDE DEF m
<1>4. m \in S
  <2> SUFFICES ASSUME m \notin S PROVE FALSE
    BY Zenon
  <2>1. PICK z \in S : TRUE
    BY Zenon
  <2>2. m - 1 \in Nat /\ \A y \in S : y <= m - 1
    BY <1>3, <2>1
  <2>3. m - 1 \in B
    BY Zenon, <2>2
  <2>4. m <= m - 1
    BY Zenon, <1>2, <2>3
  <2> QED
    BY <1>3, <2>4
<1>5. \A y \in S : m >= y
  BY Zenon, <1>3
<1>6. Max(S) \in S /\ \A y \in S : Max(S) >= y
  BY Zenon, <1>4, <1>5 DEF Max
<1> QED
  BY Zenon, <1>6

\* What an entry of the heights is.
LEMMA HeightsFacts ==
    ASSUME NEW k \in Epoch, NEW hh, Heights(hh, k)
    PROVE  /\ Len(hh) \in Nat \ {0} /\ DOMAIN hh = 1..Len(hh)
           /\ hh[1].height = 1
           /\ \A i \in DOMAIN hh : /\ hh[i].height \in Epoch /\ hh[i].height <= k
                                   /\ hh[i].upgrades = Upgrades[Own[hh[i].height]]
           /\ \A i, j \in DOMAIN hh : i < j => hh[i].height < hh[j].height
<1> DEFINE H == {Height(Own[n], n) : n \in 1..k}
<1>1. hh \in Seq(H) /\ hh # << >> /\ hh[1].height = 1
  BY Zenon DEF Heights
<1>2. ASSUME NEW e \in H
      PROVE  e.height \in Epoch /\ e.height <= k /\ e.upgrades = Upgrades[Own[e.height]]
  BY ConstantsAssumption DEF Height, Epoch
<1> HIDE DEF H
<1>3. Len(hh) \in Nat /\ DOMAIN hh = 1..Len(hh) /\ \A i \in DOMAIN hh : hh[i] \in H
  BY <1>1
<1>4. Len(hh) # 0
  BY <1>1
<1>5. \A i, j \in DOMAIN hh : i < j => hh[i].height < hh[j].height
  BY Zenon DEF Heights
<1> QED
  BY Zenon, <1>1, <1>2, <1>3, <1>4, <1>5

\* The config over heights that serve gives every epoch below the pointer its
\* own upgrades.
LEMMA ServesRight ==
    ASSUME UpgradesGrow, NEW k \in Epoch, NEW low \in Nat, NEW hh, Serves(hh, low, k),
           NEW c \in Epoch, c < low, NEW u
    PROVE  LET h == ActivationHeight(hh, u)
           IN  (h # None /\ h <= c) <=> u \in Upgrades[Own[c]]
<1> DEFINE S   == {i \in DOMAIN hh : u \notin hh[i].upgrades}
           off == Max({0} \cup S)
           h   == ActivationHeight(hh, u)
           on(n) == u \in Upgrades[Own[n]]
<1>1. /\ Len(hh) \in Nat \ {0} /\ DOMAIN hh = 1..Len(hh)
      /\ hh[1].height = 1
      /\ \A i \in DOMAIN hh : /\ hh[i].height \in Epoch /\ hh[i].height <= k
                              /\ hh[i].upgrades = Upgrades[Own[hh[i].height]]
      /\ \A i, j \in DOMAIN hh : i < j => hh[i].height < hh[j].height
  BY Zenon, HeightsFacts DEF Serves
<1>2. Epoch \in SUBSET Nat /\ \A n \in Epoch : n >= 1
  BY ConstantsAssumption DEF Epoch
<1>3. \A m, n \in Epoch : m <= n /\ on(m) => on(n)
  BY Zenon DEF UpgradesGrow
<1>4. PICK len, g : /\ len = Len(hh) /\ len \in Nat \ {0}
                    /\ g = [i \in 1..len |-> hh[i].height]
  BY Zenon, <1>1
<1>5. /\ DOMAIN hh = 1..len /\ g[1] = 1 /\ g \in [1..len -> Epoch]
      /\ \A i \in 1..len : hh[i].height = g[i]
      /\ \A i, j \in 1..len : i < j => g[i] < g[j]
      /\ \A i \in 1..len : i \in S <=> ~on(g[i])
  <2>1. DOMAIN hh = 1..len
    BY Zenon, <1>1, <1>4
  <2>2. \A i \in 1..len : g[i] = hh[i].height
    BY Zenon, <1>4
  <2>3. 1 \in 1..len
    BY <1>4
  <2>4. \A i \in 1..len : hh[i].height \in Epoch
    BY Zenon, <1>1, <2>1
  <2>5. g \in [1..len -> Epoch]
    BY Zenon, <1>4, <2>4
  <2>6. ASSUME NEW i \in 1..len, NEW j \in 1..len, i < j PROVE g[i] < g[j]
    <3>1. g[i] = hh[i].height /\ g[j] = hh[j].height /\ i \in DOMAIN hh /\ j \in DOMAIN hh
      BY Zenon, <2>1, <2>2
    <3>2. hh[i].height < hh[j].height
      BY Zenon, <1>1, <2>6, <3>1
    <3> QED
      BY Zenon, <3>1, <3>2
  <2>7. \A i \in 1..len : i \in S <=> ~on(g[i])
    BY Zenon, <1>1, <2>1, <2>2
  <2>8. g[1] = 1
    BY Zenon, <1>1, <2>2, <2>3
  <2> HIDE DEF S, on
  <2> QED
    BY Zenon, <2>1, <2>2, <2>5, <2>6, <2>7, <2>8
<1>6. off \in {0} \cup S /\ \A i \in S : i <= off
  <2>1. {0} \cup S \in SUBSET Nat /\ {0} \cup S # {} /\ \A i \in {0} \cup S : i <= len
    BY <1>4, <1>5
  <2> HIDE DEF S
  <2>2. Max({0} \cup S) \in {0} \cup S /\ \A i \in {0} \cup S : i <= Max({0} \cup S)
    BY Zenon, <1>4, <2>1, MaxOfNaturals
  <2> QED
    BY Zenon, <2>2
<1>7. h = IF off = len THEN None ELSE IF off = 0 THEN 0 ELSE hh[off + 1].height
  BY Zenon, <1>4 DEF ActivationHeight
<1>8. S \subseteq 1..len
  BY Zenon, <1>5
<1> HIDE DEF S, off, h, on
<1>9. off \in 0..len /\ off + 1 \notin S
  BY <1>4, <1>6, <1>8
<1>10. off < len => off + 1 \in 1..len /\ on(g[off + 1])
  <2> SUFFICES ASSUME off < len PROVE off + 1 \in 1..len /\ on(g[off + 1])
    BY Zenon
  <2>1. off + 1 \in 1..len
    BY <1>4, <1>9
  <2> QED
    BY Zenon, <1>5, <1>9, <2>1
<1>11. c \in Nat /\ c \in 1..(low - 1)
  BY <1>2
<1>12. ASSUME on(c) PROVE h # None /\ h <= c
  <2> DEFINE N == {n \in 1..c : on(n)}
             m == Min(N)
  <2>1. N \in SUBSET Nat /\ c \in N
    BY <1>11, <1>12
  <2>2. m \in N /\ \A n \in N : m <= n
    BY Zenon, <2>1, MinOfNaturals
  <2>3. m \in 1..c /\ on(m) /\ \A n \in 1..c : on(n) => m <= n
    BY Zenon, <2>2
  <2> HIDE DEF m, N
  <2>4. m \in Epoch /\ m \in Nat /\ m \in 1..(low - 1)
    BY <1>11, <2>3, ConstantsAssumption DEF Epoch
  <2>5. CASE m = 1
    <3>1. ASSUME NEW i \in 1..len PROVE i \notin S
      <4>1. g[i] \in Epoch /\ m <= g[i]
        BY Zenon, <1>2, <1>5, <2>5
      <4> QED
        BY Zenon, <1>3, <1>5, <2>3, <2>4, <4>1
    <3>2. off = 0
      BY Zenon, <1>6, <1>8, <3>1
    <3>3. h = 0
      BY Zenon, <1>4, <1>7, <3>2
    <3> QED
      BY <1>11, <3>3, ConstantsAssumption
  <2>6. CASE m # 1
    <3>1. m - 1 \in 1..c /\ ~(m <= m - 1)
      BY <1>11, <2>3, <2>4, <2>6
    <3>2. ~on(m - 1)
      BY Zenon, <2>3, <3>1
    <3>3. Upgrades[Own[m]] # Upgrades[Own[m - 1]]
      BY Zenon, <2>3, <3>2 DEF on
    <3>4. PICK i \in 1..len : g[i] = m
      <4>1. Accounted(hh, m)
        BY Zenon, <2>4 DEF Serves
      <4>2. PICK i \in DOMAIN hh : hh[i].height = m
        BY Zenon, <2>6, <3>3, <4>1 DEF Accounted
      <4> QED
        BY Zenon, <1>5, <4>2
    <3>5. ASSUME NEW j \in S PROVE j < i
      <4>1. j \in 1..len /\ ~on(g[j]) /\ g[j] \in Epoch
        BY Zenon, <1>5, <1>8
      <4>2. ~(m <= g[j])
        BY Zenon, <1>3, <2>3, <2>4, <4>1
      <4>3. g[j] < m
        <5>1. g[j] \in Nat
          BY Zenon, <1>2, <4>1
        <5> QED
          BY <2>4, <4>2, <5>1
      <4>4. ~(i < j) /\ i # j
        <5>1. i < j => m < g[j]
          BY Zenon, <1>5, <3>4, <4>1
        <5>2. i = j => m = g[j]
          BY Zenon, <3>4
        <5>3. g[j] \in Nat
          BY Zenon, <1>2, <4>1
        <5> QED
          BY <2>4, <4>3, <5>1, <5>2, <5>3
      <4> QED
        BY <4>1, <4>4
    <3>6. off < i
      BY <1>6, <3>4, <3>5
    <3>7. off + 1 \in 1..len /\ off # len /\ (off + 1 = i \/ off + 1 < i)
      BY <1>4, <1>9, <3>4, <3>6
    <3>8. g[off + 1] \in Nat /\ g[off + 1] <= m
      <4>1. g[off + 1] \in Epoch
        BY Zenon, <1>5, <3>7
      <4>2. g[off + 1] = m \/ g[off + 1] < m
        BY Zenon, <1>5, <3>4, <3>7
      <4>3. g[off + 1] \in Nat
        BY Zenon, <1>2, <4>1
      <4> QED
        BY <2>4, <4>2, <4>3
    <3>9. h = 0 \/ h = g[off + 1]
      BY Zenon, <1>5, <1>7, <3>7
    <3>10. h \in Nat /\ h <= c
      BY <1>11, <2>3, <3>8, <3>9
    <3> QED
      BY Zenon, <3>10, ConstantsAssumption
  <2> QED
    BY Zenon, <2>5, <2>6
<1>13. ASSUME ~on(c), h # None, h <= c PROVE FALSE
  <2>1. 1 \in 1..len /\ 1 \in Epoch /\ 1 <= c
    BY <1>2, <1>4, ConstantsAssumption DEF Epoch
  <2>2. 1 \in S
    BY Zenon, <1>3, <1>5, <1>13, <2>1
  <2>3. off # 0 /\ off # len
    <3>1. 1 <= off
      BY Zenon, <1>6, <2>2
    <3> QED
      BY <1>7, <1>9, <1>13, <3>1
  <2>4. off + 1 \in 1..len /\ on(g[off + 1])
    BY <1>4, <1>9, <1>10, <2>3
  <2>5. h = g[off + 1] /\ g[off + 1] \in Epoch
    BY Zenon, <1>5, <1>7, <2>3, <2>4
  <2> QED
    BY Zenon, <1>3, <1>13, <2>4, <2>5
<1> QED
  BY Zenon, <1>12, <1>13 DEF on, h

\* The next epoch's height at the end of the heights.
LEMMA AppendHeights ==
    ASSUME NEW n \in Epoch, n - 1 \in Epoch, NEW low \in Nat, low <= n,
           NEW hh, Serves(hh, low, n - 1)
    PROVE  LET new == Append(hh, Height(Own[n], n))
           IN  Serves(new, low, n) /\ Accounted(new, n)
<1> DEFINE new == Append(hh, Height(Own[n], n))
           H == {Height(Own[i], i) : i \in 1..n}
           G == {Height(Own[i], i) : i \in 1..(n - 1)}
           e == Height(Own[n], n)
<1>1. /\ Len(hh) \in Nat \ {0} /\ DOMAIN hh = 1..Len(hh)
      /\ hh[1].height = 1
      /\ \A i \in DOMAIN hh : hh[i].height \in Epoch /\ hh[i].height <= n - 1
      /\ \A i, j \in DOMAIN hh : i < j => hh[i].height < hh[j].height
  BY Zenon, HeightsFacts DEF Serves
<1>2. n \in Nat /\ n >= 1 /\ Epoch \in SUBSET Nat
  BY ConstantsAssumption DEF Epoch
<1>3. G \subseteq H /\ e \in H
  BY <1>2
<1>4. hh \in Seq(G)
  BY Zenon DEF Serves, Heights
<1>5. e.height = n
  BY Zenon DEF Height
<1> HIDE DEF G, H, e
<1>6. hh \in Seq(H)
  BY <1>3, <1>4
<1>7. /\ Append(hh, e) \in Seq(H) /\ DOMAIN Append(hh, e) = 1..(Len(hh) + 1)
      /\ \A i \in DOMAIN hh : i \in DOMAIN Append(hh, e) /\ Append(hh, e)[i] = hh[i]
      /\ Append(hh, e)[Len(hh) + 1] = e
      /\ Append(hh, e) # << >>
  BY <1>1, <1>3, <1>6
<1>8. PICK x : x = Append(hh, e)
  BY Zenon
<1>9. /\ x \in Seq(H) /\ DOMAIN x = 1..(Len(hh) + 1) /\ x # << >>
      /\ \A i \in DOMAIN hh : i \in DOMAIN x /\ x[i] = hh[i]
      /\ x[Len(hh) + 1] = e
  BY Zenon, <1>7, <1>8
<1>10. x[1].height = 1
  BY <1>1, <1>9
<1>11. \A i, j \in DOMAIN x : i < j => x[i].height < x[j].height
  <2> SUFFICES ASSUME NEW i \in DOMAIN x, NEW j \in DOMAIN x, i < j
               PROVE  x[i].height < x[j].height
    BY Zenon
  <2>1. i \in DOMAIN hh
    BY <1>1, <1>9
  <2>2. CASE j \in DOMAIN hh
    BY Zenon, <1>1, <1>9, <2>1, <2>2
  <2>3. CASE j = Len(hh) + 1
    <3>1. x[i].height \in Nat /\ x[i].height <= n - 1 /\ x[j].height = n
      BY Zenon, <1>1, <1>2, <1>5, <1>9, <2>1, <2>3
    <3> QED
      BY <1>2, <3>1
  <2> QED
    BY <1>1, <1>9, <2>2, <2>3
<1>12. Heights(x, n)
  BY Zenon, <1>9, <1>10, <1>11 DEF Heights, H
<1>13. \A m : Accounted(hh, m) => Accounted(x, m)
  BY Zenon, <1>9 DEF Accounted
<1>14. Len(hh) + 1 \in DOMAIN x /\ x[Len(hh) + 1].height = n
  BY <1>1, <1>5, <1>9
<1>15. Accounted(x, n)
  BY Zenon, <1>14 DEF Accounted
<1> QED
  BY Zenon, <1>8, <1>12, <1>13, <1>15 DEF Serves, e

LEMMA InitConfig == Init => ConfigInv
<1> SUFFICES ASSUME Init PROVE ConfigInv
  BY Zenon
<1>1. MaxEpoch \in Nat /\ MaxEpoch > 1 /\ None \notin Record /\ Own \in [Epoch -> Record]
  BY Zenon, ConstantsAssumption
<1>2. 1 \in Epoch /\ Own[1] # None
  BY <1>1 DEF Epoch
<1>3. /\ LlrEpochResults = [n \in Epoch |-> None]
      /\ BlockEpochStateHistory = [n \in Epoch |-> IF n = 1 THEN Own[1] ELSE None]
      /\ UpgradeHeights = << Height(Own[1], 1) >> /\ heightsCache = UpgradeHeights
      /\ llrState = [LowestEpochToDecide |-> 2, LowestEpochToFill |-> 2]
      /\ current = [epoch |-> 1, es |-> Own[1]]
      /\ engine = Idle /\ ep = Idle /\ blockProc = Idle /\ disk = Durable
  BY ZenonT(30) DEF Init, Height
<1>4. StoredUpTo(BlockEpochStateHistory, 1) /\ \A n \in Epoch : LlrEpochResults[n] = None
  BY <1>1, <1>2, <1>3 DEF StoredUpTo, Epoch
<1>5. Heights(UpgradeHeights, 1)
  <2>1. Height(Own[1], 1) \in {Height(Own[n], n) : n \in 1..1} /\ Height(Own[1], 1).height = 1
    BY DEF Height
  <2>2. PICK e : e = Height(Own[1], 1)
    BY Zenon
  <2>3. /\ <<e>> \in Seq({Height(Own[n], n) : n \in 1..1}) /\ <<e>> # << >> /\ <<e>>[1] = e
        /\ DOMAIN <<e>> = {1}
    BY <2>1, <2>2
  <2>4. \A i, j \in {1} : ~(i < j)
    OBVIOUS
  <2> QED
    BY Zenon, <1>3, <2>1, <2>2, <2>3, <2>4 DEF Heights
<1>6. Serves(UpgradeHeights, 2, 1)
  <2>1. \A n \in 1..(2 - 1) : n = 1
    OBVIOUS
  <2> QED
    BY Zenon, <1>5, <2>1 DEF Serves, Accounted
<1>7. 1 < 2 /\ 2 <= 1 + 1
  OBVIOUS
<1>8. Tidy(LlrEpochResults, BlockEpochStateHistory, UpgradeHeights, 2, 1, 1)
  BY Zenon, <1>4, <1>6, <1>7 DEF Tidy
<1>9. llrState.LowestEpochToFill = 2 /\ current.epoch = 1 /\ ep.pc = "idle"
  BY Zenon, <1>3 DEF Idle
<1>10. ConfigMem
  <2>1. /\ ep.pc \notin {"add", "cache", "fill"} /\ ~Writing
        /\ ep.pc # "add" /\ ep.pc # "cache"
    BY Zenon, <1>9 DEF Writing
  <2> QED
    BY Zenon, <1>2, <1>3, <1>8, <1>9, <2>1 DEF ConfigMem
<1>11. /\ disk.results = LlrEpochResults /\ disk.history = BlockEpochStateHistory
       /\ disk.heights = UpgradeHeights /\ disk.llrState = llrState /\ disk.current = current
  BY Zenon, <1>3 DEF Durable
<1> QED
  BY Zenon, <1>2, <1>8, <1>9, <1>10, <1>11 DEF ConfigInv

\* A step that leaves the tables and is not about a record keeps them tidy.
LEMMA ConfigSame ==
    ASSUME ConfigMem,
           UNCHANGED <<LlrEpochResults, BlockEpochStateHistory, UpgradeHeights, heightsCache>>,
           UNCHANGED <<llrState, current, engine, blockProc>>,
           UNCHANGED ep \/ (~Writing /\ ~Writing')
    PROVE  ConfigMem'
<1>1. CASE UNCHANGED ep
  <2>1. /\ LlrEpochResults' = LlrEpochResults
        /\ BlockEpochStateHistory' = BlockEpochStateHistory
        /\ UpgradeHeights' = UpgradeHeights /\ heightsCache' = heightsCache
        /\ llrState' = llrState /\ current' = current
        /\ engine' = engine /\ blockProc' = blockProc /\ ep' = ep
    BY Zenon, <1>1
  <2>2. Writing' <=> Writing
    BY Zenon, <2>1 DEF Writing
  <2> QED
    BY ZenonT(30), <2>1, <2>2 DEF ConfigMem
<1>2. CASE ~Writing /\ ~Writing'
  <2>1. /\ ep.pc # "cache" /\ ep'.pc # "add" /\ ep'.pc # "cache"
        /\ ep'.pc \notin {"cache", "fill"}
    BY Zenon, <1>2 DEF Writing
  <2>2. /\ LlrEpochResults' = LlrEpochResults
        /\ BlockEpochStateHistory' = BlockEpochStateHistory
        /\ UpgradeHeights' = UpgradeHeights /\ heightsCache' = heightsCache
        /\ llrState' = llrState /\ current' = current
        /\ engine' = engine /\ blockProc' = blockProc
    BY Zenon
  <2> QED
    BY ZenonT(30), <1>2, <2>1, <2>2 DEF ConfigMem
<1> QED
  BY Zenon, <1>1, <1>2

\* Away from a record only the tables matter.
LEMMA ConfigIdle ==
    ASSUME engine' = Idle, blockProc' = Idle, ~Writing', heightsCache' = UpgradeHeights',
           NEW k \in Epoch,
           Tidy(LlrEpochResults, BlockEpochStateHistory, UpgradeHeights,
                llrState.LowestEpochToFill, current.epoch, k)'
    PROVE  ConfigMem'
<1>1. ep'.pc # "add" /\ ep'.pc # "cache" /\ ep'.pc \notin {"cache", "fill"}
  BY Zenon DEF Writing
<1> QED
  BY Zenon, <1>1 DEF ConfigMem

\* The numbers the pointers and epochs are.
LEMMA ConfigTypes ==
    ASSUME TypeInv, FillInv
    PROVE  /\ llrState.LowestEpochToFill \in Nat /\ current.epoch \in Nat
           /\ Epoch \in SUBSET Nat /\ \A n \in Epoch : n >= 1
<1>1. llrState.LowestEpochToFill \in 2..(MaxEpoch + 1) /\ current.epoch \in Epoch
  BY Zenon DEF FillInv, FillMem, Filled, TypeInv, Tables
<1>2. MaxEpoch \in Nat
  BY Zenon, ConstantsAssumption
<1> QED
  BY <1>1, <1>2 DEF Epoch

\* A vote that is counted decides at most the epoch after the last stored one.
LEMMA VoteConfig ==
    ASSUME TypeInv, FillInv, ConfigMem, NEW ev \in EVs, Countable(ev), processEpochVote(ev),
           UNCHANGED <<engine, blockProc>>, ~Writing, ~Writing'
    PROVE  ConfigMem'
<1> DEFINE n == ev.epoch
<1>1. PICK k \in Epoch : Tidy(LlrEpochResults, BlockEpochStateHistory, UpgradeHeights,
                              llrState.LowestEpochToFill, current.epoch, k)
  BY Zenon DEF ConfigMem
<1>2. n \in Epoch /\ n - 1 \in Epoch
  BY VotesAssumption, ConstantsAssumption DEF Epoch
<1>3. /\ llrState.LowestEpochToFill \in Nat /\ current.epoch \in Nat
      /\ Epoch \in SUBSET Nat
  BY Zenon, ConfigTypes
<1>4. n <= k + 1
  <2>1. n \in Nat /\ k \in Nat
    BY Zenon, <1>2, <1>3
  <2>2. CASE n - 1 = current.epoch
    BY <1>1, <1>3, <2>1, <2>2 DEF Tidy
  <2>3. CASE n - 1 # current.epoch
    <3>1. BlockEpochStateHistory[n - 1] # None
      BY Zenon, <2>3 DEF Countable, GetHistoryEpochState
    <3>2. n - 1 <= k
      BY Zenon, <1>1, <1>2, <3>1 DEF Tidy, StoredUpTo
    <3> QED
      BY <2>1, <3>2
  <2> QED
    BY Zenon, <2>2, <2>3
<1>5. /\ UNCHANGED <<BlockEpochStateHistory, UpgradeHeights, heightsCache, current>>
      /\ \/ UNCHANGED <<LlrEpochResults, llrState>>
         \/ /\ LlrEpochResults' = [LlrEpochResults EXCEPT ![n] = ev.vote]
            /\ \E x : llrState' = [llrState EXCEPT !.LowestEpochToDecide = x]
  BY Zenon DEF processEpochVote, processRawEpochVote
<1>6. llrState'.LowestEpochToFill = llrState.LowestEpochToFill
  BY Zenon, <1>5 DEF FillInv, FillMem, Filled
<1>7. \A m \in Epoch : LlrEpochResults'[m] # None => m <= k + 1
  <2>1. \A m \in Epoch : LlrEpochResults[m] # None => m <= k + 1
    BY Zenon, <1>1 DEF Tidy
  <2>2. \A m \in Epoch : m # n => LlrEpochResults'[m] = LlrEpochResults[m]
    BY Zenon, <1>5 DEF TypeInv, Tables
  <2> QED
    BY Zenon, <1>4, <2>1, <2>2
<1>8. Tidy(LlrEpochResults, BlockEpochStateHistory, UpgradeHeights,
           llrState.LowestEpochToFill, current.epoch, k)'
  BY Zenon, <1>1, <1>5, <1>6, <1>7 DEF Tidy
<1>9. engine' = Idle /\ blockProc' = Idle /\ heightsCache' = UpgradeHeights'
  <2>1. ep.pc # "cache"
    BY Zenon DEF Writing
  <2> QED
    BY Zenon, <1>5, <2>1 DEF ConfigMem
<1> QED
  BY Zenon, <1>8, <1>9, ConfigIdle

\* A record is stored right after the epochs that are.
LEMMA RecordConfig ==
    ASSUME TypeInv, TrustInv, FillInv, ConfigMem, ProcessFullEpochRecord
    PROVE  ConfigMem'
<1>0. PICK n : n = ep.pack.idx
  BY Zenon
<1>1. PICK k \in Epoch : Tidy(LlrEpochResults, BlockEpochStateHistory, UpgradeHeights,
                              llrState.LowestEpochToFill, current.epoch, k)
  BY Zenon DEF ConfigMem
<1>2. ep.pack \in Packs /\ ~Writing
  BY SMTT(30) DEF ProcessFullEpochRecord, TypeInv, EpShape, Idle, Writing
<1>3. n \in Epoch \ {1} /\ n - 1 \in Epoch /\ ep.pack.record # None
  <2>1. n \in Epoch \ {1} /\ ep.pack.record \in Record
    BY Zenon, <1>0, <1>2, VotesAssumption
  <2>2. ep.pack.record # None
    BY Zenon, <2>1, ConstantsAssumption
  <2> QED
    BY <2>1, <2>2, ConstantsAssumption DEF Epoch
<1>4. /\ UNCHANGED <<LlrEpochResults, UpgradeHeights, heightsCache, llrState, current>>
      /\ UNCHANGED <<engine, blockProc>>
  BY Zenon DEF ProcessFullEpochRecord
<1>5. CASE ep' = Idle /\ UNCHANGED BlockEpochStateHistory
  <2>1. ~Writing'
    BY Zenon, <1>5 DEF Writing, Idle
  <2> QED
    BY Zenon, <1>2, <1>4, <1>5, <2>1, ConfigSame
<1>6. CASE /\ BlockEpochStateHistory[n] = None /\ LlrEpochResults[n] = ep.pack.record
           /\ BlockEpochStateHistory' = [BlockEpochStateHistory EXCEPT ![n] = ep.pack.record]
           /\ ep' = [pc |-> "record", idx |-> n, er |-> ep.pack.record]
  <2>1. /\ llrState.LowestEpochToFill \in Nat /\ current.epoch \in Nat
        /\ n \in Nat /\ k \in Nat
    BY Zenon, <1>3, ConfigTypes
  <2>2. LlrEpochResults[n] # None
    BY Zenon, <1>3, <1>6
  <2>3. n <= k + 1 /\ ~(n <= k)
    BY Zenon, <1>1, <1>3, <1>6, <2>2 DEF Tidy, StoredUpTo
  <2>4. n = k + 1
    BY <2>1, <2>3
  <2>5. \A m \in Epoch : BlockEpochStateHistory'[m] =
            IF m = n THEN ep.pack.record ELSE BlockEpochStateHistory[m]
    BY Zenon, <1>3, <1>6 DEF TypeInv, Tables
  <2>6. \A m \in Epoch : m <= n <=> m <= k \/ m = n
    BY <2>1, <2>4 DEF Epoch
  <2>7. StoredUpTo(BlockEpochStateHistory', n)
    BY Zenon, <1>1, <1>3, <2>5, <2>6 DEF Tidy, StoredUpTo
  <2>8. ep.pack.record = Own[n]
    <3>1. LlrEpochResults[n] \in {Own[n], None}
      BY Zenon, <1>3 DEF TrustInv, Trust
    <3> QED
      BY Zenon, <1>6, <2>2, <3>1
  <2>9. llrState.LowestEpochToFill <= n /\ current.epoch < llrState.LowestEpochToFill
    BY Zenon, <1>1, <2>4 DEF Tidy
  <2>10. \A m \in Epoch : LlrEpochResults[m] # None => m <= n + 1
    <3>1. \A m \in Epoch : m <= k + 1 => m <= n + 1
      BY <2>1, <2>4 DEF Epoch
    <3> QED
      BY Zenon, <1>1, <3>1 DEF Tidy
  <2>11. Serves(UpgradeHeights, llrState.LowestEpochToFill, n - 1)
    <3>1. n - 1 = k
      BY <2>1, <2>4
    <3> QED
      BY Zenon, <1>1, <3>1 DEF Tidy
  <2>12. Serves(UpgradeHeights, llrState.LowestEpochToFill, n)
    <3> DEFINE G == {Height(Own[i], i) : i \in 1..(n - 1)}
               H == {Height(Own[i], i) : i \in 1..n}
    <3>1. G \subseteq H
      BY <2>1
    <3>2. UpgradeHeights \in Seq(G)
      BY Zenon, <2>11 DEF Serves, Heights
    <3> HIDE DEF G, H
    <3>3. UpgradeHeights \in Seq(H)
      BY <3>1, <3>2
    <3> QED
      BY Zenon, <2>11, <3>3 DEF Serves, Heights, H
  <2>13. llrState.LowestEpochToFill <= n + 1
    BY <2>1, <2>9
  <2>14. Tidy(LlrEpochResults, BlockEpochStateHistory, UpgradeHeights,
              llrState.LowestEpochToFill, current.epoch, n)'
    BY Zenon, <1>4, <2>7, <2>9, <2>10, <2>12, <2>13 DEF Tidy
  <2>15. ep'.pc = "record" /\ ep'.idx = n /\ ep'.er = ep.pack.record
    BY Zenon, <1>6
  <2>16. ep.pc # "cache" /\ ep'.pc # "add" /\ ep'.pc # "cache" /\ ep'.pc \notin {"cache", "fill"}
    BY Zenon, <1>2, <2>15 DEF Writing
  <2>17. heightsCache' = UpgradeHeights' /\ engine' = Idle /\ blockProc' = Idle
    BY Zenon, <1>4, <2>16 DEF ConfigMem
  <2>18. /\ ep'.idx # 1 /\ ep'.er = Own[ep'.idx]
         /\ StoredUpTo(BlockEpochStateHistory', ep'.idx)
         /\ llrState'.LowestEpochToFill <= ep'.idx
         /\ Serves(heightsCache', llrState'.LowestEpochToFill, ep'.idx - 1)
    BY Zenon, <1>3, <1>4, <2>7, <2>8, <2>9, <2>11, <2>15, <2>17
  <2> QED
    BY ZenonT(30), <1>3, <2>14, <2>16, <2>17, <2>18 DEF ConfigMem
<1> QED
  BY Zenon, <1>0, <1>5, <1>6 DEF ProcessFullEpochRecord, Accepts

\* While a record is written, its epoch is the last stored one.
LEMMA WritingFacts ==
    ASSUME TypeInv, FillInv, ConfigMem, Writing
    PROVE  /\ ep.idx \in Epoch /\ ep.idx \in Nat /\ ep.idx - 1 \in Epoch
           /\ Tidy(LlrEpochResults, BlockEpochStateHistory, UpgradeHeights,
                   llrState.LowestEpochToFill, current.epoch, ep.idx)
<1>1. PICK k \in Epoch : Tidy(LlrEpochResults, BlockEpochStateHistory, UpgradeHeights,
                              llrState.LowestEpochToFill, current.epoch, k)
  BY Zenon DEF ConfigMem
<1>2. ep.idx \in Epoch
  BY DEF TypeInv, EpShape, Writing, Idle
<1>3. ep.idx # 1 /\ StoredUpTo(BlockEpochStateHistory, ep.idx)
  BY Zenon DEF ConfigMem
<1>4. ep.idx \in Nat /\ ep.idx - 1 \in Epoch /\ k \in Nat /\ ep.idx <= ep.idx /\ k <= k
  BY <1>2, <1>3, ConstantsAssumption DEF Epoch
<1>5. ep.idx <= k /\ k <= ep.idx
  BY Zenon, <1>1, <1>2, <1>3, <1>4 DEF Tidy, StoredUpTo
<1>6. ep.idx = k
  BY <1>4, <1>5
<1> QED
  BY Zenon, <1>1, <1>2, <1>4, <1>6

\* WriteUpgradeHeight knows the epoch before, and adds a height unless it has
\* the same upgrades.
LEMMA WriteConfig ==
    ASSUME TypeInv, TrustInv, FillInv, ConfigMem, WriteUpgradeHeight
    PROVE  ConfigMem'
<1>1. ep.pc = "record" /\ Writing
  BY Zenon DEF WriteUpgradeHeight, Writing
<1>2. PICK n, er : n = ep.idx /\ er = ep.er
  BY Zenon
<1>3. ep = [pc |-> "record", idx |-> n, er |-> er]
  BY <1>1, <1>2 DEF TypeInv, EpShape, Idle
<1>4. /\ n \in Epoch /\ n \in Nat /\ n - 1 \in Epoch
      /\ Tidy(LlrEpochResults, BlockEpochStateHistory, UpgradeHeights,
              llrState.LowestEpochToFill, current.epoch, n)
  BY Zenon, <1>1, <1>2, WritingFacts
<1>5. /\ n # 1 /\ er = Own[n] /\ StoredUpTo(BlockEpochStateHistory, n)
      /\ llrState.LowestEpochToFill <= n /\ heightsCache = UpgradeHeights
      /\ Serves(heightsCache, llrState.LowestEpochToFill, n - 1)
      /\ engine = Idle /\ blockProc = Idle
  <2>1. ep.pc # "fill" /\ ep.pc # "cache"
    BY Zenon, <1>1
  <2> QED
    BY Zenon, <1>1, <1>2, <2>1 DEF ConfigMem
<1>6. /\ LlrEpochResults' = LlrEpochResults
      /\ BlockEpochStateHistory' = BlockEpochStateHistory
      /\ UpgradeHeights' = UpgradeHeights /\ heightsCache' = heightsCache
      /\ llrState' = llrState /\ current' = current
      /\ engine' = engine /\ blockProc' = blockProc
  BY Zenon DEF WriteUpgradeHeight, tables
<1>7. Tidy(LlrEpochResults, BlockEpochStateHistory, UpgradeHeights,
           llrState.LowestEpochToFill, current.epoch, n)'
  BY Zenon, <1>4, <1>6
<1>8. CASE ep' = [pc |-> "add", idx |-> n, er |-> er,
                  hh |-> Append(heightsCache, Height(er, n))]
  <2>1. /\ ep'.pc = "add" /\ ep'.idx = n /\ ep'.er = er
        /\ ep'.hh = Append(heightsCache, Height(er, n))
    BY Zenon, <1>8
  <2>2. ep'.pc # "cache" /\ ep'.pc \notin {"cache", "fill"}
    BY Zenon, <2>1
  <2> QED
    BY ZenonT(30), <1>4, <1>5, <1>6, <1>7, <2>1, <2>2 DEF ConfigMem
<1>9. CASE ep' = [ep EXCEPT !.pc = "fill"] /\ Upgrades[er] = Upgrades[GetHistoryEpochState(n - 1)]
           /\ GetHistoryEpochState(n - 1) # None
  <2>1. ep'.pc = "fill" /\ ep'.idx = n /\ ep'.er = er
    BY Zenon, <1>3, <1>9
  <2>2. ep'.pc # "cache" /\ ep'.pc # "add" /\ ~(ep'.pc # "fill")
    BY Zenon, <2>1
  <2>3. GetHistoryEpochState(n - 1) = Own[n - 1]
    BY Zenon, <1>4, <1>9, GroupTrusted
  <2>4. Accounted(UpgradeHeights, n)
    BY Zenon, <1>5, <1>9, <2>3 DEF Accounted
  <2>5. Accounted(UpgradeHeights', ep'.idx)
    BY Zenon, <1>6, <2>1, <2>4
  <2> QED
    BY ZenonT(30), <1>4, <1>5, <1>6, <1>7, <2>1, <2>2, <2>5 DEF ConfigMem
<1>10. GetHistoryEpochState(n - 1) # None
  <2>1. n - 1 <= n
    BY <1>4
  <2>2. BlockEpochStateHistory[n - 1] # None
    BY Zenon, <1>4, <1>5, <2>1 DEF StoredUpTo
  <2>3. current.es # None
    BY Zenon, ConstantsAssumption DEF TypeInv, Tables
  <2> QED
    BY Zenon, <2>2, <2>3 DEF GetHistoryEpochState
<1> QED
  BY Zenon, <1>2, <1>8, <1>9, <1>10 DEF WriteUpgradeHeight

\* AddUpgradeHeight writes the list it has read, with the epoch at its end.
LEMMA AddConfig ==
    ASSUME TypeInv, FillInv, ConfigMem, addUpgradeHeight
    PROVE  ConfigMem'
<1>1. ep.pc \in {"add", "cache"} /\ Writing
  BY Zenon DEF addUpgradeHeight, AddUpgradeHeight, Writing
<1>2. PICK n, er, hh : n = ep.idx /\ er = ep.er /\ hh = ep.hh
  BY Zenon
<1>3. ep = [pc |-> ep.pc, idx |-> n, er |-> er, hh |-> hh]
  BY <1>1, <1>2 DEF TypeInv, EpShape, Idle
<1>4. /\ n \in Epoch /\ n \in Nat /\ n - 1 \in Epoch
      /\ Tidy(LlrEpochResults, BlockEpochStateHistory, UpgradeHeights,
              llrState.LowestEpochToFill, current.epoch, n)
  BY Zenon, <1>1, <1>2, WritingFacts
<1>5. /\ n # 1 /\ er = Own[n] /\ StoredUpTo(BlockEpochStateHistory, n)
      /\ llrState.LowestEpochToFill <= n
      /\ Serves(heightsCache, llrState.LowestEpochToFill, n - 1)
      /\ engine = Idle /\ blockProc = Idle
  <2>1. ep.pc # "fill"
    BY Zenon, <1>1
  <2> QED
    BY Zenon, <1>1, <1>2, <2>1 DEF ConfigMem
<1>6. /\ LlrEpochResults' = LlrEpochResults
      /\ BlockEpochStateHistory' = BlockEpochStateHistory
      /\ llrState' = llrState /\ current' = current
      /\ engine' = engine /\ blockProc' = blockProc
  BY Zenon DEF addUpgradeHeight
<1>7. CASE /\ ep.pc = "add" /\ UpgradeHeights' = hh /\ ep' = [ep EXCEPT !.pc = "cache"]
           /\ heightsCache' = heightsCache
  <2>1. hh = Append(heightsCache, Height(Own[n], n))
    BY Zenon, <1>2, <1>5, <1>7 DEF ConfigMem
  <2>2. llrState.LowestEpochToFill \in Nat
    BY Zenon, ConfigTypes
  <2>3. Serves(hh, llrState.LowestEpochToFill, n) /\ Accounted(hh, n)
    <3>1. PICK low : low = llrState.LowestEpochToFill
      BY Zenon
    <3>2. PICK old : old = heightsCache
      BY Zenon
    <3>3. Serves(old, low, n - 1) /\ low \in Nat /\ low <= n
      BY Zenon, <1>5, <2>2, <3>1, <3>2
    <3>4. Serves(Append(old, Height(Own[n], n)), low, n)
          /\ Accounted(Append(old, Height(Own[n], n)), n)
      BY Zenon, <1>4, <3>3, AppendHeights
    <3> QED
      BY Zenon, <2>1, <3>1, <3>2, <3>4
  <2>4. Tidy(LlrEpochResults, BlockEpochStateHistory, UpgradeHeights,
             llrState.LowestEpochToFill, current.epoch, n)'
    BY Zenon, <1>4, <1>6, <1>7, <2>3 DEF Tidy
  <2>5. ep'.pc = "cache" /\ ep'.idx = n /\ ep'.er = er /\ ep'.hh = hh
    BY <1>3, <1>7
  <2>6. ep'.pc # "add" /\ ~(ep'.pc # "cache")
    BY Zenon, <2>5
  <2> QED
    BY ZenonT(30), <1>4, <1>5, <1>6, <1>7, <2>3, <2>4, <2>5, <2>6 DEF ConfigMem
<1>8. CASE /\ ep.pc = "cache" /\ heightsCache' = hh /\ UpgradeHeights' = UpgradeHeights
           /\ ep' = [pc |-> "fill", idx |-> n, er |-> er]
  <2>1. UpgradeHeights = hh /\ Accounted(UpgradeHeights, n)
    <3>1. ep.pc \in {"cache", "fill"}
      BY Zenon, <1>8
    <3> QED
      BY Zenon, <1>2, <1>8, <3>1 DEF ConfigMem
  <2>2. Tidy(LlrEpochResults, BlockEpochStateHistory, UpgradeHeights,
             llrState.LowestEpochToFill, current.epoch, n)'
    BY Zenon, <1>4, <1>6, <1>8
  <2>3. ep'.pc = "fill" /\ ep'.idx = n /\ ep'.er = er
    BY Zenon, <1>8
  <2>4. ep'.pc # "cache" /\ ep'.pc # "add" /\ ~(ep'.pc # "fill")
    BY Zenon, <2>3
  <2> QED
    BY ZenonT(30), <1>4, <1>5, <1>6, <1>8, <2>1, <2>2, <2>3, <2>4 DEF ConfigMem
<1> QED
  BY Zenon, <1>2, <1>7, <1>8 DEF addUpgradeHeight, AddUpgradeHeight

\* The pointer passes the epoch only when its upgrades are accounted for.
LEMMA FillConfig ==
    ASSUME TypeInv, FillInv, ConfigMem, updateLowestEpochToFill
    PROVE  ConfigMem'
<1>1. ep.pc = "fill" /\ Writing /\ ~Writing' /\ ep.pc \in {"cache", "fill"} /\ ep.pc # "cache"
  BY Zenon DEF updateLowestEpochToFill, Writing, Idle
<1>2. PICK n, low, new : /\ n = ep.idx /\ low = llrState.LowestEpochToFill
                         /\ new = llrState'.LowestEpochToFill
  BY Zenon
<1>3. /\ n \in Epoch /\ n \in Nat
      /\ Tidy(LlrEpochResults, BlockEpochStateHistory, UpgradeHeights, low,
              current.epoch, n)
  BY Zenon, <1>1, <1>2, WritingFacts
<1>4. /\ low <= n /\ heightsCache = UpgradeHeights /\ Accounted(UpgradeHeights, n)
      /\ engine = Idle /\ blockProc = Idle
  BY Zenon, <1>1, <1>2 DEF ConfigMem
<1>5. /\ LlrEpochResults' = LlrEpochResults
      /\ BlockEpochStateHistory' = BlockEpochStateHistory
      /\ UpgradeHeights' = UpgradeHeights /\ heightsCache' = heightsCache
      /\ current' = current /\ engine' = engine /\ blockProc' = blockProc
  BY Zenon DEF updateLowestEpochToFill
<1>6. low \in 2..(MaxEpoch + 1) /\ low \in Nat /\ current.epoch \in Nat
  BY Zenon, <1>2, ConfigTypes DEF FillInv, FillMem, Filled
<1>7. new = actualizeLowestIndex(low, n, Stored)
  BY Zenon, <1>2 DEF updateLowestEpochToFill, FillInv, FillMem, Filled
<1>8. PICK E \in SUBSET Epoch : E = Stored
  BY Zenon DEF Stored
<1>9. \A m \in Epoch : m \in E <=> m <= n
  BY Zenon, <1>3, <1>8 DEF Stored, Tidy, StoredUpTo
<1>10. /\ new \in 2..(MaxEpoch + 1)
       /\ low # n => new = low
       /\ low = n => /\ new > low /\ new \notin E
                     /\ \A m \in (low + 1)..(new - 1) : m \in E
  BY Zenon, <1>3, <1>6, <1>7, <1>8, ActualizeLowestIndex
<1>11. new = low \/ (low = n /\ new = n + 1)
  <2>1. ASSUME low = n, new # n + 1 PROVE FALSE
    <3>1. n + 1 \in (low + 1)..(new - 1)
      BY <1>3, <1>10, <2>1, ConstantsAssumption
    <3>2. n + 1 \in E
      BY Zenon, <1>10, <2>1, <3>1
    <3> QED
      BY <1>3, <1>9, <3>2
  <2> QED
    BY Zenon, <1>10, <2>1
<1>12. low \in Nat /\ new \in Nat /\ current.epoch < new /\ new <= n + 1
  BY <1>3, <1>4, <1>6, <1>11 DEF Tidy
<1>13. \A m \in 1..(new - 1) : m \in 1..(low - 1) \/ m = n
  BY <1>3, <1>6, <1>11
<1>14. Serves(UpgradeHeights, new, n)
  BY Zenon, <1>3, <1>4, <1>13 DEF Tidy, Serves
<1>15. Tidy(LlrEpochResults, BlockEpochStateHistory, UpgradeHeights,
            llrState.LowestEpochToFill, current.epoch, n)'
  BY Zenon, <1>2, <1>3, <1>5, <1>12, <1>14 DEF Tidy
<1> QED
  BY Zenon, <1>1, <1>3, <1>4, <1>5, <1>15, ConfigIdle

\* Every step keeps the tables in memory tidy.
LEMMA ConfigMemory ==
    ASSUME Events = FALSE, TypeInv, TrustInv, FillInv, ConfigInv, Next
    PROVE  ConfigMem'
<1>a. ConfigMem
  BY Zenon DEF ConfigInv
<1>b. /\ engine = Idle /\ blockProc = Idle
      /\ engine.pc = "idle" /\ blockProc.pc = "idle"
  BY Zenon, <1>a DEF ConfigMem, Idle
<1>c. UNCHANGED tables =>
          /\ UNCHANGED <<LlrEpochResults, BlockEpochStateHistory, UpgradeHeights, heightsCache>>
          /\ UNCHANGED <<llrState, current>>
  BY Zenon DEF tables
<1>1. CASE \E ev \in EVs : ProcessEventVote(ev)
  BY Zenon, <1>1 DEF ProcessEventVote
<1>2. CASE \E p \in Packs : Enqueue(p)
  <2>1. ~Writing /\ ~Writing'
    BY <1>2 DEF Enqueue, Writing, Idle
  <2> QED
    BY Zenon, <1>2, <1>a, <1>c, <2>1, ConfigSame DEF Enqueue
<1>3. CASE \E i \in 1..Max({Len(p.votes) : p \in Packs}) : checked(i)
  <2>1. ~Writing /\ ~Writing'
    BY Zenon, <1>3 DEF checked, Writing, TypeInv, EpShape, Idle
  <2> QED
    BY Zenon, <1>3, <1>a, <1>c, <2>1, ConfigSame DEF checked
<1>4. CASE processEV
  <2> DEFINE i  == ep.processed + 1
             ev == ep.pack.votes[i]
  <2>1. ~Writing /\ ~Writing'
    BY Zenon, <1>4 DEF processEV, Writing, TypeInv, EpShape, Idle
  <2>2. ev \in EVs
    <3>1. ep.pc = "votes" /\ i \in DOMAIN ep.verdicts
      BY Zenon, <1>4 DEF processEV
    <3>2. ep.pack \in Packs /\ DOMAIN ep.verdicts \subseteq DOMAIN ep.pack.votes
      BY <3>1 DEF TypeInv, EpShape, Idle
    <3> QED
      BY <3>1, <3>2, VotesAssumption
  <2>3. CASE ep.verdicts[i] /\ Countable(ev)
    <3>1. PICK v : v = ev
      BY Zenon
    <3>2. /\ v \in EVs /\ Countable(v) /\ processEpochVote(v)
          /\ UNCHANGED <<engine, blockProc>>
      BY Zenon, <1>4, <2>2, <2>3, <3>1 DEF processEV
    <3> QED
      BY Zenon, <1>a, <2>1, <3>2, VoteConfig
  <2>4. CASE ~(ep.verdicts[i] /\ Countable(ev))
    <3>1. UNCHANGED tables /\ UNCHANGED <<engine, blockProc>>
      BY Zenon, <1>4, <2>4 DEF processEV
    <3> QED
      BY Zenon, <1>a, <1>c, <2>1, <3>1, ConfigSame
  <2> QED
    BY Zenon, <2>3, <2>4
<1>5. CASE ProcessFullEpochRecord
  BY Zenon, <1>5, <1>a, RecordConfig
<1>6. CASE WriteUpgradeHeight
  BY Zenon, <1>6, <1>a, WriteConfig
<1>7. CASE addUpgradeHeight
  BY Zenon, <1>7, <1>a, AddConfig
<1>8. CASE updateLowestEpochToFill
  BY Zenon, <1>8, <1>a, FillConfig
<1>9. CASE sealEpoch
  BY Zenon, <1>9 DEF sealEpoch
<1>10. CASE sealAddUpgradeHeight
  BY Zenon, <1>10, <1>b DEF sealAddUpgradeHeight
<1>11. CASE sealed
  BY Zenon, <1>11, <1>b DEF sealed
<1>12. CASE blockFn
  BY Zenon, <1>12, <1>b DEF blockFn
<1>13. CASE sealCommit
  BY Zenon, <1>13, <1>b DEF sealCommit
<1>14. CASE \E n \in Epoch : SwitchEpochTo(n)
  <2>1. PICK n \in Epoch : SwitchEpochTo(n)
    BY Zenon, <1>14
  <2>2. /\ LlrEpochResults' = LlrEpochResults
        /\ BlockEpochStateHistory' = BlockEpochStateHistory
        /\ UpgradeHeights' = UpgradeHeights /\ heightsCache' = heightsCache
        /\ llrState' = llrState /\ engine' = engine /\ blockProc' = blockProc /\ ep' = ep
    BY Zenon, <2>1 DEF SwitchEpochTo
  <2>3. current'.epoch < llrState.LowestEpochToFill
    <3>1. llrState.LowestEpochToFill \in Nat
      BY Zenon, ConfigTypes
    <3>2. n \in (llrState.LowestEpochToFill - 3)..(llrState.LowestEpochToFill - 1)
      BY Zenon, <2>1 DEF SwitchEpochTo
    <3>3. current'.epoch = n
      BY Zenon, <2>1 DEF SwitchEpochTo
    <3> QED
      BY <3>1, <3>2, <3>3
  <2>4. PICK k \in Epoch : Tidy(LlrEpochResults, BlockEpochStateHistory, UpgradeHeights,
                                llrState.LowestEpochToFill, current.epoch, k)
    BY Zenon, <1>a DEF ConfigMem
  <2>5. Tidy(LlrEpochResults, BlockEpochStateHistory, UpgradeHeights,
             llrState.LowestEpochToFill, current.epoch, k)'
    BY Zenon, <2>2, <2>3, <2>4 DEF Tidy
  <2>6. Writing' <=> Writing
    BY Zenon, <2>2 DEF Writing
  <2> QED
    BY ZenonT(30), <1>a, <2>2, <2>5, <2>6 DEF ConfigMem
<1>15. CASE updateSnapsyncStage
  BY Zenon, <1>15, <1>a, <1>c, ConfigSame DEF updateSnapsyncStage
<1>16. CASE flusherCommit
  BY Zenon, <1>16, <1>a, <1>c, ConfigSame DEF flusherCommit
<1>17. CASE Crash
  <2>1. PICK k \in Epoch : Tidy(disk.results, disk.history, disk.heights,
                                disk.llrState.LowestEpochToFill, disk.current.epoch, k)
    BY Zenon DEF ConfigInv
  <2>2. /\ LlrEpochResults' = disk.results /\ BlockEpochStateHistory' = disk.history
        /\ UpgradeHeights' = disk.heights /\ heightsCache' = disk.heights
        /\ llrState' = disk.llrState /\ current' = disk.current
        /\ engine' = Idle /\ blockProc' = Idle /\ ep' = Idle
    BY Zenon, <1>17 DEF Crash
  <2>3. ~Writing'
    BY Zenon, <2>2 DEF Writing, Idle
  <2>4. Tidy(LlrEpochResults, BlockEpochStateHistory, UpgradeHeights,
             llrState.LowestEpochToFill, current.epoch, k)'
    BY Zenon, <2>1, <2>2
  <2> QED
    BY Zenon, <2>2, <2>3, <2>4, ConfigIdle
<1> QED
  BY Zenon, <1>1, <1>2, <1>3, <1>4, <1>5, <1>6, <1>7, <1>8, <1>9, <1>10, <1>11, <1>12,
     <1>13, <1>14, <1>15, <1>16, <1>17 DEF Next

LEMMA ConfigNext ==
    ASSUME Events = FALSE
    PROVE  TypeInv /\ TrustInv /\ FillInv /\ ConfigInv /\ [Next]_vars => ConfigInv'
<1> SUFFICES ASSUME TypeInv, TrustInv, FillInv, ConfigInv, [Next]_vars PROVE ConfigInv'
  BY Zenon
<1>1. CASE Next
  <2>1. ConfigMem'
    BY Zenon, <1>1, ConfigMemory
  <2>2. CASE disk' = disk
    BY Zenon, <2>1, <2>2 DEF ConfigInv
  <2>3. CASE /\ disk'.results = LlrEpochResults'
             /\ disk'.history = BlockEpochStateHistory'
             /\ disk'.heights = UpgradeHeights'
             /\ disk'.llrState = llrState'
             /\ disk'.current = current'
    BY Zenon, <2>1, <2>3 DEF ConfigInv, ConfigMem
  <2> QED
    BY Zenon, <1>1, <2>2, <2>3, DiskStep
<1>2. CASE UNCHANGED vars
  <2>1. /\ UNCHANGED <<LlrEpochResults, BlockEpochStateHistory, UpgradeHeights, heightsCache>>
        /\ UNCHANGED <<llrState, current, engine, blockProc>>
        /\ UNCHANGED ep /\ disk' = disk
    BY Zenon, <1>2 DEF vars, tables
  <2>2. ConfigMem'
    BY Zenon, <2>1, ConfigSame DEF ConfigInv
  <2> QED
    BY Zenon, <2>1, <2>2 DEF ConfigInv
<1> QED
  BY Zenon, <1>1, <1>2

\* A node that takes epochs from packs alone executes under the upgrades of its
\* epoch, if faulty validators are bounded and upgrades are never switched off,
\* for any number of epochs, packs and crashes: AddUpgradeHeight then has a
\* single caller, and a crash between WriteFullEpochRecord and AddUpgradeHeight
\* leaves a height out only for an epoch that the fill pointer will not pass.
THEOREM ConfigFromPacks ==
    ASSUME Events = FALSE, FaultyBound, UpgradesGrow
    PROVE  Spec => []ConfigRight
<1>1. ASSUME TypeInv, TrustInv, FillInv, ConfigInv PROVE ConfigRight
  <2> SUFFICES ASSUME NEW u \in UNION {Upgrades[r] : r \in Record}
               PROVE  LET h == ActivationHeight(heightsCache, u)
                      IN  (h # None /\ h <= current.epoch) <=> u \in Upgrades[current.es]
    BY Zenon DEF ConfigRight
  <2>1. PICK k \in Epoch : Tidy(LlrEpochResults, BlockEpochStateHistory, UpgradeHeights,
                                llrState.LowestEpochToFill, current.epoch, k)
    BY Zenon, <1>1 DEF ConfigInv, ConfigMem
  <2>2. PICK m \in Epoch : Serves(heightsCache, llrState.LowestEpochToFill, m)
    <3>1. CASE ep.pc # "cache"
      <4>1. heightsCache = UpgradeHeights
        BY Zenon, <1>1, <3>1 DEF ConfigInv, ConfigMem
      <4> QED
        BY Zenon, <2>1, <4>1 DEF Tidy
    <3>2. CASE ep.pc = "cache"
      <4>1. Writing /\ ep.pc # "fill"
        BY Zenon, <3>2 DEF Writing
      <4>2. ep.idx - 1 \in Epoch
        BY Zenon, <1>1, <4>1, WritingFacts DEF ConfigInv
      <4> QED
        BY Zenon, <1>1, <4>1, <4>2 DEF ConfigInv, ConfigMem
    <3> QED
      BY Zenon, <3>1, <3>2
  <2>3. PICK hh, low, c : /\ hh = heightsCache /\ low = llrState.LowestEpochToFill
                          /\ c = current.epoch
    BY Zenon
  <2>4. Serves(hh, low, m) /\ low \in Nat /\ c \in Epoch /\ c < low
    BY Zenon, <1>1, <2>1, <2>2, <2>3, ConfigTypes DEF Tidy, TypeInv, Tables
  <2>5. current.es = Own[c]
    BY Zenon, <1>1, <2>3 DEF TrustInv, Trust
  <2>6. LET h == ActivationHeight(hh, u)
        IN  (h # None /\ h <= c) <=> u \in Upgrades[Own[c]]
    BY Zenon, <2>4, ServesRight
  <2> QED
    BY Zenon, <2>3, <2>5, <2>6
<1>2. TypeInv /\ TrustInv /\ FillInv /\ ConfigInv /\ [Next]_vars => ConfigInv'
  BY Zenon, ConfigNext
<1>3. TypeInv /\ TrustInv /\ FillInv /\ ConfigInv => ConfigRight
  BY Zenon, <1>1
<1>4. Spec => []TrustInv
  BY Zenon, TrustInvariant
<1> QED
  BY <1>2, <1>3, <1>4, InitConfig, TypeInvariant, FillInvariant, PTL DEF Spec
=============================================================================
