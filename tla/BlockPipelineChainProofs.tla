---------------------- MODULE BlockPipelineChainProofs ----------------------
(***************************************************************************)
(* Proofs about the block table of BlockPipeline: its blocks are a prefix  *)
(* of the chain that the frames make, block IDs are unique in it, the table*)
(* implements WriteOnce whatever crashes; and type correctness.            *)
(***************************************************************************)
EXTENDS BlockPipelineProofs

-----------------------------------------------------------------------------
(* The block table. *)

FirstBlocks(n) == [i \in 1..n |-> FinalChain[i]]

LEMMA FinalChainOK ==
    /\ FinalChain \in Seq(Block) /\ Len(FinalChain) \in Nat
    /\ DOMAIN FinalChain = 1..Len(FinalChain)
    /\ \A i \in 1..Len(FinalChain) : FinalChain[i] \in Block /\ FinalChain[i].atropos \in Atropos
    /\ \A i, j \in 1..Len(FinalChain) :
         /\ i < j => FinalChain[i].time < FinalChain[j].time
         /\ FinalChain[i].atropos = FinalChain[j].atropos => i = j
<1>1. MaxFrames \in 0..MaxFrames
  BY RulesAssumption
<1>2. Sequential[MaxFrames] \in State /\ ChainOK(Sequential[MaxFrames])
  BY ZenonT(30), <1>1, SequentialState, SequentialChain
<1>3. Root(Sequential[MaxFrames]) = FinalChain
  BY Zenon DEF Root, FinalChain
<1>4. FinalChain \in Seq(Block)
  BY Zenon, <1>2, <1>3, RunFrameBegins
<1>5. Len(FinalChain) \in Nat /\ DOMAIN FinalChain = 1..Len(FinalChain)
      /\ \A i \in 1..Len(FinalChain) : FinalChain[i] \in Block
  <2>1. PICK r : r = FinalChain
    BY Zenon
  <2>2. r \in Seq(Block)
    BY Zenon, <1>4, <2>1
  <2>3. Len(r) \in Nat /\ DOMAIN r = 1..Len(r) /\ \A i \in 1..Len(r) : r[i] \in Block
    BY <2>2
  <2> QED
    BY Zenon, <2>1, <2>3
<1>6. \A b \in Block : b.atropos \in Atropos
  BY DEF Block
<1>7. \A i, j \in 1..Len(FinalChain) : i < j => /\ FinalChain[i].time < FinalChain[j].time
                                                /\ FinalChain[i].atropos # FinalChain[j].atropos
  BY ZenonT(30), <1>2, <1>3 DEF ChainOK
<1>8. \A i, j \in 1..Len(FinalChain) : i < j \/ j < i \/ i = j
  BY <1>5
<1>9. \A i, j \in 1..Len(FinalChain) : FinalChain[i].atropos = FinalChain[j].atropos => i = j
  BY Zenon, <1>7, <1>8
<1> QED
  BY ZenonT(30), <1>4, <1>5, <1>6, <1>7, <1>9

LEMMA FirstBlocksOK ==
    ASSUME NEW n \in 0..Len(FinalChain)
    PROVE  /\ FirstBlocks(n) \in Seq(Block) /\ Len(FirstBlocks(n)) = n
           /\ DOMAIN FirstBlocks(n) = 1..n
           /\ \A i \in 1..n : FirstBlocks(n)[i] = FinalChain[i] /\ i \in 1..Len(FinalChain)
<1>1. n \in Nat /\ \A i \in 1..n : i \in 1..Len(FinalChain)
  BY FinalChainOK
<1>2. \A i \in 1..n : FinalChain[i] \in Block
  BY Zenon, <1>1, FinalChainOK
<1>3. PICK r : r = FirstBlocks(n)
  BY Zenon
<1>4. DOMAIN r = 1..n /\ r \in [1..n -> Block] /\ \A i \in 1..n : r[i] = FinalChain[i]
  BY Zenon, <1>2, <1>3 DEF FirstBlocks
<1>5. r \in Seq(Block) /\ Len(r) = n
  BY <1>1, <1>4
<1> QED
  BY ZenonT(30), <1>1, <1>3, <1>4, <1>5

\* A block table with its index: the first blocks of the chain.
Shown(blocks, index) ==
    /\ Len(blocks) \in 0..Len(FinalChain) /\ blocks = FirstBlocks(Len(blocks))
    /\ index \in [Atropos -> Nat]
    /\ \A i \in 1..Len(blocks) : index[FinalChain[i].atropos] = i

\* The block that the worker is about to write is in the table, or the next one.
ToWrite(c, blocks) ==
    /\ c.ctx.idx \in 1..Len(FinalChain) /\ c.ctx.idx <= Len(blocks) + 1
    /\ BlockOf(c) = FinalChain[c.ctx.idx] /\ Len(Root(After(c))) = c.ctx.idx

BlocksInv ==
    /\ Shown(Blocks, BlockIndex) /\ Len(Root(bes)) <= Len(Blocks)
    /\ Shown(disk.Blocks, disk.BlockIndex) /\ Len(Root(disk.bes)) <= Len(disk.Blocks)
    /\ blockProc # BlockProcIdle => ToWrite(blockProc.c, Blocks)

\* What a step does to the block table.
BlocksGrow == Len(Blocks) <= Len(Blocks') /\ disk' = disk
BlocksPersist == Blocks' = Blocks /\ disk'.Blocks = Blocks
BlocksCrash == Blocks' = disk.Blocks /\ disk' = disk
BlocksStep == BlocksInv' /\ (BlocksGrow \/ BlocksPersist \/ BlocksCrash)

LEMMA BlocksAfter ==
    ASSUME Shown(Blocks', BlockIndex'), Len(Root(bes')) <= Len(Blocks'),
           Shown(disk'.Blocks, disk'.BlockIndex), Len(Root(disk'.bes)) <= Len(disk'.Blocks),
           blockProc' # BlockProcIdle => ToWrite(blockProc'.c, Blocks'),
           BlocksGrow \/ BlocksPersist \/ BlocksCrash
    PROVE  BlocksStep
<1>1. BlocksInv'
  BY DEF BlocksInv, BlockProcIdle
<1> QED
  BY ZenonT(30), <1>1 DEF BlocksStep

\* More blocks, with their places in the index.
LEMMA ShownMore ==
    ASSUME NEW blocks, NEW index, Shown(blocks, index),
           NEW n \in 0..Len(FinalChain), Len(blocks) <= n,
           NEW more, more \in [Atropos -> Nat],
           \A i \in 1..n : more[FinalChain[i].atropos] = i
    PROVE  Shown(FirstBlocks(n), more) /\ Len(blocks) <= Len(FirstBlocks(n))
<1>1. Len(FirstBlocks(n)) = n
  BY Zenon, FirstBlocksOK
<1> QED
  BY Zenon, <1>1 DEF Shown

LEMMA ShownFacts ==
    ASSUME NEW blocks, NEW index, Shown(blocks, index)
    PROVE  /\ blocks \in Seq(Block) /\ Len(blocks) \in Nat /\ DOMAIN blocks = 1..Len(blocks)
           /\ Len(blocks) <= Len(FinalChain) /\ Len(FinalChain) \in Nat
           /\ \A i \in 1..Len(blocks) : blocks[i] = FinalChain[i] /\ i \in 1..Len(FinalChain)
<1>1. Len(blocks) \in 0..Len(FinalChain) /\ blocks = FirstBlocks(Len(blocks))
  BY Zenon DEF Shown
<1>2. PICK n \in 0..Len(FinalChain) : n = Len(blocks)
  BY ZenonT(30), <1>1
<1>3. n \in Nat /\ n <= Len(FinalChain)
  BY FinalChainOK
<1>4. blocks = FirstBlocks(n)
  BY ZenonT(30), <1>1, <1>2
<1>5. /\ FirstBlocks(n) \in Seq(Block) /\ DOMAIN FirstBlocks(n) = 1..n
      /\ \A i \in 1..n : FirstBlocks(n)[i] = FinalChain[i] /\ i \in 1..Len(FinalChain)
  BY Zenon, FirstBlocksOK
<1>6. Len(FinalChain) \in Nat
  BY ZenonT(30), FinalChainOK
<1> QED
  BY ZenonT(30), <1>2, <1>3, <1>4, <1>5, <1>6

\* The writes of blockFn to the block table and its index.
LEMMA WriteBlockShown ==
    ASSUME Shown(Blocks, BlockIndex), NEW c, ToWrite(c, Blocks), WriteBlock(c)
    PROVE  /\ Shown(Blocks', BlockIndex') /\ Len(Blocks) <= Len(Blocks')
           /\ Len(Root(After(c))) <= Len(Blocks')
<1>1. PICK k \in 1..Len(FinalChain) : k = c.ctx.idx
  BY Zenon DEF ToWrite
<1>2. /\ Blocks \in Seq(Block) /\ Len(Blocks) \in Nat /\ DOMAIN Blocks = 1..Len(Blocks)
      /\ Len(Blocks) <= Len(FinalChain) /\ Len(FinalChain) \in Nat
      /\ \A i \in 1..Len(Blocks) : Blocks[i] = FinalChain[i] /\ i \in 1..Len(FinalChain)
  BY Zenon, ShownFacts
<1>3. PICK m : m = Len(Blocks)
  BY Zenon
<1>4. k <= m + 1 /\ BlockOf(c) = FinalChain[k] /\ Len(Root(After(c))) = k
  BY ZenonT(30), <1>1, <1>3 DEF ToWrite
<1>5. PICK n \in 0..Len(FinalChain) : n = (IF k <= m THEN m ELSE k) /\ m <= n /\ k <= n
                                      /\ 1..m \cup {k} = 1..n
  <2>1. (IF k <= m THEN m ELSE k) \in 0..Len(FinalChain)
    BY SMTT(30), <1>2, <1>3, <1>4
  <2>2. 1..m \cup {k} = 1..(IF k <= m THEN m ELSE k)
    BY SMTT(30), <1>2, <1>3, <1>4
  <2>3. m <= (IF k <= m THEN m ELSE k) /\ k <= (IF k <= m THEN m ELSE k)
    BY SMTT(30), <1>2, <1>3, <1>4
  <2> QED
    BY ZenonT(30), <2>1, <2>2, <2>3
<1>6. Blocks' = FirstBlocks(n)
  <2>1. Blocks' = [i \in 1..n |-> IF i = k THEN FinalChain[k] ELSE Blocks[i]]
    <3>1. DOMAIN Blocks \cup {c.ctx.idx} = 1..n
      BY ZenonT(30), <1>1, <1>2, <1>3, <1>5
    <3> QED
      BY ZenonT(30), <1>1, <1>4, <3>1 DEF WriteBlock
  <2>2. ASSUME NEW i \in 1..n PROVE (IF i = k THEN FinalChain[k] ELSE Blocks[i]) = FinalChain[i]
    <3>1. i = k \/ i \in 1..m
      BY Zenon, <1>5
    <3> QED
      BY ZenonT(30), <1>2, <1>3, <3>1
  <2> QED
    BY ZenonT(30), <2>1, <2>2 DEF FirstBlocks
<1>7. BlockIndex \in [Atropos -> Nat] /\ \A i \in 1..m : BlockIndex[FinalChain[i].atropos] = i
  BY Zenon, <1>3 DEF Shown
<1>8. PICK a \in Atropos : a = FinalChain[k].atropos
  BY Zenon, FinalChainOK
<1>9. BlockIndex' = [BlockIndex EXCEPT ![a] = k]
  <2>1. c.fr.atropos = BlockOf(c).atropos
    BY DEF BlockOf
  <2> QED
    BY ZenonT(30), <1>1, <1>4, <1>8, <2>1 DEF WriteBlock
<1>10. BlockIndex' \in [Atropos -> Nat]
  <2>1. k \in Nat
    BY <1>2
  <2> QED
    BY SMTT(30), <1>7, <1>9, <2>1
<1>11. \A x \in Atropos : BlockIndex'[x] = IF x = a THEN k ELSE BlockIndex[x]
  BY <1>7, <1>9
<1>12. \A i \in 1..n : BlockIndex'[FinalChain[i].atropos] = i
  <2> SUFFICES ASSUME NEW i \in 1..n PROVE BlockIndex'[FinalChain[i].atropos] = i
    OBVIOUS
  <2>1. i \in 1..Len(FinalChain)
    BY <1>2
  <2>2. FinalChain[i].atropos \in Atropos /\ (FinalChain[i].atropos = a => i = k)
    BY ZenonT(30), <1>8, <2>1, FinalChainOK
  <2>3. CASE i = k
    BY ZenonT(30), <1>8, <1>11, <2>2, <2>3
  <2>4. CASE i # k
    <3>1. i \in 1..m
      BY ZenonT(30), <1>5, <2>4
    <3> QED
      BY ZenonT(30), <1>7, <1>11, <2>2, <2>4, <3>1
  <2> QED
    BY ZenonT(30), <2>3, <2>4
<1>13. Shown(Blocks', BlockIndex') /\ Len(Blocks) <= Len(Blocks') /\ Len(Blocks') = n
  <2>1. Len(Blocks) <= n
    BY ZenonT(30), <1>3, <1>5
  <2>2. Shown(FirstBlocks(n), BlockIndex') /\ Len(Blocks) <= Len(FirstBlocks(n))
    BY ZenonT(30), <1>10, <1>12, <2>1, ShownMore
  <2> QED
    BY ZenonT(30), <1>6, <2>2, FirstBlocksOK
<1> QED
  BY ZenonT(30), <1>4, <1>5, <1>13

\* States that the frames lead to have the first blocks of the chain.
LEMMA AtChain ==
    ASSUME NEW st, NEW frame, At(st, frame)
    PROVE  /\ Root(st) \in Seq(Block) /\ Len(Root(st)) \in Nat
           /\ st.bs.LastBlock.idx = Len(Root(st)) /\ Begins(Root(st), FinalChain)
<1>1. PICK n \in 0..MaxFrames : Sequential[n] = [bs |-> st.bs, es |-> st.es, frame |-> frame]
  BY Zenon, AtPosition
<1>2. Sequential[n].bs = st.bs
  BY <1>1
<1>3. Root(Sequential[n]) = Root(st)
  BY ZenonT(30), <1>2 DEF Root
<1>4. Sequential[n] \in State /\ ChainOK(Sequential[n]) /\ Begins(Root(st), FinalChain)
  BY ZenonT(30), <1>3, SequentialState, SequentialChain, FinalChainBegins
<1>5. Root(st) \in Seq(Block)
  BY ZenonT(30), <1>3, <1>4, RunFrameBegins
<1>6. Len(Root(st)) \in Nat
  BY <1>5
<1>7. st.bs.LastBlock.idx = Len(Root(st))
  BY ZenonT(30), <1>2, <1>3, <1>4 DEF ChainOK
<1> QED
  BY ZenonT(30), <1>4, <1>5, <1>6, <1>7

\* A block that EndBlock makes is the next one of the chain.
LEMMA AtroposToWrite ==
    ASSUME NEW c, AtroposStep(c), ~c.skip, NEW blocks, Len(Root(bes)) <= Len(blocks), Len(blocks) \in Nat
    PROVE  ToWrite(c, blocks)
<1>1. PICK f, g, fr : At(bes, f) /\ At(After(c), g) /\ CallbacksLeave(c, bes.bs, bes.es, f, fr)
  BY Zenon DEF AtroposStep
<1>2. /\ Root(bes) \in Seq(Block) /\ Len(Root(bes)) \in Nat
      /\ bes.bs.LastBlock.idx = Len(Root(bes))
  BY ZenonT(30), <1>1, AtChain
<1>3. Begins(Root(After(c)), FinalChain)
  BY ZenonT(30), <1>1, AtChain
<1>4. /\ Root(After(c)) = Append(Root(bes), BlockOf(c)) /\ c.ctx.idx = bes.bs.LastBlock.idx + 1
      /\ c.fr = fr /\ FrameOK(fr) /\ c.ctx \in [idx : Nat, time : Nat]
  BY ZenonT(30), <1>1 DEF CallbacksLeave, Root
<1>5. PICK b : b = BlockOf(c)
  BY Zenon
<1>6. b \in Block
  BY <1>4, <1>5 DEF Block, BlockOf, FrameOK
<1>7. PICK r, n : r = Root(bes) /\ n = Len(r)
  BY Zenon
<1>8. Len(Append(r, b)) = n + 1 /\ Append(r, b)[n + 1] = b
  <2>1. r \in Seq(Block)
    BY ZenonT(30), <1>2, <1>7
  <2> QED
    BY SMTT(30), <1>6, <1>7, <2>1, AppendOne
<1>9. n \in Nat /\ n <= Len(blocks) /\ c.ctx.idx = n + 1
  BY ZenonT(30), <1>2, <1>4, <1>7
<1>10. n + 1 \in 1..(n + 1) /\ n + 1 <= Len(blocks) + 1
  BY <1>9
<1>11. Len(Root(After(c))) = n + 1 /\ n + 1 <= Len(FinalChain) /\ FinalChain[n + 1] = b
  <2>1. Root(After(c)) = Append(r, b)
    BY ZenonT(30), <1>4, <1>5, <1>7
  <2> QED
    BY ZenonT(30), <1>3, <1>8, <1>10, <2>1 DEF Begins
<1>12. n + 1 \in 1..Len(FinalChain)
  BY SMTT(30), <1>9, <1>11, FinalChainOK
<1> QED
  BY ZenonT(30), <1>5, <1>9, <1>10, <1>11, <1>12 DEF ToWrite

LEMMA BlocksInit == Init => BlocksInv
<1> SUFFICES ASSUME Init PROVE BlocksInv
  OBVIOUS
<1>1. /\ disk.Blocks = <<>> /\ disk.BlockIndex = BlockIndex /\ disk.bes = Genesis
      /\ Blocks = <<>> /\ bes = Genesis /\ blockProc = BlockProcIdle
      /\ BlockIndex \in [Atropos -> Nat]
  BY DEF Init, Durable
<1>2. Root(Genesis) = <<>> /\ Len(<<>>) = 0 /\ 0 <= 0 /\ 1..0 = {}
  BY DEF Root, Genesis
<1>3. 0 \in 0..Len(FinalChain)
  BY FinalChainOK
<1>4. FirstBlocks(0) = <<>>
  BY <1>2 DEF FirstBlocks
<1>5. Shown(<<>>, BlockIndex)
  BY ZenonT(30), <1>1, <1>2, <1>3, <1>4 DEF Shown
<1> QED
  BY ZenonT(30), <1>1, <1>2, <1>5 DEF BlocksInv

LEMMA BlocksSame ==
    ASSUME BlocksInv, Blocks' = Blocks, BlockIndex' = BlockIndex, bes' = bes,
           blockProc' = blockProc, disk' = disk
    PROVE  BlocksStep
<1>1. Len(Blocks) \in Nat
  BY ZenonT(30), ShownFacts DEF BlocksInv
<1>2. Len(Blocks) <= Len(Blocks')
  BY <1>1
<1> QED
  BY ZenonT(30), <1>2, BlocksAfter DEF BlocksInv, BlocksGrow

LEMMA BlocksApplyAtropos ==
    ASSUME PipelineInv, BlocksInv, applyAtropos
    PROVE  BlocksStep
<1>1. PICK c : AtroposStep(c)
  BY ZenonT(30), AtroposSteps
<1>2. /\ Shown(Blocks, BlockIndex) /\ Len(Root(bes)) <= Len(Blocks)
      /\ Shown(disk.Blocks, disk.BlockIndex) /\ Len(Root(disk.bes)) <= Len(disk.Blocks)
  BY Zenon DEF BlocksInv
<1>3. Len(Blocks) \in Nat
  BY ZenonT(30), <1>2, ShownFacts
<1>4. Len(Blocks) <= Len(Blocks)
  BY <1>3
<1>5. blockProc = BlockProcIdle /\ disk' = disk
  BY ZenonT(30), <1>1 DEF AtroposStep
<1>6. ~c.skip => ToWrite(c, Blocks)
  BY ZenonT(30), <1>1, <1>2, <1>3, AtroposToWrite
<1>7. c.bs.FinalizedStateRoot = bes.bs.FinalizedStateRoot
  BY Zenon, <1>1 DEF AtroposStep, CallbacksLeave
<1>8. CASE /\ c.skip /\ bes' = [bs |-> c.bs, es |-> c.es] /\ blockProc' = blockProc
           /\ Blocks' = Blocks /\ BlockIndex' = BlockIndex
  <2>1. Root(bes') = Root(bes)
    BY SMTT(30), <1>7, <1>8 DEF Root
  <2> QED
    BY ZenonT(30), <1>2, <1>4, <1>5, <1>8, <2>1, BlocksAfter DEF BlocksGrow
<1>9. CASE /\ ~c.skip /\ bes' = (IF c.sealing THEN [bs |-> c.bs, es |-> c.es] ELSE bes)
           /\ blockProc' = [pc |-> "run", c |-> c]
           /\ Blocks' = Blocks /\ BlockIndex' = BlockIndex
  <2>1. Root(bes') = Root(bes)
    BY <1>7, <1>9 DEF Root
  <2>2. blockProc'.c = c
    BY <1>9
  <2> QED
    BY ZenonT(30), <1>2, <1>4, <1>5, <1>6, <1>9, <2>1, <2>2, BlocksAfter DEF BlocksGrow
<1>10. CASE ~c.skip /\ WriteBlock(c) /\ blockProc' = blockProc
  <2>1. bes' = After(c)
    BY ZenonT(30), <1>10 DEF After, WriteBlock
  <2>2. /\ Shown(Blocks', BlockIndex') /\ Len(Blocks) <= Len(Blocks')
        /\ Len(Root(After(c))) <= Len(Blocks')
    BY ZenonT(30), <1>2, <1>6, <1>10, WriteBlockShown
  <2> QED
    BY ZenonT(30), <1>2, <1>5, <1>10, <2>1, <2>2, BlocksAfter DEF BlocksGrow
<1> QED
  BY ZenonT(30), <1>1, <1>8, <1>9, <1>10 DEF AtroposStep

LEMMA BlocksBlockFn ==
    ASSUME PipelineInv, BlocksInv, blockFn
    PROVE  BlocksStep
<1>1. PICK c : c = blockProc.c
  BY Zenon
<1>2. blockProc # BlockProcIdle
  BY DEF blockFn, BlockProcIdle
<1>3. /\ Shown(Blocks, BlockIndex) /\ ToWrite(c, Blocks)
      /\ Shown(disk.Blocks, disk.BlockIndex) /\ Len(Root(disk.bes)) <= Len(disk.Blocks)
  BY ZenonT(30), <1>1, <1>2 DEF BlocksInv
<1>4. ~c.skip
  BY ZenonT(30), <1>1, <1>2 DEF PipelineInv, WorkOK
<1>5. WriteBlock(c) /\ blockProc' = BlockProcIdle /\ disk' = disk
  BY Zenon, <1>1 DEF blockFn
<1>6. bes' = After(c)
  BY ZenonT(30), <1>4, <1>5 DEF After, WriteBlock
<1>7. /\ Shown(Blocks', BlockIndex') /\ Len(Blocks) <= Len(Blocks')
      /\ Len(Root(After(c))) <= Len(Blocks')
  BY ZenonT(30), <1>3, <1>5, WriteBlockShown
<1> QED
  BY ZenonT(30), <1>3, <1>5, <1>6, <1>7, BlocksAfter DEF BlocksGrow

LEMMA BlocksWriteFullRecords ==
    ASSUME PipelineInv, BlocksInv, NEW w \in 1..MaxFrames, WriteFullRecords(w)
    PROVE  BlocksStep
<1>1. PICK root : root = Root(Sequential[w])
  BY Zenon
<1>2. PICK missing : missing = DOMAIN root \ DOMAIN Blocks
  BY Zenon
<1>3. /\ Blocks' = [i \in DOMAIN Blocks \cup missing |->
                       IF i \in missing THEN root[i] ELSE Blocks[i]]
      /\ BlockIndex' = [a \in Atropos |->
              IF \E i \in missing : root[i].atropos = a
              THEN CHOOSE i \in missing : root[i].atropos = a ELSE BlockIndex[a]]
      /\ bes' = bes /\ blockProc' = blockProc /\ disk' = disk
  BY ZenonT(30), <1>1, <1>2 DEF WriteFullRecords, Root
<1>4. /\ Shown(Blocks, BlockIndex) /\ Len(Root(bes)) <= Len(Blocks)
      /\ Shown(disk.Blocks, disk.BlockIndex) /\ Len(Root(disk.bes)) <= Len(disk.Blocks)
      /\ blockProc # BlockProcIdle => ToWrite(blockProc.c, Blocks)
  BY Zenon DEF BlocksInv
<1>5. /\ Len(Blocks) \in Nat /\ DOMAIN Blocks = 1..Len(Blocks)
      /\ Len(Blocks) <= Len(FinalChain) /\ Len(FinalChain) \in Nat
      /\ \A i \in 1..Len(Blocks) : Blocks[i] = FinalChain[i] /\ i \in 1..Len(FinalChain)
  BY ZenonT(30), <1>4, ShownFacts
<1>6. root \in Seq(Block) /\ Begins(root, FinalChain)
  <2>1. w \in 0..MaxFrames
    OBVIOUS
  <2> QED
    BY ZenonT(30), <1>1, <2>1, SequentialState, RunFrameBegins, FinalChainBegins
<1>7. PICK k, m : k = Len(root) /\ m = Len(Blocks)
  BY Zenon
<1>8. k \in Nat /\ DOMAIN root = 1..k
  BY <1>6, <1>7
<1>9. k <= Len(FinalChain) /\ \A i \in 1..k : root[i] = FinalChain[i]
  BY ZenonT(30), <1>6, <1>7 DEF Begins
<1>10. PICK n \in 0..Len(FinalChain) : /\ n = (IF k <= m THEN m ELSE k) /\ m <= n
                                       /\ DOMAIN Blocks \cup missing = 1..n
  <2>1. (IF k <= m THEN m ELSE k) \in 0..Len(FinalChain) /\ m <= (IF k <= m THEN m ELSE k)
    BY SMTT(30), <1>5, <1>7, <1>8, <1>9
  <2>2. DOMAIN Blocks \cup missing = 1..(IF k <= m THEN m ELSE k)
    <3>1. DOMAIN Blocks \cup missing = 1..m \cup 1..k
      BY ZenonT(30), <1>2, <1>5, <1>7, <1>8
    <3>2. 1..m \cup 1..k = 1..(IF k <= m THEN m ELSE k)
      BY SMTT(30), <1>5, <1>7, <1>8
    <3> QED
      BY ZenonT(30), <3>1, <3>2
  <2> QED
    BY ZenonT(30), <2>1, <2>2
<1>11. \A i \in missing : root[i] = FinalChain[i] /\ i \in 1..Len(FinalChain) /\ i \notin 1..m
  <2>1. \A i \in 1..k : i \in 1..Len(FinalChain)
    BY SMTT(30), <1>5, <1>8, <1>9
  <2> QED
    BY ZenonT(30), <1>2, <1>5, <1>7, <1>8, <1>9, <2>1
<1>12. Blocks' = FirstBlocks(n)
  <2>1. Blocks' = [i \in 1..n |-> IF i \in missing THEN root[i] ELSE Blocks[i]]
    BY ZenonT(30), <1>3, <1>10
  <2>2. ASSUME NEW i \in 1..n PROVE (IF i \in missing THEN root[i] ELSE Blocks[i]) = FinalChain[i]
    <3>1. i \in missing \/ i \in 1..Len(Blocks)
      BY ZenonT(30), <1>5, <1>10
    <3> QED
      BY ZenonT(30), <1>5, <1>11, <3>1
  <2> QED
    BY ZenonT(30), <2>1, <2>2 DEF FirstBlocks
<1>13. BlockIndex \in [Atropos -> Nat] /\ \A i \in 1..m : BlockIndex[FinalChain[i].atropos] = i
  BY ZenonT(30), <1>4, <1>7 DEF Shown
<1>14. \A a \in Atropos : BlockIndex'[a] =
              IF \E i \in missing : root[i].atropos = a
              THEN CHOOSE i \in missing : root[i].atropos = a ELSE BlockIndex[a]
  BY Zenon, <1>3
<1>15. BlockIndex' \in [Atropos -> Nat]
  <2>1. ASSUME NEW a \in Atropos PROVE BlockIndex'[a] \in Nat
    <3>1. CASE \E i \in missing : root[i].atropos = a
      <4>1. BlockIndex'[a] \in missing
        BY ZenonT(30), <1>14, <3>1
      <4>2. BlockIndex'[a] \in 1..Len(FinalChain)
        BY ZenonT(30), <1>11, <4>1
      <4> QED
        BY SMTT(30), <1>5, <4>2
    <3>2. CASE ~\E i \in missing : root[i].atropos = a
      BY ZenonT(30), <1>13, <1>14, <3>2
    <3> QED
      BY ZenonT(30), <3>1, <3>2
  <2> QED
    BY ZenonT(30), <1>3, <2>1
<1>16. \A i \in 1..n : BlockIndex'[FinalChain[i].atropos] = i
  <2> SUFFICES ASSUME NEW i \in 1..n PROVE BlockIndex'[FinalChain[i].atropos] = i
    OBVIOUS
  <2>1. PICK a : a = FinalChain[i].atropos
    BY Zenon
  <2>2. i \in 1..Len(FinalChain)
    BY <1>5
  <2>3. a \in Atropos /\ \A j \in 1..Len(FinalChain) : FinalChain[j].atropos = a => j = i
    BY ZenonT(30), <2>1, <2>2, FinalChainOK
  <2>4. \A j \in missing : root[j].atropos = a => j = i
    BY ZenonT(30), <1>11, <2>3
  <2>5. CASE i \in missing
    <3>1. root[i].atropos = a
      BY ZenonT(30), <1>11, <2>1, <2>5
    <3>2. BlockIndex'[a] = CHOOSE j \in missing : root[j].atropos = a
      BY ZenonT(30), <1>14, <2>3, <2>5, <3>1
    <3>3. BlockIndex'[a] \in missing /\ root[BlockIndex'[a]].atropos = a
      BY ZenonT(30), <2>5, <3>1, <3>2
    <3> QED
      BY ZenonT(30), <2>1, <2>4, <3>3
  <2>6. CASE i \notin missing
    <3>1. i \in 1..m
      BY ZenonT(30), <1>5, <1>7, <1>10, <2>6
    <3>2. ~\E j \in missing : root[j].atropos = a
      BY ZenonT(30), <2>4, <2>6
    <3> QED
      BY ZenonT(30), <1>13, <1>14, <2>1, <2>3, <3>1, <3>2
  <2> QED
    BY ZenonT(30), <2>5, <2>6
<1>17. Shown(Blocks', BlockIndex') /\ Len(Blocks) <= Len(Blocks')
  <2>1. Shown(FirstBlocks(n), BlockIndex') /\ Len(Blocks) <= Len(FirstBlocks(n))
    BY ZenonT(30), <1>4, <1>7, <1>10, <1>15, <1>16, ShownMore
  <2> QED
    BY ZenonT(30), <1>12, <2>1
<1>18. Len(Blocks') \in Nat
  BY ZenonT(30), <1>17, ShownFacts
<1>19. Len(Root(bes)) <= Len(Blocks')
  <2>1. Len(Root(bes)) \in Nat
    <3>1. bes.bs \in BlockStates
      BY Zenon DEF PipelineInv, WorkOK
    <3> QED
      BY SMTT(30), <3>1 DEF BlockStates, Root
  <2> QED
    BY SMTT(30), <1>4, <1>5, <1>17, <1>18, <2>1
<1>20. blockProc # BlockProcIdle => ToWrite(blockProc.c, Blocks')
  <2>1. ASSUME NEW i \in 1..Len(FinalChain), i <= Len(Blocks) + 1 PROVE i <= Len(Blocks') + 1
    BY SMTT(30), <1>5, <1>17, <1>18, <2>1
  <2> QED
    BY ZenonT(30), <1>4, <2>1 DEF ToWrite
<1> QED
  BY ZenonT(30), <1>3, <1>4, <1>17, <1>19, <1>20, BlocksAfter DEF BlocksGrow

LEMMA BlocksSwitchEpochTo ==
    ASSUME PipelineInv, BlocksInv, NEW ep \in Epochs, SwitchEpochTo(ep)
    PROVE  BlocksStep
<1>1. /\ Blocks' = Blocks /\ BlockIndex' = BlockIndex /\ blockProc' = BlockProcIdle /\ disk' = disk
      /\ ep \in DOMAIN history /\ bes' = history[ep] /\ history[ep].bs.LastBlock.idx <= Len(Blocks)
  BY Zenon DEF SwitchEpochTo
<1>2. At(history[ep], 0)
  BY Zenon, <1>1 DEF PipelineInv, TablesOK
<1>3. Len(Root(history[ep])) <= Len(Blocks)
  BY ZenonT(30), <1>1, <1>2, AtChain
<1>4. /\ Shown(Blocks, BlockIndex)
      /\ Shown(disk.Blocks, disk.BlockIndex) /\ Len(Root(disk.bes)) <= Len(disk.Blocks)
  BY Zenon DEF BlocksInv
<1>5. Len(Blocks) <= Len(Blocks')
  <2>1. Len(Blocks) \in Nat
    BY ZenonT(30), <1>4, ShownFacts
  <2> QED
    BY <1>1, <2>1
<1> QED
  BY ZenonT(30), <1>1, <1>3, <1>4, <1>5, BlocksAfter DEF BlocksGrow

LEMMA BlocksCommit ==
    ASSUME BlocksInv, commit
    PROVE  BlocksStep
<1>1. /\ Blocks' = Blocks /\ BlockIndex' = BlockIndex /\ blockProc' = BlockProcIdle /\ bes' = bes
  BY Zenon DEF commit, tables
<1>2. disk'.Blocks = Blocks /\ disk'.BlockIndex = BlockIndex /\ disk'.bes = bes
  BY DEF commit, Durable
<1>3. Shown(Blocks, BlockIndex) /\ Len(Root(bes)) <= Len(Blocks)
  BY Zenon DEF BlocksInv
<1> QED
  BY ZenonT(30), <1>1, <1>2, <1>3, BlocksAfter DEF BlocksPersist

LEMMA BlocksCrashes ==
    ASSUME BlocksInv, Crash
    PROVE  BlocksStep
<1>1. /\ Blocks' = disk.Blocks /\ BlockIndex' = disk.BlockIndex /\ bes' = disk.bes
      /\ blockProc' = BlockProcIdle /\ disk' = disk
  BY Zenon DEF Crash
<1>2. Shown(disk.Blocks, disk.BlockIndex) /\ Len(Root(disk.bes)) <= Len(disk.Blocks)
  BY Zenon DEF BlocksInv
<1> QED
  BY ZenonT(30), <1>1, <1>2, BlocksAfter DEF BlocksCrash

LEMMA BlocksNext == PipelineInv /\ BlocksInv /\ [Next]_vars => BlocksStep
<1> SUFFICES ASSUME PipelineInv, BlocksInv, [Next]_vars PROVE BlocksStep
  OBVIOUS
<1>1. ASSUME NEW e \in Event, processEvent(e) PROVE BlocksStep
  BY Zenon, <1>1, BlocksSame DEF processEvent
<1>2. CASE applyAtropos
  BY ZenonT(30), <1>2, BlocksApplyAtropos
<1>3. CASE endProcessEvent
  BY ZenonT(30), <1>3, BlocksSame DEF endProcessEvent
<1>4. CASE blockFn
  BY Zenon, <1>4, BlocksBlockFn
<1>5. ASSUME NEW n \in 1..MaxFrames, WriteFullRecords(n) PROVE BlocksStep
  BY ZenonT(30), <1>5, BlocksWriteFullRecords
<1>6. ASSUME NEW ep \in Epochs, SwitchEpochTo(ep) PROVE BlocksStep
  BY ZenonT(30), <1>6, BlocksSwitchEpochTo
<1>7. CASE flusherCommit
  BY ZenonT(30), <1>7, BlocksSame DEF flusherCommit, tables
<1>8. CASE commit
  BY ZenonT(30), <1>8, BlocksCommit
<1>9. CASE Crash
  BY ZenonT(30), <1>9, BlocksCrashes
<1>10. ASSUME NEW e \in Event, ReprocessEpochEvent(e) PROVE BlocksStep
  BY Zenon, <1>10, BlocksSame DEF ReprocessEpochEvent
<1>11. CASE endReprocess
  BY ZenonT(30), <1>11, BlocksSame DEF endReprocess, tables
<1>12. CASE UNCHANGED vars
  BY ZenonT(30), <1>12, BlocksSame DEF vars, tables
<1> QED
  BY ZenonT(30), <1>1, <1>2, <1>3, <1>4, <1>5, <1>6, <1>7, <1>8, <1>9, <1>10, <1>11, <1>12 DEF Next

LEMMA BlocksInvariant == Spec => [](PipelineInv /\ BlocksInv)
<1>1. PipelineInv /\ BlocksInv /\ [Next]_vars => (PipelineInv /\ BlocksInv)'
  BY ZenonT(30), PipelineNext, BlocksNext DEF BlocksStep
<1>2. Init => PipelineInv /\ BlocksInv
  BY ZenonT(30), PipelineInit, BlocksInit
<1> QED
  BY <1>1, <1>2, PTL DEF Spec

\* A table that holds the blocks of the state, as ChainShown says it.
LEMMA ShownChain ==
    ASSUME NEW st, NEW frame, At(st, frame),
           NEW blocks, NEW index, Shown(blocks, index), Len(Root(st)) <= Len(blocks)
    PROVE  ChainShown(st, blocks, index)
<1>1. PICK root, k, m : root = Root(st) /\ k = Len(root) /\ m = Len(blocks)
  BY Zenon
<1>2. root \in Seq(Block) /\ k \in Nat /\ st.bs.LastBlock.idx = k /\ Begins(root, FinalChain)
  BY ZenonT(30), <1>1, AtChain
<1>3. /\ blocks \in Seq(Block) /\ m \in Nat /\ DOMAIN blocks = 1..m
      /\ \A i \in 1..m : blocks[i] = FinalChain[i] /\ i \in 1..Len(FinalChain)
  BY ZenonT(30), <1>1, ShownFacts
<1>4. k <= m
  BY Zenon, <1>1
<1>5. \A i \in 1..k : root[i] = FinalChain[i]
  BY ZenonT(30), <1>1, <1>2 DEF Begins
<1>6. SubSeq(blocks, 1, k) = root
  <2>1. \A i \in 1..k : i \in 1..m
    BY SMTT(30), <1>2, <1>3, <1>4
  <2>2. \A i \in 1..k : blocks[i] = root[i]
    BY ZenonT(30), <1>3, <1>5, <2>1
  <2>3. root = [i \in 1..k |-> root[i]]
    BY SMTT(30), <1>1, <1>2
  <2>4. SubSeq(blocks, 1, k) = [i \in 1..k |-> blocks[i]]
    BY SMTT(30), <1>2, <1>3, <1>4
  <2> QED
    BY SMTT(30), <2>2, <2>3, <2>4
<1>7. \A i \in DOMAIN blocks : index[blocks[i].atropos] = i
  BY ZenonT(30), <1>1, <1>3 DEF Shown
<1>8. \A i, j \in DOMAIN blocks : i < j => blocks[i].time < blocks[j].time
  BY ZenonT(30), <1>3, FinalChainOK
<1> QED
  BY ZenonT(30), <1>1, <1>2, <1>4, <1>6, <1>7, <1>8 DEF ChainShown, Root

\* The block table, its index by Atropos and the block state agree, in memory when
\* blockFn is not running and on disk always, and no Atropos makes two blocks,
\* although it may be elected twice: EndBlock, blockFn and WriteFullRecords write
\* the same chain.
THEOREM BlockIDsRight == Spec => []BlockIDsUnique
<1>1. PipelineInv /\ BlocksInv => BlockIDsUnique
  <2> SUFFICES ASSUME PipelineInv, BlocksInv PROVE BlockIDsUnique
    OBVIOUS
  <2>1. ChainShown(disk.bes, disk.Blocks, disk.BlockIndex)
    <3>1. PICK f : At(disk.bes, f)
      BY Zenon DEF PipelineInv, DiskOK
    <3> QED
      BY ZenonT(30), <3>1, ShownChain DEF BlocksInv
  <2>2. ASSUME blockProc = BlockProcIdle PROVE ChainShown(bes, Blocks, BlockIndex)
    <3>1. Target(blockProc, bes) = bes
      BY Zenon, <2>2 DEF Target
    <3>2. \E f : At(bes, f)
      <4>1. engine.pc \in {"idle", "commit"} \/ engine.pc = "process" \/ engine.pc = "reprocess"
        BY Zenon DEF PipelineInv, EngineOK
      <4> QED
        BY ZenonT(30), <3>1, <4>1 DEF PipelineInv, EngineOK, BetweenOK, ProcessOK, ReprocessOK
    <3>3. PICK f : At(bes, f)
      BY Zenon, <3>2
    <3> QED
      BY ZenonT(30), <3>3, ShownChain DEF BlocksInv
  <2> QED
    BY ZenonT(30), <2>1, <2>2 DEF BlockIDsUnique
<1> QED
  BY <1>1, BlocksInvariant, PTL

\* The table as the abstract specification sees it.
LEMMA PaddedShown ==
    ASSUME NEW blocks, NEW index, Shown(blocks, index)
    PROVE  /\ DOMAIN Padded(blocks) = DOMAIN FinalChain
           /\ \A i \in DOMAIN FinalChain :
                Padded(blocks)[i] = IF i \in 1..Len(blocks) THEN FinalChain[i] ELSE None
<1>1. DOMAIN blocks = 1..Len(blocks) /\ \A i \in 1..Len(blocks) : blocks[i] = FinalChain[i]
  BY Zenon, ShownFacts
<1>2. DOMAIN Padded(blocks) = DOMAIN FinalChain
  BY Zenon DEF Padded
<1>3. \A i \in DOMAIN FinalChain :
        Padded(blocks)[i] = IF i \in DOMAIN blocks THEN blocks[i] ELSE None
  BY Zenon DEF Padded
<1> QED
  BY ZenonT(30), <1>1, <1>2, <1>3

LEMMA ChainWrite ==
    ASSUME Shown(Blocks, BlockIndex), Shown(Blocks', BlockIndex'), BlocksGrow
    PROVE  Chain!Write
<1> DEFINE Slot == DOMAIN FinalChain
           old == Padded(Blocks)
           new == Padded(Blocks')
<1>1. /\ \A i \in Slot : old[i] = IF i \in 1..Len(Blocks) THEN FinalChain[i] ELSE None
      /\ DOMAIN new = Slot
      /\ \A i \in Slot : new[i] = IF i \in 1..Len(Blocks') THEN FinalChain[i] ELSE None
  BY Zenon, PaddedShown
<1>2. \A i \in 1..Len(Blocks) : i \in 1..Len(Blocks')
  <2>1. Len(Blocks) \in Nat /\ Len(Blocks') \in Nat /\ Len(Blocks) <= Len(Blocks')
    BY Zenon, ShownFacts DEF BlocksGrow
  <2> QED
    BY <2>1
<1>3. \A i \in Slot : new[i] = old[i] \/ (old[i] = None /\ new[i] \in {FinalChain[i]})
  BY ZenonT(30), <1>1, <1>2
<1>4. Padded(Blocks)' = new /\ Padded(disk.Blocks)' = Padded(disk.Blocks)
  BY DEF Padded, BlocksGrow
<1> HIDE DEF old, new
<1>5. new \in [Slot -> (UNION {[i \in Slot |-> {FinalChain[i]}][s] : s \in Slot}) \cup {None}]
  <2>1. new = [i \in Slot |-> new[i]]
    BY Zenon, <1>1 DEF new, Padded
  <2>2. ASSUME NEW i \in Slot
        PROVE  new[i] \in (UNION {[j \in Slot |-> {FinalChain[j]}][s] : s \in Slot}) \cup {None}
    <3>1. new[i] = FinalChain[i] \/ new[i] = None
      BY Zenon, <1>1
    <3>2. FinalChain[i] \in [j \in Slot |-> {FinalChain[j]}][i]
      BY Zenon
    <3> QED
      BY Zenon, <3>1, <3>2
  <2> QED
    BY Zenon, <2>1, <2>2
<1>6. \A s \in Slot : [i \in Slot |-> {FinalChain[i]}][s] = {FinalChain[s]}
  BY Zenon
<1> QED
  BY ZenonT(30), <1>3, <1>4, <1>5, <1>6 DEF Chain!Write, old

\* Whoever fills it, processEvent, blockFn or a snapsync, the block table
\* implements the abstract table that is written once per block, with the block
\* that the frames in order give; a crash goes back to the durable blocks.
THEOREM ChainRefines == Spec => BlocksWriteOnce
<1>1. ASSUME PipelineInv, BlocksInv, [Next]_vars
      PROVE  [Chain!Next]_<<Padded(Blocks), Padded(disk.Blocks)>>
  <2>1. BlocksInv' /\ (BlocksGrow \/ BlocksPersist \/ BlocksCrash)
    BY ZenonT(30), <1>1, BlocksNext DEF BlocksStep
  <2>2. CASE BlocksGrow
    <3>1. Shown(Blocks, BlockIndex) /\ Shown(Blocks', BlockIndex')
      BY SMTT(30), <1>1, <2>1 DEF BlocksInv
    <3> QED
      BY ZenonT(30), <2>2, <3>1, ChainWrite DEF Chain!Next
  <2>3. CASE BlocksPersist
    BY <2>3 DEF BlocksPersist, Padded, Chain!Next, Chain!Persist
  <2>4. CASE BlocksCrash
    BY <2>4 DEF BlocksCrash, Padded, Chain!Next, Chain!Crash
  <2> QED
    BY ZenonT(30), <2>1, <2>2, <2>3, <2>4
<1>2. Init => Chain!Init
  <2> SUFFICES ASSUME Init PROVE Chain!Init
    OBVIOUS
  <2>1. Blocks = <<>> /\ disk.Blocks = <<>>
    BY DEF Init, Durable
  <2>2. Padded(<<>>) = [i \in DOMAIN FinalChain |-> None]
    BY DEF Padded
  <2> QED
    BY ZenonT(30), <2>1, <2>2 DEF Chain!Init, Chain!Empty
<1> QED
  BY <1>1, <1>2, BlocksInvariant, PTL DEF Spec, BlocksWriteOnce, Chain!Spec

-----------------------------------------------------------------------------
(* Types: what the invariants above do not say. *)

BlockEpochStates == [bs : BlockStates, es : EpochStates]
EngineStates == {EngineIdle, [pc |-> "commit"], [pc |-> "reprocess"]}
                  \cup [pc : {"process"}, e : Event, oldEpoch : Epochs]

StatesOK(b, hist) ==
    b \in BlockEpochStates /\ \A h \in DOMAIN hist : hist[h] \in BlockEpochStates

TypeInv ==
    /\ StatesOK(bes, history) /\ StatesOK(disk.bes, disk.history)
    /\ HighestLamport \in Nat /\ heads \in SUBSET Event
    /\ engine \in EngineStates
    /\ blockProc = BlockProcIdle \/ blockProc.c.bs \in BlockStates
    /\ crashes \in 0..MaxCrashes

LEMMA TypeAfter ==
    ASSUME StatesOK(bes', history'), StatesOK(disk'.bes, disk'.history),
           HighestLamport' \in Nat, heads' \in SUBSET Event, engine' \in EngineStates,
           blockProc' = BlockProcIdle \/ blockProc'.c.bs \in BlockStates,
           crashes' \in 0..MaxCrashes
    PROVE  TypeInv'
  BY DEF TypeInv, EngineStates, EngineIdle, BlockProcIdle

LEMMA StatesRecord ==
    ASSUME NEW b, NEW x \in BlockStates, NEW y \in EpochStates, b = [bs |-> x, es |-> y]
    PROVE  b \in BlockEpochStates
  BY DEF BlockEpochStates

LEMMA AtRecord ==
    ASSUME NEW b, NEW x, NEW y, b = [bs |-> x, es |-> y], NEW f, At(b, f)
    PROVE  b \in BlockEpochStates
<1>1. b.bs = x /\ b.es = y
  BY Zenon
<1>2. x \in BlockStates /\ y \in EpochStates
  BY ZenonT(30), <1>1 DEF At
<1> QED
  BY Zenon, <1>2, StatesRecord

LEMMA TypeInit == Init => TypeInv
<1> SUFFICES ASSUME Init PROVE TypeInv
  OBVIOUS
<1>1. Genesis \in BlockEpochStates
  <2>1. Genesis = [bs |-> Genesis.bs, es |-> Genesis.es]
    BY DEF Genesis
  <2> QED
    BY ZenonT(30), <2>1, AtGenesis, AtRecord
<1>2. StatesOK(Genesis, [ep \in {1} |-> Genesis])
  BY ZenonT(30), <1>1 DEF StatesOK
<1>3. disk.bes = Genesis /\ disk.history = [ep \in {1} |-> Genesis] /\ engine \in EngineStates
      /\ HighestLamport \in Nat /\ crashes \in 0..MaxCrashes
  BY RulesAssumption DEF Init, Durable, EngineStates
<1> QED
  BY ZenonT(30), <1>2, <1>3 DEF Init, TypeInv

LEMMA TypeEpochIndex ==
    ASSUME TypeInv, NEW e \in Event, EpochIndex(e)
    PROVE  HighestLamport' \in Nat /\ heads' \in SUBSET Event
  BY Zenon, NoneOwnParent DEF TypeInv, EpochIndex

LEMMA WriteBlockStates ==
    ASSUME StatesOK(bes, history), NEW c, ~c.skip, WriteBlock(c), NEW f, At(After(c), f)
    PROVE  StatesOK(bes', history')
<1>1. bes' = [bs |-> FinalBs(c), es |-> c.es] /\ bes' = After(c)
  BY Zenon DEF WriteBlock, After
<1>2. bes' \in BlockEpochStates
  BY ZenonT(30), <1>1, AtRecord
<1>3. ASSUME NEW h \in DOMAIN history' PROVE history'[h] \in BlockEpochStates
  <2>1. history'[h] = bes' \/ (h \in DOMAIN history /\ history'[h] = history[h])
    BY <1>1, <1>3 DEF WriteBlock
  <2> QED
    BY ZenonT(30), <1>2, <2>1 DEF StatesOK
<1> QED
  BY ZenonT(30), <1>2, <1>3 DEF StatesOK

LEMMA TypeApplyAtropos ==
    ASSUME PipelineInv, TypeInv, applyAtropos
    PROVE  TypeInv'
<1>1. PICK c : AtroposStep(c)
  BY Zenon, AtroposSteps
<1>2. /\ StatesOK(bes, history) /\ StatesOK(disk.bes, disk.history)
      /\ HighestLamport \in Nat /\ heads \in SUBSET Event
      /\ engine \in EngineStates /\ crashes \in 0..MaxCrashes
  BY Zenon DEF TypeInv
<1>3. /\ disk' = disk /\ HighestLamport' = HighestLamport /\ heads' = heads /\ engine' = engine
      /\ crashes' = crashes /\ blockProc = BlockProcIdle
  BY ZenonT(30), <1>1 DEF AtroposStep
<1>4. c.bs \in BlockStates /\ c.es \in EpochStates
  BY ZenonT(30), <1>1 DEF AtroposStep, CallbacksLeave
<1>5. StatesOK(bes', history') /\ (blockProc' = BlockProcIdle \/ blockProc'.c.bs \in BlockStates)
  <2>1. PICK f : At(After(c), f)
    BY Zenon, <1>1 DEF AtroposStep
  <2>2. [bs |-> c.bs, es |-> c.es] \in BlockEpochStates
    BY Zenon, <1>4, StatesRecord
  <2>3. CASE /\ c.skip /\ bes' = [bs |-> c.bs, es |-> c.es]
             /\ history' = history /\ blockProc' = blockProc
    BY ZenonT(30), <1>2, <1>3, <2>2, <2>3 DEF StatesOK
  <2>4. CASE /\ bes' = (IF c.sealing THEN [bs |-> c.bs, es |-> c.es] ELSE bes)
             /\ blockProc' = [pc |-> "run", c |-> c] /\ history' = history
    <3>1. blockProc'.c = c
      BY <2>4
    <3>2. bes' \in BlockEpochStates
      BY ZenonT(30), <1>2, <2>2, <2>4 DEF StatesOK
    <3> QED
      BY ZenonT(30), <1>2, <1>4, <2>4, <3>1, <3>2 DEF StatesOK
  <2>5. CASE ~c.skip /\ WriteBlock(c) /\ blockProc' = blockProc
    BY ZenonT(30), <1>2, <1>3, <2>1, <2>5, WriteBlockStates
  <2> QED
    BY ZenonT(30), <1>1, <2>3, <2>4, <2>5 DEF AtroposStep
<1> QED
  BY ZenonT(30), <1>2, <1>3, <1>5, TypeAfter

LEMMA TypeBlockFn ==
    ASSUME PipelineInv, TypeInv, blockFn
    PROVE  TypeInv'
<1>1. PICK c : c = blockProc.c
  BY Zenon
<1>2. blockProc # BlockProcIdle
  BY DEF blockFn, BlockProcIdle
<1>3. ~c.skip /\ Target(blockProc, bes) = After(c)
  BY ZenonT(30), <1>1, <1>2 DEF PipelineInv, WorkOK, Target
<1>4. WriteBlock(c) /\ blockProc' = BlockProcIdle
  BY ZenonT(30), <1>1 DEF blockFn
<1>5. PICK f : At(After(c), f)
  <2>1. engine.pc \in {"idle", "commit"} \/ engine.pc = "process" \/ engine.pc = "reprocess"
    BY Zenon DEF PipelineInv, EngineOK
  <2> QED
    BY ZenonT(30), <1>2, <1>3, <2>1 DEF PipelineInv, EngineOK, BetweenOK, ProcessOK, ReprocessOK
<1>6. StatesOK(bes', history')
  BY ZenonT(30), <1>3, <1>4, <1>5, WriteBlockStates DEF TypeInv
<1> QED
  BY ZenonT(30), <1>4, <1>6, TypeAfter DEF TypeInv, blockFn

LEMMA TypeNext == PipelineInv /\ TypeInv /\ [Next]_vars => TypeInv'
<1> SUFFICES ASSUME PipelineInv, TypeInv, [Next]_vars PROVE TypeInv'
  OBVIOUS
<1>1. /\ StatesOK(bes, history) /\ StatesOK(disk.bes, disk.history)
      /\ HighestLamport \in Nat /\ heads \in SUBSET Event /\ engine \in EngineStates
      /\ blockProc = BlockProcIdle \/ blockProc.c.bs \in BlockStates
      /\ crashes \in 0..MaxCrashes
  BY Zenon DEF TypeInv
<1>2. EngineIdle \in EngineStates /\ [pc |-> "commit"] \in EngineStates
      /\ [pc |-> "reprocess"] \in EngineStates
      /\ \A e \in Event, ep \in Epochs : [pc |-> "process", e |-> e, oldEpoch |-> ep] \in EngineStates
  BY DEF EngineStates
<1>3. ASSUME NEW e \in Event, processEvent(e) PROVE TypeInv'
  <2>1. engine' \in EngineStates
    <3>1. bes.es.Epoch \in Epochs
      BY ZenonT(30), <1>3, EventsAssumption DEF processEvent
    <3> QED
      BY ZenonT(30), <1>2, <1>3, <3>1 DEF processEvent
  <2> QED
    BY ZenonT(30), <1>1, <1>3, <2>1, TypeAfter DEF processEvent
<1>4. CASE applyAtropos
  BY ZenonT(30), <1>4, TypeApplyAtropos
<1>5. CASE endProcessEvent
  <2>1. engine.e \in Event
    <3>1. engine.e \in events
      BY ZenonT(30), <1>5 DEF PipelineInv, EngineOK, ProcessOK, endProcessEvent
    <3> QED
      BY ZenonT(30), <3>1 DEF PipelineInv, TablesOK
  <2>2. HighestLamport' \in Nat /\ heads' \in SUBSET Event
    <3>1. CASE heads' = {} /\ HighestLamport' = 0
      BY <3>1
    <3>2. CASE EpochIndex(engine.e)
      BY ZenonT(30), <2>1, <3>2, TypeEpochIndex
    <3> QED
      BY ZenonT(30), <1>5, <3>1, <3>2 DEF endProcessEvent
  <2>3. engine' \in EngineStates
    BY ZenonT(30), <1>2, <1>5 DEF endProcessEvent
  <2> QED
    BY ZenonT(30), <1>1, <1>5, <2>2, <2>3, TypeAfter DEF endProcessEvent
<1>6. CASE blockFn
  BY Zenon, <1>6, TypeBlockFn
<1>7. ASSUME NEW n \in 1..MaxFrames, WriteFullRecords(n) PROVE TypeInv'
  <2>1. n \in 0..MaxFrames
    OBVIOUS
  <2>2. Sequential[n] \in State
    BY ZenonT(30), <2>1, SequentialState
  <2>3. Sequential[n].bs \in BlockStates /\ Sequential[n].es \in EpochStates
    BY <2>2 DEF State
  <2>4. PICK st : st = [bs |-> Sequential[n].bs, es |-> Sequential[n].es]
    BY Zenon
  <2>5. st \in BlockEpochStates
    BY ZenonT(30), <2>3, <2>4, StatesRecord
  <2>6. history' = [ep \in DOMAIN history \cup {Sequential[n].es.Epoch} |->
                      IF ep = Sequential[n].es.Epoch THEN st ELSE history[ep]]
    BY ZenonT(30), <1>7, <2>4 DEF WriteFullRecords
  <2>7. ASSUME NEW h \in DOMAIN history' PROVE history'[h] \in BlockEpochStates
    <3>1. history'[h] = st \/ (h \in DOMAIN history /\ history'[h] = history[h])
      BY SMTT(30), <2>6, <2>7
    <3> QED
      BY ZenonT(30), <1>1, <2>5, <3>1 DEF StatesOK
  <2>8. StatesOK(bes', history')
    BY ZenonT(30), <1>1, <1>7, <2>7 DEF StatesOK, WriteFullRecords
  <2> QED
    BY ZenonT(30), <1>1, <1>7, <2>8, TypeAfter DEF WriteFullRecords
<1>8. ASSUME NEW ep \in Epochs, SwitchEpochTo(ep) PROVE TypeInv'
  <2>1. StatesOK(bes', history')
    BY ZenonT(30), <1>1, <1>8 DEF StatesOK, SwitchEpochTo
  <2>2. HighestLamport' \in Nat /\ heads' \in SUBSET Event
    BY <1>8 DEF SwitchEpochTo
  <2> QED
    BY ZenonT(30), <1>1, <1>2, <1>8, <2>1, <2>2, TypeAfter DEF SwitchEpochTo
<1>9. CASE flusherCommit
  BY ZenonT(30), <1>1, <1>2, <1>9, TypeAfter DEF flusherCommit, tables
<1>10. CASE commit
  <2>1. disk'.bes = bes /\ disk'.history = history
    BY <1>10 DEF commit, Durable
  <2> QED
    BY ZenonT(30), <1>1, <1>2, <1>10, <2>1, TypeAfter DEF commit, tables
<1>11. CASE Crash
  <2>1. HighestLamport' \in Nat
    BY ZenonT(30), <1>11 DEF Crash, PipelineInv, DiskOK, LamportOf
  <2>2. heads' \in SUBSET Event
    BY <1>11 DEF Crash
  <2>3. crashes' \in 0..MaxCrashes
    BY SMTT(30), <1>1, <1>11, RulesAssumption DEF Crash
  <2> QED
    BY ZenonT(30), <1>1, <1>2, <1>11, <2>1, <2>2, <2>3, TypeAfter DEF Crash
<1>12. ASSUME NEW e \in Event, ReprocessEpochEvent(e) PROVE TypeInv'
  <2>1. HighestLamport' \in Nat /\ heads' \in SUBSET Event
    BY ZenonT(30), <1>12, TypeEpochIndex DEF ReprocessEpochEvent
  <2> QED
    BY ZenonT(30), <1>1, <1>12, <2>1, TypeAfter DEF ReprocessEpochEvent
<1>13. CASE endReprocess
  BY ZenonT(30), <1>1, <1>2, <1>13, TypeAfter DEF endReprocess, tables
<1>14. CASE UNCHANGED vars
  BY ZenonT(30), <1>1, <1>14, TypeAfter DEF vars, tables
<1> QED
  BY ZenonT(30), <1>3, <1>4, <1>5, <1>6, <1>7, <1>8, <1>9, <1>10, <1>11, <1>12, <1>13, <1>14 DEF Next

\* Every table, cache and closure of the pipeline holds values of its type, the
\* block state after any number of epochs included.
THEOREM TypeCorrect == Spec => []TypeOK
<1>1. PipelineInv /\ BlocksInv /\ TypeInv => TypeOK
  <2> SUFFICES ASSUME PipelineInv, BlocksInv, TypeInv PROVE TypeOK
    OBVIOUS
  <2>1. events \in SUBSET Event
    BY Zenon DEF PipelineInv, TablesOK
  <2>2. Blocks \in Seq([atropos : Atropos, time : Nat]) /\ BlockIndex \in [Atropos -> Nat]
    BY ZenonT(30), ShownFacts DEF BlocksInv, Shown, Block
  <2>3. lachesis \in [epoch : Nat, events : SUBSET Event, frame : Nat]
    <3>1. lachesis \in [epoch : {bes.es.Epoch}, events : SUBSET Event, frame : Nat]
          /\ bes.es \in EpochStates
      BY Zenon DEF PipelineInv, EngineOK, WorkOK
    <3>2. bes.es.Epoch \in Nat
      BY <3>1 DEF EpochStates
    <3> QED
      BY SMTT(30), <3>1, <3>2
  <2> QED
    BY ZenonT(30), <2>1, <2>2, <2>3 DEF TypeOK, TypeInv, StatesOK, BlockEpochStates, EngineStates
<1>2. PipelineInv /\ BlocksInv /\ TypeInv /\ [Next]_vars => (PipelineInv /\ BlocksInv /\ TypeInv)'
  BY ZenonT(30), PipelineNext, BlocksNext, TypeNext DEF BlocksStep
<1>3. Init => PipelineInv /\ BlocksInv /\ TypeInv
  BY ZenonT(30), PipelineInit, BlocksInit, TypeInit
<1> QED
  BY <1>1, <1>2, <1>3, PTL DEF Spec
=============================================================================
