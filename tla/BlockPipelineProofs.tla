------------------------- MODULE BlockPipelineProofs -------------------------
(***************************************************************************)
(* Proofs about BlockPipeline, for any DAG and any number of frames,       *)
(* epochs, cheaters and crashes: the state is the one that executing the   *)
(* frames one by one gives, the index of the epoch fits the stored events, *)
(* and no cheater survives the sealing of its epoch.                       *)
(*                                                                         *)
(* What Sequential[n] is for every n is shown by a least counterexample:   *)
(* the set of the n that violate the claim would have a least element.     *)
(* PipelineInv is the inductive invariant: it says where between two frames*)
(* bes, the history, the engine, the unwritten block and the disk stand.   *)
(* BlockPipelineChainProofs builds on it.                                  *)
(***************************************************************************)
EXTENDS BlockPipeline, TLAPS, WellFoundedInduction

-----------------------------------------------------------------------------
(* Numbers and sequences. *)

\* A nonempty set of naturals has a least element.
LEMMA LeastNatural ==
    ASSUME NEW S \in SUBSET Nat, S # {}
    PROVE  \E n \in S : \A m \in S : n <= m
<1> DEFINE Less == {p \in Nat \X Nat : p[1] < p[2]}
<1>1. OpToRel(<, Nat) = Less
  BY Zenon DEF OpToRel
<1>2. IsWellFoundedOn(Less, Nat)
  BY Zenon, <1>1, NatLessThanWellFounded
<1>3. \A x, y \in Nat : <<y, x>> \in Less <=> y < x
  BY DEF Less
<1> HIDE DEF Less
<1>4. PICK n \in S : \A m \in S : ~(<<m, n>> \in Less)
  BY Zenon, <1>2, WFMin
<1>5. \A m \in S : ~(m < n)
  BY Zenon, <1>3, <1>4
<1> QED
  BY <1>5

LEMMA AppendOne ==
    ASSUME NEW S, NEW s \in Seq(S), NEW x \in S
    PROVE  /\ Append(s, x) \in Seq(S) /\ Len(Append(s, x)) = Len(s) + 1
           /\ \A i \in 1..Len(s) : Append(s, x)[i] = s[i]
           /\ Append(s, x)[Len(s) + 1] = x
  OBVIOUS

-----------------------------------------------------------------------------
(* Lists of cheaters. *)

MergeStep(a, b, m, i) ==
    IF i = 0 THEN a ELSE IF b[i] \in Elements(a) THEN m[i - 1] ELSE Append(m[i - 1], b[i])
Merges(a, b, m, k) == m = [i \in 0..k |-> MergeStep(a, b, m, i)]

LEMMA MergesOneMore ==
    ASSUME NEW k \in Nat, NEW a, NEW b, NEW f, Merges(a, b, f, k)
    PROVE  \E g : Merges(a, b, g, k + 1)
<1> DEFINE g == [i \in 0..(k + 1) |-> MergeStep(a, b, f, i)]
<1>1. ASSUME NEW i \in 0..(k + 1), i # 0 PROVE g[i - 1] = f[i - 1]
  <2>1. i - 1 \in 0..k /\ i - 1 \in 0..(k + 1)
    BY <1>1
  <2>2. g[i - 1] = MergeStep(a, b, f, i - 1)
    BY Zenon, <2>1
  <2>3. f[i - 1] = MergeStep(a, b, f, i - 1)
    BY Zenon, <2>1 DEF Merges
  <2> QED
    BY Zenon, <2>2, <2>3
<1> HIDE DEF g
<1>2. \A i \in 0..(k + 1) : MergeStep(a, b, f, i) = MergeStep(a, b, g, i)
  BY Zenon, <1>1 DEF MergeStep
<1>3. g = [i \in 0..(k + 1) |-> MergeStep(a, b, f, i)]
  BY Zenon DEF g
<1>4. g = [i \in 0..(k + 1) |-> MergeStep(a, b, g, i)]
  BY Zenon, <1>2, <1>3
<1> QED
  BY Zenon, <1>4 DEF Merges

LEMMA MergesExist ==
    ASSUME NEW k \in Nat, NEW a, NEW b
    PROVE  \E f : Merges(a, b, f, k)
<1> DEFINE S == {n \in Nat : ~\E f : Merges(a, b, f, n)}
<1> SUFFICES ASSUME S # {} PROVE FALSE
  BY Zenon
<1>1. S \in SUBSET Nat
  BY Zenon
<1>2. PICK n \in S : \A m \in S : n <= m
  BY Zenon, <1>1, LeastNatural
<1>3. n \in Nat /\ ~\E f : Merges(a, b, f, n)
  BY Zenon
<1>4. n # 0
  <2> DEFINE f == [i \in 0..0 |-> a]
  <2>1. \A i \in 0..0 : a = MergeStep(a, b, f, i)
    BY DEF MergeStep
  <2>2. Merges(a, b, f, 0)
    BY Zenon, <2>1 DEF Merges
  <2> QED
    BY Zenon, <1>3, <2>2
<1>5. n - 1 \in Nat /\ ~(n <= n - 1) /\ n - 1 + 1 = n
  BY <1>3, <1>4
<1>6. \E f : Merges(a, b, f, n - 1)
  BY Zenon, <1>2, <1>5
<1> QED
  BY Zenon, <1>3, <1>5, <1>6, MergesOneMore

\* mergeCheaters keeps the first list as it is, and has all of the second.
LEMMA MergeCheaters ==
    ASSUME NEW a \in Seq(Validator), NEW b \in Seq(Validator)
    PROVE  /\ mergeCheaters(a, b) \in Seq(Validator)
           /\ Len(a) <= Len(mergeCheaters(a, b))
           /\ \A i \in 1..Len(a) : mergeCheaters(a, b)[i] = a[i]
           /\ Elements(a) \cup Elements(b) \subseteq Elements(mergeCheaters(a, b))
<1> DEFINE m == CHOOSE f : Merges(a, b, f, Len(b))
<1>1. mergeCheaters(a, b) = m[Len(b)]
  BY Zenon DEF mergeCheaters, Merges, MergeStep
<1>2. Len(b) \in Nat
  OBVIOUS
<1>3. Merges(a, b, m, Len(b))
  BY Zenon, <1>2, MergesExist
<1> HIDE DEF m
<1>4. \A i \in 0..Len(b) : m[i] = MergeStep(a, b, m, i)
  BY Zenon, <1>3 DEF Merges
<1> DEFINE Good(k) == /\ m[k] \in Seq(Validator) /\ Len(a) <= Len(m[k])
                      /\ \A i \in 1..Len(a) : m[k][i] = a[i]
                      /\ \A j \in 1..k : b[j] \in Elements(m[k]) \cup Elements(a)
           Bad == {k \in 0..Len(b) : ~Good(k)}
<1>5. Good(0)
  <2>1. m[0] = a
    BY <1>2, <1>4 DEF MergeStep
  <2> QED
    BY <2>1
<1>6. ASSUME NEW k \in 1..Len(b), Good(k - 1) PROVE Good(k)
  <2>1. k \in 0..Len(b) /\ k # 0 /\ k - 1 \in 0..Len(b) /\ b[k] \in Validator
    BY <1>2, <1>6
  <2>2. m[k] = IF b[k] \in Elements(a) THEN m[k - 1] ELSE Append(m[k - 1], b[k])
    BY Zenon, <1>4, <2>1 DEF MergeStep
  <2>3. CASE b[k] \in Elements(a)
    <3>1. m[k] = m[k - 1]
      BY Zenon, <2>2, <2>3
    <3>2. \A j \in 1..k : j = k \/ j \in 1..(k - 1)
      BY <2>1
    <3> QED
      BY Zenon, <1>6, <2>3, <3>1, <3>2
  <2>4. CASE b[k] \notin Elements(a)
    <3> DEFINE p == m[k - 1]
    <3>1. m[k] = Append(p, b[k])
      BY Zenon, <2>2, <2>4
    <3>2. /\ p \in Seq(Validator) /\ Len(a) <= Len(p) /\ \A i \in 1..Len(a) : p[i] = a[i]
          /\ \A j \in 1..(k - 1) : b[j] \in Elements(p) \cup Elements(a)
      BY Zenon, <1>6
    <3> HIDE DEF p
    <3>3. /\ m[k] \in Seq(Validator) /\ Len(m[k]) = Len(p) + 1
          /\ \A i \in 1..Len(p) : m[k][i] = p[i]
          /\ m[k][Len(p) + 1] = b[k]
      BY <2>1, <3>1, <3>2
    <3>4. Len(a) <= Len(m[k]) /\ \A i \in 1..Len(a) : m[k][i] = a[i]
      BY <3>2, <3>3
    <3>5. Elements(p) \subseteq Elements(m[k]) /\ b[k] \in Elements(m[k])
      <4>1. /\ DOMAIN p = 1..Len(p) /\ DOMAIN m[k] = 1..Len(m[k]) /\ Len(p) + 1 \in 1..Len(m[k])
            /\ \A i \in 1..Len(p) : i \in 1..Len(m[k])
        BY <3>2, <3>3
      <4> QED
        BY Zenon, <3>3, <4>1 DEF Elements
    <3>6. \A j \in 1..k : j = k \/ j \in 1..(k - 1)
      BY <2>1
    <3>7. \A j \in 1..k : b[j] \in Elements(m[k]) \cup Elements(a)
      BY Zenon, <3>2, <3>5, <3>6
    <3> QED
      BY Zenon, <3>3, <3>4, <3>7
  <2> QED
    BY Zenon, <2>3, <2>4
<1>7. Good(Len(b))
  <2> SUFFICES ASSUME Bad # {} PROVE FALSE
    BY <1>2
  <2>1. Bad \in SUBSET Nat
    BY <1>2
  <2>2. PICK k \in Bad : \A j \in Bad : k <= j
    BY Zenon, <2>1, LeastNatural
  <2>3. k \in 0..Len(b) /\ ~Good(k)
    BY Zenon
  <2>4. k # 0
    BY Zenon, <1>5, <2>3
  <2> HIDE DEF Good
  <2>5. k \in 1..Len(b) /\ k - 1 \in 0..Len(b) /\ ~(k <= k - 1)
    BY <1>2, <2>3, <2>4
  <2>6. Good(k - 1)
    BY Zenon, <2>2, <2>5
  <2> QED
    BY Zenon, <1>6, <2>3, <2>5, <2>6
<1>8. Elements(a) \subseteq Elements(m[Len(b)])
  BY SMTT(30), <1>7 DEF Elements
<1>9. Elements(b) \subseteq Elements(m[Len(b)])
  <2>1. DOMAIN b = 1..Len(b)
    OBVIOUS
  <2> QED
    BY Zenon, <1>7, <1>8, <2>1 DEF Elements
<1> HIDE DEF Bad
<1> QED
  BY Zenon, <1>1, <1>7, <1>8, <1>9

-----------------------------------------------------------------------------
(* What the callbacks do with a block state. *)

FrameOK(fr) ==
    /\ fr.applied \in BOOLEAN /\ fr.txs \in BOOLEAN /\ fr.atropos \in Atropos
    /\ fr.time \in Nat /\ fr.gas \in Nat /\ fr.advance \in Nat
    /\ fr.cheaters \in Seq(Validator) /\ fr.mps \in Seq(Validator)

LEMMA FramesOK ==
    ASSUME NEW ep \in Epochs, NEW f \in 1..Len(Frames[ep])
    PROVE  FrameOK(Frames[ep][f])
<1>1. f \in DOMAIN Frames[ep]
  BY Zenon, FramesAssumption
<1>2. Frames[ep][f].atropos \in Atropos
  <2>1. Frames[ep][f].atropos \in {Frames[ep][g].atropos : g \in DOMAIN Frames[ep]}
    BY Zenon, <1>1
  <2> QED
    BY <2>1 DEF Atropos
<1>3. LET fr == Frames[ep][f]
      IN  /\ fr.applied \in BOOLEAN /\ fr.txs \in BOOLEAN
          /\ fr.time \in Nat /\ fr.gas \in Nat /\ fr.advance \in Nat
          /\ fr.cheaters \in Seq(Validator) /\ fr.mps \in Seq(Validator)
  BY SMTT(30), <1>1, FramesAssumption
<1> QED
  BY Zenon, <1>2, <1>3 DEF FrameOK

LEMMA BlockTimeLater ==
    ASSUME NEW bs \in BlockStates, NEW fr, FrameOK(fr)
    PROVE  blockTime(bs, fr) \in Nat /\ blockTime(bs, fr) > bs.LastBlock.time
<1>1. bs.LastBlock.time \in Nat
  BY DEF BlockStates
<1>2. fr.applied \in BOOLEAN /\ fr.time \in Nat
  BY Zenon DEF FrameOK
<1> QED
  BY <1>1, <1>2 DEF blockTime

BeginBlockLeaves(b, bs, fr) ==
    /\ b \in BlockStates
    /\ b.EpochCheaters = mergeCheaters(bs.EpochCheaters, fr.cheaters)
    /\ b.LastBlock = bs.LastBlock /\ b.FinalizedStateRoot = bs.FinalizedStateRoot
    /\ b.ValidatorStates = bs.ValidatorStates
    /\ b.CheatersWritten = bs.CheatersWritten /\ b.NextValidators = bs.NextValidators

LEMMA BeginBlockState ==
    ASSUME NEW bs \in BlockStates, NEW fr, FrameOK(fr)
    PROVE  BeginBlockLeaves(BeginBlock(bs, fr), bs, fr)
<1> DEFINE m == mergeCheaters(bs.EpochCheaters, fr.cheaters)
<1>1. m \in Seq(Validator)
  <2>1. bs.EpochCheaters \in Seq(Validator) /\ fr.cheaters \in Seq(Validator)
    BY DEF BlockStates, FrameOK
  <2> QED
    BY Zenon, <2>1, MergeCheaters
<1>2. BeginBlock(bs, fr) = [bs EXCEPT !.EpochCheaters = m]
  BY Zenon DEF BeginBlock
<1> HIDE DEF m
<1>3. LET b == [bs EXCEPT !.EpochCheaters = m]
      IN  /\ b \in BlockStates /\ b.EpochCheaters = m
          /\ b.LastBlock = bs.LastBlock /\ b.FinalizedStateRoot = bs.FinalizedStateRoot
          /\ b.ValidatorStates = bs.ValidatorStates
          /\ b.CheatersWritten = bs.CheatersWritten /\ b.NextValidators = bs.NextValidators
  BY <1>1 DEF BlockStates
<1> QED
  BY Zenon, <1>2, <1>3 DEF m, BeginBlockLeaves

FinalizeEventsLeaves(b, bs, fr, id) ==
    /\ b \in BlockStates
    /\ b.EpochCheaters = mergeCheaters(bs.EpochCheaters, fr.mps)
    /\ b.LastBlock = bs.LastBlock /\ b.FinalizedStateRoot = bs.FinalizedStateRoot
    /\ b.ValidatorStates = Append(bs.ValidatorStates, id)
    /\ b.CheatersWritten = bs.CheatersWritten /\ b.NextValidators = bs.NextValidators

LEMMA FinalizeEventsState ==
    ASSUME NEW bs \in BlockStates, NEW fr, FrameOK(fr), NEW id \in Epochs \X Nat
    PROVE  FinalizeEventsLeaves(FinalizeEvents(bs, fr, id), bs, fr, id)
<1> DEFINE m == mergeCheaters(bs.EpochCheaters, fr.mps)
           vs == Append(bs.ValidatorStates, id)
           gas == bs.EpochGas + fr.gas
<1>1. m \in Seq(Validator)
  <2>1. bs.EpochCheaters \in Seq(Validator) /\ fr.mps \in Seq(Validator)
    BY DEF BlockStates, FrameOK
  <2> QED
    BY Zenon, <2>1, MergeCheaters
<1>2. vs \in Seq(Epochs \X Nat)
  <2>1. bs.ValidatorStates \in Seq(Epochs \X Nat)
    BY DEF BlockStates
  <2> QED
    BY Zenon, <2>1, AppendOne
<1>3. gas \in Nat
  <2>1. bs.EpochGas \in Nat /\ fr.gas \in Nat
    BY DEF BlockStates, FrameOK
  <2> QED
    BY <2>1
<1>4. FinalizeEvents(bs, fr, id) = [bs EXCEPT !.ValidatorStates = vs, !.EpochGas = gas, !.EpochCheaters = m]
  BY Zenon DEF FinalizeEvents
<1> HIDE DEF m, vs, gas
<1>5. LET b == [bs EXCEPT !.ValidatorStates = vs, !.EpochGas = gas, !.EpochCheaters = m]
      IN  /\ b \in BlockStates /\ b.EpochCheaters = m
          /\ b.LastBlock = bs.LastBlock /\ b.FinalizedStateRoot = bs.FinalizedStateRoot
          /\ b.ValidatorStates = vs
          /\ b.CheatersWritten = bs.CheatersWritten /\ b.NextValidators = bs.NextValidators
  BY <1>1, <1>2, <1>3 DEF BlockStates
<1> QED
  BY Zenon, <1>4, <1>5 DEF m, vs, FinalizeEventsLeaves

LEMMA ExecutePreInternalState ==
    ASSUME NEW bs \in BlockStates
    PROVE  LET b == ExecutePreInternal(bs)
           IN  /\ b \in BlockStates /\ b.EpochCheaters = bs.EpochCheaters
               /\ b.LastBlock = bs.LastBlock /\ b.FinalizedStateRoot = bs.FinalizedStateRoot
               /\ b.ValidatorStates = bs.ValidatorStates
               /\ b.CheatersWritten = bs.CheatersWritten
               /\ b.NextValidators = bs.NextValidators \ Elements(PopInternalTxs(bs))
<1> DEFINE next == bs.NextValidators \ Elements(PopInternalTxs(bs))
<1>1. next \in SUBSET Validator
  BY DEF BlockStates
<1>2. ExecutePreInternal(bs) = [bs EXCEPT !.NextValidators = next]
  BY Zenon DEF ExecutePreInternal
<1> HIDE DEF next
<1>3. LET b == [bs EXCEPT !.NextValidators = next]
      IN  /\ b \in BlockStates /\ b.EpochCheaters = bs.EpochCheaters
          /\ b.LastBlock = bs.LastBlock /\ b.FinalizedStateRoot = bs.FinalizedStateRoot
          /\ b.ValidatorStates = bs.ValidatorStates
          /\ b.CheatersWritten = bs.CheatersWritten /\ b.NextValidators = next
  BY SMTT(30), <1>1 DEF BlockStates
<1> QED
  BY Zenon, <1>2, <1>3 DEF next

LEMMA SealBsState ==
    ASSUME NEW bs \in BlockStates
    PROVE  LET b == SealBs(bs)
           IN  /\ b \in BlockStates /\ b.EpochCheaters = <<>>
               /\ b.LastBlock = bs.LastBlock /\ b.FinalizedStateRoot = bs.FinalizedStateRoot
               /\ b.ValidatorStates = bs.ValidatorStates
               /\ b.CheatersWritten = 0 /\ b.NextValidators = bs.NextValidators
<1> DEFINE adv == IF bs.AdvanceEpochs > 0 THEN bs.AdvanceEpochs - 1 ELSE bs.AdvanceEpochs
<1>1. adv \in Nat
  BY DEF BlockStates
<1>2. <<>> \in Seq(Validator)
  OBVIOUS
<1>3. SealBs(bs) = [bs EXCEPT !.EpochGas = 0, !.EpochCheaters = <<>>, !.CheatersWritten = 0,
                              !.AdvanceEpochs = adv]
  BY Zenon DEF SealBs
<1> HIDE DEF adv
<1>4. LET b == [bs EXCEPT !.EpochGas = 0, !.EpochCheaters = <<>>, !.CheatersWritten = 0,
                          !.AdvanceEpochs = adv]
      IN  /\ b \in BlockStates /\ b.EpochCheaters = <<>>
          /\ b.LastBlock = bs.LastBlock /\ b.FinalizedStateRoot = bs.FinalizedStateRoot
          /\ b.ValidatorStates = bs.ValidatorStates
          /\ b.CheatersWritten = 0 /\ b.NextValidators = bs.NextValidators
  BY <1>1, <1>2 DEF BlockStates
<1> QED
  BY Zenon, <1>3, <1>4

\* EndBlock as a whole, from the state that FinalizeEvents leaves.
EndBlockLeaves(c, bs, es, fr, id, fin) ==
    /\ c.skip \in BOOLEAN /\ c.sealing \in BOOLEAN /\ (c.skip => ~c.sealing)
    /\ c.skip <=> skipBlock(bs, fr)
    /\ c.fr = fr /\ c.ctx = [idx |-> bs.LastBlock.idx + 1, time |-> blockTime(bs, fr)]
    /\ c.bs \in BlockStates /\ c.es \in EpochStates
    /\ c.bs.LastBlock = bs.LastBlock /\ c.bs.FinalizedStateRoot = bs.FinalizedStateRoot
    /\ c.bs.ValidatorStates = Append(bs.ValidatorStates, id)
    /\ c.es.Epoch = IF c.sealing THEN es.Epoch + 1 ELSE es.Epoch
    /\ ~c.sealing => c.es = es
    /\ c.es.Validators = IF c.sealing THEN c.bs.NextValidators ELSE es.Validators
    /\ c.bs.EpochCheaters = IF c.sealing THEN <<>> ELSE fin.EpochCheaters
    /\ c.bs.CheatersWritten = IF c.sealing THEN 0 ELSE bs.CheatersWritten
    /\ c.bs.NextValidators = IF c.skip THEN bs.NextValidators
                             ELSE bs.NextValidators \ Elements(PopInternalTxs(fin))

LEMMA EndBlockState ==
    ASSUME NEW bs \in BlockStates, NEW es \in EpochStates, NEW fr, FrameOK(fr),
           NEW id \in Epochs \X Nat
    PROVE  EndBlockLeaves(EndBlock(bs, es, fr, id), bs, es, fr, id, FinalizeEvents(bs, fr, id))
<1> DEFINE c == EndBlock(bs, es, fr, id)
           time == blockTime(bs, fr)
           skip == skipBlock(bs, fr)
           fin == FinalizeEvents(bs, fr, id)
           seal == ~skip /\ EpochSealing(fin, es, time)
           exec == IF skip THEN fin ELSE ExecutePreInternal(fin)
           ctx == [idx |-> bs.LastBlock.idx + 1, time |-> time]
           bs2 == IF seal THEN SealBs(exec) ELSE exec
           es2 == IF seal THEN SealEs(exec, es, time) ELSE es
<1>1. c = [skip |-> skip, sealing |-> seal, fr |-> fr, ctx |-> ctx, bs |-> bs2, es |-> es2]
  BY Zenon DEF EndBlock
<1>2. skip \in BOOLEAN /\ seal \in BOOLEAN /\ (skip => ~seal)
  BY Zenon DEF skipBlock, EpochSealing
<1>3. /\ fin \in BlockStates /\ fin.LastBlock = bs.LastBlock
      /\ fin.FinalizedStateRoot = bs.FinalizedStateRoot
      /\ fin.ValidatorStates = Append(bs.ValidatorStates, id)
      /\ fin.CheatersWritten = bs.CheatersWritten /\ fin.NextValidators = bs.NextValidators
  <2>1. FinalizeEventsLeaves(fin, bs, fr, id)
    BY Zenon, FinalizeEventsState
  <2> QED
    BY Zenon, <2>1 DEF FinalizeEventsLeaves
<1>4. time \in Nat
  BY Zenon, BlockTimeLater
<1> HIDE DEF c, time, skip, fin, seal, ctx
<1>5. /\ exec \in BlockStates /\ exec.LastBlock = fin.LastBlock
      /\ exec.FinalizedStateRoot = fin.FinalizedStateRoot
      /\ exec.ValidatorStates = fin.ValidatorStates /\ exec.EpochCheaters = fin.EpochCheaters
      /\ exec.CheatersWritten = fin.CheatersWritten
      /\ exec.NextValidators = IF skip THEN fin.NextValidators
                               ELSE fin.NextValidators \ Elements(PopInternalTxs(fin))
  BY Zenon, <1>3, ExecutePreInternalState
<1> HIDE DEF exec
<1>6. /\ bs2 \in BlockStates /\ bs2.LastBlock = exec.LastBlock
      /\ bs2.FinalizedStateRoot = exec.FinalizedStateRoot
      /\ bs2.ValidatorStates = exec.ValidatorStates
      /\ bs2.NextValidators = exec.NextValidators
      /\ bs2.EpochCheaters = IF seal THEN <<>> ELSE exec.EpochCheaters
      /\ bs2.CheatersWritten = IF seal THEN 0 ELSE exec.CheatersWritten
  BY Zenon, <1>5, SealBsState
<1>7. /\ es2 \in EpochStates
      /\ es2.Epoch = IF seal THEN es.Epoch + 1 ELSE es.Epoch
      /\ es2.Validators = IF seal THEN exec.NextValidators ELSE es.Validators
  <2>1. exec.NextValidators \in SUBSET Validator
    BY <1>5 DEF BlockStates
  <2>2. es.Epoch \in Nat
    BY DEF EpochStates
  <2>3. es.Epoch + 1 \in Nat
    BY <2>2
  <2>4. LET e == SealEs(exec, es, time)
        IN  e \in EpochStates /\ e.Epoch = es.Epoch + 1 /\ e.Validators = exec.NextValidators
    BY <1>4, <2>1, <2>3 DEF SealEs, EpochStates
  <2> QED
    BY Zenon, <2>4
<1> HIDE DEF bs2, es2
<1>8. /\ c.skip = skip /\ c.sealing = seal /\ c.fr = fr /\ c.ctx = ctx /\ c.bs = bs2 /\ c.es = es2
  BY <1>1
<1>9. /\ c.skip \in BOOLEAN /\ c.sealing \in BOOLEAN /\ (c.skip => ~c.sealing)
      /\ c.skip <=> skipBlock(bs, fr)
      /\ c.fr = fr /\ c.ctx = [idx |-> bs.LastBlock.idx + 1, time |-> blockTime(bs, fr)]
  BY Zenon, <1>2, <1>8 DEF skip, ctx, time
<1>10. /\ c.bs \in BlockStates /\ c.es \in EpochStates
       /\ c.bs.LastBlock = bs.LastBlock /\ c.bs.FinalizedStateRoot = bs.FinalizedStateRoot
       /\ c.bs.ValidatorStates = Append(bs.ValidatorStates, id)
       /\ c.es.Epoch = IF c.sealing THEN es.Epoch + 1 ELSE es.Epoch
       /\ ~c.sealing => c.es = es
  BY Zenon, <1>3, <1>5, <1>6, <1>7, <1>8 DEF es2
<1>11. /\ c.es.Validators = IF c.sealing THEN c.bs.NextValidators ELSE es.Validators
       /\ c.bs.EpochCheaters = IF c.sealing THEN <<>> ELSE fin.EpochCheaters
       /\ c.bs.CheatersWritten = IF c.sealing THEN 0 ELSE bs.CheatersWritten
       /\ c.bs.NextValidators = IF c.skip THEN bs.NextValidators
                                ELSE bs.NextValidators \ Elements(PopInternalTxs(fin))
  BY Zenon, <1>3, <1>5, <1>6, <1>7, <1>8
<1>12. EndBlockLeaves(c, bs, es, fr, id, fin)
  BY Zenon, <1>9, <1>10, <1>11 DEF EndBlockLeaves
<1> QED
  BY Zenon, <1>12 DEF c, fin

\* The block state that blockFn ends with.
FinalBsLeaves(b, c) ==
    /\ b \in BlockStates /\ b.LastBlock = c.ctx
    /\ b.FinalizedStateRoot = Append(c.bs.FinalizedStateRoot, BlockOf(c))
    /\ b.ValidatorStates = c.bs.ValidatorStates
    /\ b.EpochCheaters = c.bs.EpochCheaters /\ b.CheatersWritten = Len(c.bs.EpochCheaters)
    /\ b.NextValidators = c.bs.NextValidators

LEMMA FinalBsState ==
    ASSUME NEW c, c.bs \in BlockStates, FrameOK(c.fr), c.ctx \in [idx : Nat, time : Nat]
    PROVE  FinalBsLeaves(FinalBs(c), c)
<1> DEFINE root == Append(c.bs.FinalizedStateRoot, BlockOf(c))
           written == Len(c.bs.EpochCheaters)
           adv == IF c.bs.AdvanceEpochs + c.fr.advance > maxAdvanceEpochs
                  THEN maxAdvanceEpochs ELSE c.bs.AdvanceEpochs + c.fr.advance
<1>1. root \in Seq([atropos : Atropos, time : Nat])
  <2>1. c.fr.atropos \in Atropos /\ c.ctx.time \in Nat
    BY DEF FrameOK
  <2>2. BlockOf(c) \in [atropos : Atropos, time : Nat]
    BY <2>1 DEF BlockOf
  <2>3. c.bs.FinalizedStateRoot \in Seq([atropos : Atropos, time : Nat])
    BY DEF BlockStates
  <2> QED
    BY Zenon, <2>2, <2>3, AppendOne
<1>2. written \in Nat
  <2>1. c.bs.EpochCheaters \in Seq(Validator)
    BY DEF BlockStates
  <2> QED
    BY <2>1
<1>3. adv \in Nat
  <2>1. c.bs.AdvanceEpochs \in Nat /\ c.fr.advance \in Nat
    BY DEF BlockStates, FrameOK
  <2> QED
    BY <2>1, RulesAssumption
<1>4. FinalBs(c) = [c.bs EXCEPT !.FinalizedStateRoot = root, !.LastBlock = c.ctx,
                                !.CheatersWritten = written, !.AdvanceEpochs = adv]
  BY Zenon DEF FinalBs
<1> HIDE DEF root, written, adv
<1>5. ASSUME NEW bs \in BlockStates, NEW ctx \in [idx : Nat, time : Nat]
      PROVE  LET b == [bs EXCEPT !.FinalizedStateRoot = root, !.LastBlock = ctx,
                                 !.CheatersWritten = written, !.AdvanceEpochs = adv]
             IN  /\ b \in BlockStates /\ b.LastBlock = ctx /\ b.FinalizedStateRoot = root
                 /\ b.ValidatorStates = bs.ValidatorStates
                 /\ b.EpochCheaters = bs.EpochCheaters /\ b.CheatersWritten = written
                 /\ b.NextValidators = bs.NextValidators
  BY <1>1, <1>2, <1>3 DEF BlockStates
<1>6. LET b == [c.bs EXCEPT !.FinalizedStateRoot = root, !.LastBlock = c.ctx,
                            !.CheatersWritten = written, !.AdvanceEpochs = adv]
      IN  /\ b \in BlockStates /\ b.LastBlock = c.ctx /\ b.FinalizedStateRoot = root
          /\ b.ValidatorStates = c.bs.ValidatorStates
          /\ b.EpochCheaters = c.bs.EpochCheaters /\ b.CheatersWritten = written
          /\ b.NextValidators = c.bs.NextValidators
  BY <1>5
<1> QED
  BY Zenon, <1>4, <1>6 DEF root, written, FinalBsLeaves

\* What the callbacks make of the next frame of the epoch, and the state after it.
FrameOf(id) == Frames[id[1]][id[2]]
Callbacks(bs, es, frame) ==
    LET id == <<es.Epoch, frame + 1>>
    IN  EndBlock(BeginBlock(bs, FrameOf(id)), es, FrameOf(id), id)
After(c) == [bs |-> IF c.skip THEN c.bs ELSE FinalBs(c), es |-> c.es]

CallbacksLeave(c, bs, es, frame, fr) ==
    /\ FrameOK(fr) /\ <<es.Epoch, frame + 1>> \in Epochs \X Nat
    /\ c.skip \in BOOLEAN /\ c.sealing \in BOOLEAN /\ (c.skip => ~c.sealing)
    /\ ~c.skip => fr.applied
    /\ c.fr = fr /\ c.ctx \in [idx : Nat, time : Nat]
    /\ c.ctx.idx = bs.LastBlock.idx + 1 /\ c.ctx.time > bs.LastBlock.time
    /\ c.bs \in BlockStates /\ c.es \in EpochStates
    /\ c.bs.FinalizedStateRoot = bs.FinalizedStateRoot
    /\ After(c).bs \in BlockStates /\ After(c).es = c.es
    /\ After(c).bs = IF c.skip THEN c.bs ELSE FinalBs(c)
    /\ After(c).bs.ValidatorStates = Append(bs.ValidatorStates, <<es.Epoch, frame + 1>>)
    /\ After(c).bs.LastBlock = IF c.skip THEN bs.LastBlock ELSE c.ctx
    /\ After(c).bs.FinalizedStateRoot =
         IF c.skip THEN bs.FinalizedStateRoot ELSE Append(bs.FinalizedStateRoot, BlockOf(c))
    /\ c.es.Epoch = IF c.sealing THEN es.Epoch + 1 ELSE es.Epoch
    /\ ~c.sealing => c.es = es

LEMMA CallbacksState ==
    ASSUME NEW bs \in BlockStates, NEW es \in EpochStates, NEW frame \in Nat,
           es.Epoch \in Epochs, frame < Len(Frames[es.Epoch]),
           NEW c, c = Callbacks(bs, es, frame),
           NEW fr, fr = Frames[es.Epoch][frame + 1]
    PROVE  CallbacksLeave(c, bs, es, frame, fr)
<1> DEFINE id == <<es.Epoch, frame + 1>>
           b == BeginBlock(bs, fr)
<1>1. frame + 1 \in 1..Len(Frames[es.Epoch]) /\ frame + 1 \in Nat
  BY FramesAssumption
<1>2. FrameOK(fr)
  BY Zenon, <1>1, FramesOK
<1>3. id \in Epochs \X Nat
  BY Zenon, <1>1
<1>4. FrameOf(id) = fr
  BY DEF FrameOf
<1>5. b \in BlockStates /\ b.LastBlock = bs.LastBlock
      /\ b.FinalizedStateRoot = bs.FinalizedStateRoot /\ b.ValidatorStates = bs.ValidatorStates
  BY Zenon, <1>2, BeginBlockState DEF BeginBlockLeaves
<1>6. c = EndBlock(b, es, fr, id)
  BY Zenon, <1>4 DEF Callbacks
<1> HIDE DEF b, id
<1>7. /\ c.skip \in BOOLEAN /\ c.sealing \in BOOLEAN /\ (c.skip => ~c.sealing)
      /\ c.skip <=> skipBlock(b, fr)
      /\ c.fr = fr /\ c.ctx = [idx |-> b.LastBlock.idx + 1, time |-> blockTime(b, fr)]
      /\ c.bs \in BlockStates /\ c.es \in EpochStates
      /\ c.bs.LastBlock = b.LastBlock
      /\ c.bs.FinalizedStateRoot = b.FinalizedStateRoot
      /\ c.bs.ValidatorStates = Append(b.ValidatorStates, id)
      /\ c.es.Epoch = IF c.sealing THEN es.Epoch + 1 ELSE es.Epoch
      /\ ~c.sealing => c.es = es
  <2>1. EndBlockLeaves(c, b, es, fr, id, FinalizeEvents(b, fr, id))
    BY Zenon, <1>2, <1>3, <1>5, <1>6, EndBlockState
  <2> QED
    BY Zenon, <2>1 DEF EndBlockLeaves
<1>8. ~c.skip => fr.applied
  BY Zenon, <1>7 DEF skipBlock
<1>9. /\ c.ctx \in [idx : Nat, time : Nat]
      /\ c.ctx.idx = bs.LastBlock.idx + 1 /\ c.ctx.time > bs.LastBlock.time
  <2>1. blockTime(b, fr) \in Nat /\ blockTime(b, fr) > b.LastBlock.time
    BY Zenon, <1>2, <1>5, BlockTimeLater
  <2>2. b.LastBlock.idx + 1 \in Nat
    <3>1. bs.LastBlock.idx \in Nat
      BY DEF BlockStates
    <3> QED
      BY <1>5, <3>1
  <2>3. c.ctx.idx = b.LastBlock.idx + 1 /\ c.ctx.time = blockTime(b, fr)
    BY <1>7
  <2> QED
    BY <1>5, <1>7, <2>1, <2>2, <2>3
<1>10. /\ FinalBs(c) \in BlockStates /\ FinalBs(c).LastBlock = c.ctx
       /\ FinalBs(c).FinalizedStateRoot = Append(c.bs.FinalizedStateRoot, BlockOf(c))
       /\ FinalBs(c).ValidatorStates = c.bs.ValidatorStates
  <2>1. FrameOK(c.fr)
    BY Zenon, <1>2, <1>7
  <2> QED
    BY Zenon, <1>7, <1>9, <2>1, FinalBsState DEF FinalBsLeaves
<1>11. After(c).es = c.es /\ After(c).bs = IF c.skip THEN c.bs ELSE FinalBs(c)
  BY Zenon DEF After
<1>12. /\ After(c).bs \in BlockStates
       /\ After(c).bs.ValidatorStates = Append(bs.ValidatorStates, id)
       /\ After(c).bs.LastBlock = IF c.skip THEN bs.LastBlock ELSE c.ctx
       /\ After(c).bs.FinalizedStateRoot =
            IF c.skip THEN bs.FinalizedStateRoot ELSE Append(bs.FinalizedStateRoot, BlockOf(c))
  BY Zenon, <1>5, <1>7, <1>10, <1>11
<1>13. c.bs.FinalizedStateRoot = bs.FinalizedStateRoot
  BY Zenon, <1>5, <1>7
<1> QED
  BY ZenonT(30), <1>2, <1>3, <1>7, <1>8, <1>9, <1>11, <1>12, <1>13 DEF id, CallbacksLeave

\* Cheaters: all of them, and what EndBlock and blockFn leave.
CheatersLeft(all, c, bs, es, fr) ==
    /\ Len(bs.EpochCheaters) <= Len(all)
    /\ \A i \in 1..Len(bs.EpochCheaters) : all[i] = bs.EpochCheaters[i]
    /\ Elements(bs.EpochCheaters) \cup Elements(fr.cheaters) \cup Elements(fr.mps)
         \subseteq Elements(all)
    /\ After(c).bs.EpochCheaters = IF c.sealing THEN <<>> ELSE all
    /\ After(c).bs.CheatersWritten =
         IF c.skip THEN bs.CheatersWritten ELSE IF c.sealing THEN 0 ELSE Len(all)
    /\ After(c).bs.NextValidators =
         IF c.skip THEN bs.NextValidators
         ELSE bs.NextValidators \ Elements(SubSeq(all, bs.CheatersWritten + 1, Len(all)))
    /\ c.es.Validators = IF c.sealing THEN After(c).bs.NextValidators ELSE es.Validators

LEMMA CallbacksCheaters ==
    ASSUME NEW bs \in BlockStates, NEW es \in EpochStates, NEW frame \in Nat,
           es.Epoch \in Epochs, frame < Len(Frames[es.Epoch]),
           NEW c, c = Callbacks(bs, es, frame),
           NEW fr, fr = Frames[es.Epoch][frame + 1]
    PROVE  \E all \in Seq(Validator) : CheatersLeft(all, c, bs, es, fr)
<1> DEFINE id == <<es.Epoch, frame + 1>>
           b == BeginBlock(bs, fr)
           fin == FinalizeEvents(b, fr, id)
           m == mergeCheaters(bs.EpochCheaters, fr.cheaters)
           all == mergeCheaters(m, fr.mps)
<1>1. FrameOK(fr) /\ id \in Epochs \X Nat /\ c.fr = fr /\ c.ctx \in [idx : Nat, time : Nat]
  <2>1. CallbacksLeave(c, bs, es, frame, fr)
    BY Zenon, CallbacksState
  <2> QED
    BY Zenon, <2>1 DEF CallbacksLeave
<1>2. /\ bs.EpochCheaters \in Seq(Validator) /\ fr.cheaters \in Seq(Validator)
      /\ fr.mps \in Seq(Validator)
  <2>1. bs.EpochCheaters \in Seq(Validator)
    BY DEF BlockStates
  <2> QED
    BY Zenon, <1>1, <2>1 DEF FrameOK
<1>3. /\ m \in Seq(Validator) /\ Len(bs.EpochCheaters) <= Len(m)
      /\ \A i \in 1..Len(bs.EpochCheaters) : m[i] = bs.EpochCheaters[i]
      /\ Elements(bs.EpochCheaters) \cup Elements(fr.cheaters) \subseteq Elements(m)
  BY ZenonT(30), <1>2, MergeCheaters
<1> HIDE DEF m
<1>4. /\ all \in Seq(Validator) /\ Len(m) <= Len(all)
      /\ \A i \in 1..Len(m) : all[i] = m[i]
      /\ Elements(m) \cup Elements(fr.mps) \subseteq Elements(all)
  BY Zenon, <1>2, <1>3, MergeCheaters
<1>5. /\ b \in BlockStates /\ b.EpochCheaters = m /\ b.CheatersWritten = bs.CheatersWritten
      /\ b.NextValidators = bs.NextValidators
  BY Zenon, <1>1, BeginBlockState DEF m, BeginBlockLeaves
<1> HIDE DEF b, id
<1>6. fin \in BlockStates /\ fin.EpochCheaters = all /\ fin.CheatersWritten = bs.CheatersWritten
  <2>1. FinalizeEventsLeaves(fin, b, fr, id)
    BY Zenon, <1>1, <1>5, FinalizeEventsState
  <2> QED
    BY Zenon, <1>5, <2>1 DEF FinalizeEventsLeaves
<1> HIDE DEF fin, all
<1>7. c = EndBlock(b, es, fr, id)
  BY Zenon DEF Callbacks, FrameOf, b, id
<1>8. /\ c.skip \in BOOLEAN /\ c.sealing \in BOOLEAN /\ (c.skip => ~c.sealing)
      /\ c.bs \in BlockStates
      /\ c.es.Validators = IF c.sealing THEN c.bs.NextValidators ELSE es.Validators
      /\ c.bs.EpochCheaters = IF c.sealing THEN <<>> ELSE fin.EpochCheaters
      /\ c.bs.CheatersWritten = IF c.sealing THEN 0 ELSE b.CheatersWritten
      /\ c.bs.NextValidators = IF c.skip THEN b.NextValidators
                               ELSE b.NextValidators \ Elements(PopInternalTxs(fin))
  <2>1. EndBlockLeaves(c, b, es, fr, id, fin)
    BY Zenon, <1>1, <1>5, <1>7, EndBlockState DEF fin
  <2> QED
    BY Zenon, <2>1 DEF EndBlockLeaves
<1>9. PopInternalTxs(fin) = SubSeq(all, bs.CheatersWritten + 1, Len(all))
  BY Zenon, <1>6 DEF PopInternalTxs
<1>10. /\ FinalBs(c).EpochCheaters = c.bs.EpochCheaters
       /\ FinalBs(c).CheatersWritten = Len(c.bs.EpochCheaters)
       /\ FinalBs(c).NextValidators = c.bs.NextValidators
  <2>1. FrameOK(c.fr)
    BY Zenon, <1>1
  <2> QED
    BY Zenon, <1>1, <1>8, <2>1, FinalBsState DEF FinalBsLeaves
<1>11. After(c).bs = IF c.skip THEN c.bs ELSE FinalBs(c)
  BY Zenon DEF After
<1>12. Len(<<>>) = 0
  OBVIOUS
<1>13. /\ After(c).bs.EpochCheaters = IF c.sealing THEN <<>> ELSE all
       /\ After(c).bs.CheatersWritten =
            IF c.skip THEN bs.CheatersWritten ELSE IF c.sealing THEN 0 ELSE Len(all)
       /\ After(c).bs.NextValidators =
            IF c.skip THEN bs.NextValidators
            ELSE bs.NextValidators \ Elements(SubSeq(all, bs.CheatersWritten + 1, Len(all)))
       /\ c.es.Validators = IF c.sealing THEN After(c).bs.NextValidators ELSE es.Validators
  BY ZenonT(30), <1>5, <1>6, <1>8, <1>9, <1>10, <1>11, <1>12
<1>14. /\ Len(bs.EpochCheaters) <= Len(all)
       /\ \A i \in 1..Len(bs.EpochCheaters) : all[i] = bs.EpochCheaters[i]
  <2>1. Len(bs.EpochCheaters) \in Nat /\ Len(m) \in Nat /\ Len(all) \in Nat
    BY <1>2, <1>3, <1>4
  <2> QED
    BY <1>3, <1>4, <2>1
<1>15. Elements(bs.EpochCheaters) \cup Elements(fr.cheaters) \cup Elements(fr.mps)
         \subseteq Elements(all)
  BY Zenon, <1>3, <1>4
<1>16. CheatersLeft(all, c, bs, es, fr)
  BY Zenon, <1>13, <1>14, <1>15 DEF CheatersLeft
<1> QED
  BY Zenon, <1>4, <1>16

-----------------------------------------------------------------------------
(* The frames, run one after the other. *)

Start == [bs |-> Genesis.bs, es |-> Genesis.es, frame |-> 0]

\* f runs the first k frames.
Runs(f, k) == f = [n \in 0..k |-> IF n = 0 THEN Start ELSE RunFrame(f[n - 1])]

LEMMA RunsOneMore ==
    ASSUME NEW k \in Nat, NEW f, Runs(f, k)
    PROVE  \E g : Runs(g, k + 1)
<1> DEFINE g == [n \in 0..(k + 1) |-> IF n = 0 THEN Start ELSE RunFrame(f[n - 1])]
<1>1. ASSUME NEW n \in 0..(k + 1), n # 0 PROVE g[n - 1] = f[n - 1]
  <2>1. n - 1 \in 0..k /\ n - 1 \in 0..(k + 1)
    BY <1>1
  <2>2. g[n - 1] = IF n - 1 = 0 THEN Start ELSE RunFrame(f[n - 1 - 1])
    BY Zenon, <2>1
  <2>3. f[n - 1] = IF n - 1 = 0 THEN Start ELSE RunFrame(f[n - 1 - 1])
    BY Zenon, <2>1 DEF Runs
  <2> QED
    BY Zenon, <2>2, <2>3
<1>2. g = [n \in 0..(k + 1) |-> IF n = 0 THEN Start ELSE RunFrame(g[n - 1])]
  <2> HIDE DEF g
  <2>1. \A n \in 0..(k + 1) : (IF n = 0 THEN Start ELSE RunFrame(f[n - 1]))
                            = (IF n = 0 THEN Start ELSE RunFrame(g[n - 1]))
    BY Zenon, <1>1
  <2>2. g = [n \in 0..(k + 1) |-> IF n = 0 THEN Start ELSE RunFrame(f[n - 1])]
    BY Zenon DEF g
  <2> QED
    BY Zenon, <2>1, <2>2
<1> QED
  BY Zenon, <1>2 DEF Runs

\* Sequential is what its recursive definition says.
LEMMA RunsExist ==
    ASSUME NEW k \in Nat
    PROVE  \E f : Runs(f, k)
<1> DEFINE S == {n \in Nat : ~\E f : Runs(f, n)}
<1> SUFFICES ASSUME S # {} PROVE FALSE
  BY Zenon
<1>1. S \in SUBSET Nat
  BY Zenon
<1>2. PICK n \in S : \A m \in S : n <= m
  BY Zenon, <1>1, LeastNatural
<1>3. n \in Nat /\ ~\E f : Runs(f, n)
  BY Zenon
<1>4. n # 0
  <2>1. Runs([i \in 0..0 |-> Start], 0)
    <3>1. \A i \in 0..0 : Start = IF i = 0 THEN Start ELSE RunFrame([j \in 0..0 |-> Start][i - 1])
      BY SMT
    <3> QED
      BY Zenon, <3>1 DEF Runs
  <2> QED
    BY Zenon, <1>3, <2>1
<1>5. n - 1 \in Nat /\ ~(n <= n - 1) /\ n - 1 + 1 = n
  BY <1>3, <1>4
<1>6. \E f : Runs(f, n - 1)
  BY Zenon, <1>2, <1>5
<1> QED
  BY Zenon, <1>3, <1>5, <1>6, RunsOneMore

LEMMA SequentialRuns ==
    /\ Sequential[0] = Start
    /\ \A n \in 1..MaxFrames : Sequential[n] = RunFrame(Sequential[n - 1])
<1>1. MaxFrames \in Nat
  BY RulesAssumption
<1>2. \E f : Runs(f, MaxFrames)
  BY Zenon, <1>1, RunsExist
<1>3. Sequential = CHOOSE f : Runs(f, MaxFrames)
  BY Zenon DEF Sequential, Runs, Start
<1>4. Runs(Sequential, MaxFrames)
  BY Zenon, <1>2, <1>3
<1>5. \A n \in 0..MaxFrames : Sequential[n] = IF n = 0 THEN Start ELSE RunFrame(Sequential[n - 1])
  BY Zenon, <1>4 DEF Runs
<1>6. 0 \in 0..MaxFrames /\ \A n \in 1..MaxFrames : n \in 0..MaxFrames /\ n # 0
  BY <1>1
<1> QED
  BY Zenon, <1>5, <1>6

\* Induction on the number of frames, with a set for the induction hypothesis.
LEMMA FrameInduction ==
    ASSUME NEW B, 0 \in B, \A n \in 1..MaxFrames : n - 1 \in B => n \in B
    PROVE  \A n \in 0..MaxFrames : n \in B
<1> DEFINE S == {n \in 0..MaxFrames : n \notin B}
<1> SUFFICES ASSUME S # {} PROVE FALSE
  BY Zenon
<1>1. MaxFrames \in Nat
  BY RulesAssumption
<1>2. S \in SUBSET Nat
  BY <1>1
<1>3. PICK n \in S : \A m \in S : n <= m
  BY Zenon, <1>2, LeastNatural
<1>4. n \in 0..MaxFrames /\ n \notin B
  BY Zenon
<1>5. n # 0
  BY Zenon, <1>4
<1>6. n \in 1..MaxFrames /\ n - 1 \in 0..MaxFrames /\ ~(n <= n - 1)
  BY <1>1, <1>4, <1>5
<1>7. n - 1 \in B
  BY Zenon, <1>3, <1>6
<1> QED
  BY Zenon, <1>4, <1>6, <1>7

\* Every state that the frames lead to is in a set that RunFrame does not leave.
LEMMA SequentialInduction ==
    ASSUME NEW G, Start \in G, \A st \in G : RunFrame(st) \in G
    PROVE  \A n \in 0..MaxFrames : Sequential[n] \in G
<1> DEFINE B == {n \in Nat : Sequential[n] \in G}
<1>1. 0 \in B
  BY Zenon, SequentialRuns
<1>2. ASSUME NEW n \in 1..MaxFrames, n - 1 \in B PROVE n \in B
  <2>1. n \in Nat
    BY RulesAssumption
  <2>2. Sequential[n] = RunFrame(Sequential[n - 1])
    BY Zenon, SequentialRuns
  <2> QED
    BY Zenon, <1>2, <2>1, <2>2
<1> HIDE DEF B
<1>3. \A n \in 0..MaxFrames : n \in B
  BY Zenon, <1>1, <1>2, FrameInduction
<1> QED
  BY Zenon, <1>3 DEF B

State == [bs : BlockStates, es : EpochStates, frame : Nat]
More(st) == st.es.Epoch \in Epochs /\ st.frame < Len(Frames[st.es.Epoch])

\* RunFrame runs the next frame, if there is one.
LEMMA RunFrameMore ==
    ASSUME NEW st \in State, More(st), NEW c, c = Callbacks(st.bs, st.es, st.frame)
    PROVE  RunFrame(st) = [bs |-> After(c).bs, es |-> c.es,
                           frame |-> IF c.sealing THEN 0 ELSE st.frame + 1]
<1>1. st.frame \in Nat /\ Len(Frames[st.es.Epoch]) \in Nat
  BY FramesAssumption DEF State, More
<1>2. ~(st.es.Epoch \notin Epochs \/ st.frame >= Len(Frames[st.es.Epoch]))
  BY <1>1 DEF More
<1> DEFINE id == <<st.es.Epoch, st.frame + 1>>
           fr == Frames[st.es.Epoch][st.frame + 1]
<1>3. FrameOf(id) = fr
  BY DEF FrameOf
<1>4. c = EndBlock(BeginBlock(st.bs, fr), st.es, fr, id)
  BY Zenon, <1>3 DEF Callbacks
<1>5. After(c).bs = IF c.skip THEN c.bs ELSE FinalBs(c)
  BY Zenon DEF After
<1> QED
  BY Zenon, <1>2, <1>4, <1>5 DEF RunFrame

LEMMA RunFrameNoMore ==
    ASSUME NEW st \in State, ~More(st)
    PROVE  RunFrame(st) = st
<1>1. CASE st.es.Epoch \notin Epochs
  BY Zenon, <1>1 DEF RunFrame
<1>2. CASE st.es.Epoch \in Epochs
  <2>1. st.frame \in Nat /\ Len(Frames[st.es.Epoch]) \in Nat
    BY <1>2, FramesAssumption DEF State
  <2>2. st.frame >= Len(Frames[st.es.Epoch])
    BY <1>2, <2>1 DEF More
  <2> QED
    BY Zenon, <2>2 DEF RunFrame
<1> QED
  BY Zenon, <1>1, <1>2

\* The fields of the state after one more frame.
LEMMA RunFrameState ==
    ASSUME NEW st \in State, More(st), NEW c, c = Callbacks(st.bs, st.es, st.frame)
    PROVE  /\ RunFrame(st) \in State
           /\ RunFrame(st).bs = After(c).bs /\ RunFrame(st).es = c.es
           /\ RunFrame(st).frame = IF c.sealing THEN 0 ELSE st.frame + 1
           /\ CallbacksLeave(c, st.bs, st.es, st.frame, Frames[st.es.Epoch][st.frame + 1])
<1>1. st.bs \in BlockStates /\ st.es \in EpochStates /\ st.frame \in Nat
  BY DEF State
<1>2. CallbacksLeave(c, st.bs, st.es, st.frame, Frames[st.es.Epoch][st.frame + 1])
  BY Zenon, <1>1, CallbacksState DEF More
<1>3. After(c).bs \in BlockStates /\ c.es \in EpochStates /\ c.sealing \in BOOLEAN
  BY Zenon, <1>2 DEF CallbacksLeave
<1>4. (IF c.sealing THEN 0 ELSE st.frame + 1) \in Nat
  BY <1>1
<1>5. RunFrame(st) = [bs |-> After(c).bs, es |-> c.es,
                      frame |-> IF c.sealing THEN 0 ELSE st.frame + 1]
  BY Zenon, RunFrameMore
<1> HIDE DEF RunFrame
<1>6. /\ RunFrame(st) \in State /\ RunFrame(st).bs = After(c).bs /\ RunFrame(st).es = c.es
      /\ RunFrame(st).frame = IF c.sealing THEN 0 ELSE st.frame + 1
  <2> DEFINE x == After(c).bs
             y == IF c.sealing THEN 0 ELSE st.frame + 1
             z == c.es
  <2> HIDE DEF x, y, z
  <2>1. RunFrame(st) = [bs |-> x, es |-> z, frame |-> y]
    BY Zenon, <1>5 DEF x, y, z
  <2>2. x \in BlockStates /\ z \in EpochStates /\ y \in Nat
    BY Zenon, <1>3, <1>4 DEF x, y, z
  <2>3. /\ RunFrame(st) \in State /\ RunFrame(st).bs = x /\ RunFrame(st).es = z
        /\ RunFrame(st).frame = y
    BY <2>1, <2>2 DEF State
  <2> QED
    BY Zenon, <2>3 DEF x, y, z
<1> QED
  BY Zenon, <1>2, <1>6

LEMMA SequentialState ==
    ASSUME NEW n \in 0..MaxFrames
    PROVE  Sequential[n] \in State
<1>1. Start \in State
  BY DEF Start, Genesis, State, BlockStates, EpochStates
<1>2. \A st \in State : RunFrame(st) \in State
  BY Zenon, RunFrameState, RunFrameNoMore
<1> QED
  BY ZenonT(30), <1>1, <1>2, SequentialInduction

\* The number of frames that a state accounts for.
Count(st) == Len(st.bs.ValidatorStates)

LEMMA CountMore ==
    ASSUME NEW st \in State
    PROVE  /\ Count(st) \in Nat
           /\ More(st) => Count(RunFrame(st)) = Count(st) + 1
<1>1. st.bs.ValidatorStates \in Seq(Epochs \X Nat)
  BY DEF State, BlockStates
<1>2. ASSUME More(st) PROVE Count(RunFrame(st)) = Count(st) + 1
  <2> DEFINE id == <<st.es.Epoch, st.frame + 1>>
             c == Callbacks(st.bs, st.es, st.frame)
  <2>1. /\ RunFrame(st).bs = After(c).bs
        /\ CallbacksLeave(c, st.bs, st.es, st.frame, Frames[st.es.Epoch][st.frame + 1])
    BY Zenon, <1>2, RunFrameState
  <2> HIDE DEF c
  <2>2. id \in Epochs \X Nat /\ RunFrame(st).bs.ValidatorStates = Append(st.bs.ValidatorStates, id)
    BY Zenon, <2>1 DEF CallbacksLeave
  <2> HIDE DEF id
  <2> QED
    BY <1>1, <2>2 DEF Count
<1> QED
  BY <1>1, <1>2 DEF Count

\* A state is where its frames lead.
LEMMA SequentialPosition ==
    ASSUME NEW n \in 0..MaxFrames
    PROVE  Count(Sequential[n]) \in 0..n /\ Sequential[Count(Sequential[n])] = Sequential[n]
<1> DEFINE Pos(m) == Count(Sequential[m])
           B == {m \in 0..MaxFrames : Pos(m) \in 0..m /\ Sequential[Pos(m)] = Sequential[m]}
<1>1. MaxFrames \in Nat
  BY RulesAssumption
<1>2. 0 \in B
  <2>1. Pos(0) = 0
    BY SequentialRuns DEF Start, Genesis, Count
  <2> HIDE DEF Pos
  <2> QED
    BY SMTT(30), <1>1, <2>1
<1>3. ASSUME NEW m \in 1..MaxFrames, m - 1 \in B PROVE m \in B
  <2> DEFINE st == Sequential[m - 1]
  <2>1. m - 1 \in 0..MaxFrames /\ m \in 0..MaxFrames
    BY <1>1
  <2>2. st \in State
    BY Zenon, <2>1, SequentialState
  <2>3. PICK k \in 0..(m - 1) : k = Count(st) /\ Sequential[k] = st
    BY Zenon, <1>3
  <2>4. Sequential[m] = RunFrame(st)
    BY Zenon, SequentialRuns
  <2>5. CASE ~More(st)
    <3>1. Sequential[m] = st /\ Pos(m) = k
      BY Zenon, <2>2, <2>3, <2>4, <2>5, RunFrameNoMore
    <3> HIDE DEF Pos, st
    <3>2. k \in 0..m
      BY <1>1, <2>3
    <3> QED
      BY Zenon, <2>1, <2>3, <3>1, <3>2
  <2>6. CASE More(st)
    <3>1. Pos(m) = k + 1
      <4>1. Count(RunFrame(st)) = Count(st) + 1
        BY ZenonT(30), <2>2, <2>6, CountMore
      <4> QED
        BY Zenon, <2>3, <2>4, <4>1
    <3> HIDE DEF Pos, st
    <3>2. k + 1 \in 1..MaxFrames /\ k + 1 \in 0..m
      BY <1>1, <2>3
    <3>3. \A i \in 1..MaxFrames : i = k + 1 => i - 1 = k
      BY <2>3
    <3>4. \A i \in 1..MaxFrames : i = k + 1 => Sequential[i] = RunFrame(st)
      BY Zenon, <2>3, <3>3, SequentialRuns
    <3>5. Sequential[k + 1] = Sequential[m]
      BY Zenon, <2>4, <3>2, <3>4
    <3> QED
      BY Zenon, <2>1, <3>1, <3>2, <3>5
  <2> QED
    BY Zenon, <2>5, <2>6
<1> HIDE DEF B
<1>4. n \in B
  BY Zenon, <1>2, <1>3, FrameInduction
<1> QED
  BY Zenon, <1>4 DEF B

-----------------------------------------------------------------------------
(* Cheaters, in the frames one by one. *)

LEMMA ElementsAppend ==
    ASSUME NEW S, NEW s \in Seq(S), NEW x \in S
    PROVE  Elements(Append(s, x)) = Elements(s) \cup {x}
<1> DEFINE t == Append(s, x)
<1>1. /\ t \in Seq(S) /\ Len(t) = Len(s) + 1 /\ Len(s) \in Nat
      /\ \A i \in 1..Len(s) : t[i] = s[i]
      /\ t[Len(s) + 1] = x
  BY AppendOne
<1>2. DOMAIN s = 1..Len(s) /\ DOMAIN t = 1..(Len(s) + 1)
  BY <1>1
<1> HIDE DEF t
<1>3. ASSUME NEW i \in 1..(Len(s) + 1) PROVE i \in 1..Len(s) \/ i = Len(s) + 1
  BY <1>1
<1>4. /\ \A i \in 1..Len(s) : i \in 1..(Len(s) + 1)
      /\ Len(s) + 1 \in 1..(Len(s) + 1)
  BY <1>1
<1>5. Elements(t) \subseteq Elements(s) \cup {x}
  BY Zenon, <1>1, <1>2, <1>3 DEF Elements
<1>6. Elements(s) \cup {x} \subseteq Elements(t)
  BY ZenonT(30), <1>1, <1>2, <1>4 DEF Elements
<1> QED
  BY Zenon, <1>5, <1>6 DEF t

\* What a frame sees.
Saw(id) == Elements(FrameOf(id).cheaters) \cup Elements(FrameOf(id).mps)

LEMMA SeenBy ==
    ASSUME NEW st, NEW ep, NEW v
    PROVE  v \in SeenCheaters(st, ep) <=>
             \E id \in Elements(st.bs.ValidatorStates) : id[1] = ep /\ v \in Saw(id)
  BY DEF SeenCheaters, Saw, FrameOf

\* PopInternalTxs: every cheater that is not written yet is deactivated.
LEMMA DeactivatesRest ==
    ASSUME NEW all \in Seq(Validator), NEW k \in Nat, NEW i \in 1..Len(all), i > k
    PROVE  all[i] \in Elements(SubSeq(all, k + 1, Len(all)))
<1> DEFINE s == SubSeq(all, k + 1, Len(all))
<1>1. Len(all) \in Nat
  OBVIOUS
<1>2. DOMAIN s = 1..(Len(all) - k)
  BY <1>1
<1>3. i - k \in 1..(Len(all) - k) /\ s[i - k] = all[i]
  BY SMTT(30), <1>1
<1> QED
  BY Zenon, <1>2, <1>3 DEF Elements

\* Frames are accounted for in the order of the epochs; the cheaters they saw in
\* the current epoch are listed; those that are written are not in the next group;
\* nor were those of the epoch before when it was sealed.
CheatersOK(st) ==
    /\ \A id \in Elements(st.bs.ValidatorStates) : id[1] <= st.es.Epoch
    /\ SeenCheaters(st, st.es.Epoch) \subseteq Elements(st.bs.EpochCheaters)
    /\ st.bs.CheatersWritten <= Len(st.bs.EpochCheaters)
    /\ \A i \in 1..st.bs.CheatersWritten : st.bs.EpochCheaters[i] \notin st.bs.NextValidators
    /\ st.es.Validators \cap SeenCheaters(st, st.es.Epoch - 1) = {}

LEMMA CheatersStart == CheatersOK(Start)
<1>1. /\ Start.bs.ValidatorStates = <<>> /\ Start.bs.EpochCheaters = <<>>
      /\ Start.bs.CheatersWritten = 0
  BY DEF Start, Genesis
<1>2. Elements(<<>>) = {} /\ Len(<<>>) = 0
  BY DEF Elements
<1>3. \A ep : SeenCheaters(Start, ep) = {}
  BY Zenon, <1>1, <1>2, SeenBy
<1> QED
  BY <1>1, <1>2, <1>3 DEF CheatersOK

LEMMA CheatersMore ==
    ASSUME NEW st \in State, More(st), CheatersOK(st)
    PROVE  CheatersOK(RunFrame(st))
<1>1. PICK c : c = Callbacks(st.bs, st.es, st.frame)
  OBVIOUS
<1>2. PICK fr : fr = Frames[st.es.Epoch][st.frame + 1]
  OBVIOUS
<1>3. PICK id : id = <<st.es.Epoch, st.frame + 1>>
  OBVIOUS
<1>4. st.bs \in BlockStates /\ st.es \in EpochStates /\ st.frame \in Nat
  BY DEF State
<1>5. /\ st.es.Epoch \in Epochs /\ st.frame < Len(Frames[st.es.Epoch])
  BY Zenon DEF More
<1>6. RunFrame(st).bs = After(c).bs /\ RunFrame(st).es = c.es /\ CallbacksLeave(c, st.bs, st.es, st.frame, fr)
  BY Zenon, <1>1, <1>2, RunFrameState
<1>7. /\ c.skip \in BOOLEAN /\ c.sealing \in BOOLEAN /\ (c.skip => ~c.sealing)
      /\ id \in Epochs \X Nat
      /\ After(c).bs.ValidatorStates = Append(st.bs.ValidatorStates, id)
      /\ c.es.Epoch = (IF c.sealing THEN st.es.Epoch + 1 ELSE st.es.Epoch)
  BY Zenon, <1>3, <1>6 DEF CallbacksLeave
<1>8. PICK all \in Seq(Validator) : CheatersLeft(all, c, st.bs, st.es, fr)
  BY Zenon, <1>1, <1>2, <1>4, <1>5, CallbacksCheaters
<1>9. /\ Len(st.bs.EpochCheaters) <= Len(all)
      /\ \A i \in 1..Len(st.bs.EpochCheaters) : all[i] = st.bs.EpochCheaters[i]
      /\ Elements(st.bs.EpochCheaters) \cup Elements(fr.cheaters) \cup Elements(fr.mps)
           \subseteq Elements(all)
      /\ After(c).bs.EpochCheaters = IF c.sealing THEN <<>> ELSE all
      /\ After(c).bs.CheatersWritten =
           IF c.skip THEN st.bs.CheatersWritten ELSE IF c.sealing THEN 0 ELSE Len(all)
      /\ After(c).bs.NextValidators =
           IF c.skip THEN st.bs.NextValidators
           ELSE st.bs.NextValidators
                  \ Elements(SubSeq(all, st.bs.CheatersWritten + 1, Len(all)))
      /\ c.es.Validators = IF c.sealing THEN After(c).bs.NextValidators ELSE st.es.Validators
  BY Zenon, <1>8 DEF CheatersLeft
<1> DEFINE ep == st.es.Epoch
           vs == st.bs.ValidatorStates
           w == st.bs.CheatersWritten
           next == After(c).bs.NextValidators
           ec == st.bs.EpochCheaters
           nst == RunFrame(st)
<1>10. ep \in Nat /\ w \in Nat /\ Len(ec) \in Nat /\ Len(all) \in Nat /\ vs \in Seq(Epochs \X Nat)
  <2>1. ep \in Nat
    BY <1>4 DEF EpochStates
  <2>2. w \in Nat /\ ec \in Seq(Validator) /\ vs \in Seq(Epochs \X Nat)
    BY SMTT(30), <1>4 DEF BlockStates
  <2>3. Len(ec) \in Nat /\ Len(all) \in Nat
    BY <2>2
  <2> QED
    BY Zenon, <2>1, <2>2, <2>3
<1>11. id[1] = ep /\ Saw(id) = Elements(fr.cheaters) \cup Elements(fr.mps)
  BY <1>2, <1>3 DEF Saw, FrameOf
<1>12. Elements(nst.bs.ValidatorStates) = Elements(vs) \cup {id}
  <2>1. nst.bs.ValidatorStates = Append(vs, id)
    BY Zenon, <1>6, <1>7
  <2> HIDE DEF vs
  <2>2. vs \in Seq(Epochs \X Nat) /\ id \in Epochs \X Nat
    BY Zenon, <1>7, <1>10
  <2>3. \A y : y \in Elements(Append(vs, id)) <=> y \in Elements(vs) \cup {id}
    BY <2>2, ElementsAppend
  <2> QED
    BY Zenon, <2>1, <2>3
<1>13. /\ \A x \in Elements(vs) : x[1] <= ep
       /\ SeenCheaters(st, ep) \subseteq Elements(ec) /\ w <= Len(ec)
       /\ \A i \in 1..w : ec[i] \notin st.bs.NextValidators
       /\ st.es.Validators \cap SeenCheaters(st, ep - 1) = {}
  BY Zenon DEF CheatersOK
<1>14. nst.es.Epoch = (IF c.sealing THEN ep + 1 ELSE ep) /\ nst.es.Validators = c.es.Validators
       /\ nst.bs.NextValidators = next /\ nst.bs.EpochCheaters = (IF c.sealing THEN <<>> ELSE all)
       /\ nst.bs.CheatersWritten = IF c.skip THEN w ELSE IF c.sealing THEN 0 ELSE Len(all)
  BY ZenonT(30), <1>6, <1>7, <1>9
<1> HIDE DEF ep, vs, w, next, ec, nst
<1>15. \A x \in Elements(vs) \cup {id} : x[1] <= ep
  BY <1>10, <1>11, <1>13
<1>16. SeenCheaters(nst, ep) \subseteq Elements(all)
  <2>1. ASSUME NEW v \in SeenCheaters(nst, ep) PROVE v \in Elements(all)
    <3>1. PICK x \in Elements(vs) \cup {id} : x[1] = ep /\ v \in Saw(x)
      BY Zenon, <1>12, <2>1, SeenBy
    <3>2. CASE x = id
      BY Zenon, <1>9, <1>11, <3>1, <3>2
    <3>3. CASE x \in Elements(vs)
      <4>1. v \in SeenCheaters(st, ep)
        BY Zenon, <3>1, <3>3, SeenBy DEF vs
      <4> QED
        BY Zenon, <1>9, <1>13, <4>1 DEF ec
    <3> QED
      BY Zenon, <3>1, <3>2, <3>3
  <2> QED
    BY Zenon, <2>1
\* A block deactivates every cheater that is listed.
<1>17. ASSUME ~c.skip PROVE \A i \in 1..Len(all) : all[i] \notin next
  <2> SUFFICES ASSUME NEW i \in 1..Len(all) PROVE all[i] \notin next
    OBVIOUS
  <2>1. next = st.bs.NextValidators \ Elements(SubSeq(all, w + 1, Len(all)))
    BY Zenon, <1>9, <1>17 DEF next, w
  <2>2. CASE i > w
    BY Zenon, <1>10, <2>1, <2>2, DeactivatesRest
  <2>3. CASE ~(i > w)
    <3>1. i \in 1..w /\ i \in 1..Len(ec)
      BY <1>10, <1>13, <2>3
    <3>2. all[i] = ec[i]
      BY Zenon, <1>9, <3>1 DEF ec
    <3> QED
      BY ZenonT(30), <1>13, <2>1, <3>1, <3>2
  <2> QED
    BY Zenon, <2>2, <2>3
<1>18. CASE c.sealing
  <2>1. ~c.skip /\ nst.es.Epoch = ep + 1 /\ nst.es.Validators = next /\ nst.bs.EpochCheaters = <<>>
        /\ nst.bs.CheatersWritten = 0
    BY ZenonT(30), <1>7, <1>9, <1>14, <1>18 DEF next
  <2>2. \A x \in Elements(vs) \cup {id} : x[1] <= ep + 1 /\ x[1] # ep + 1
    <3>1. \A x \in Elements(vs) \cup {id} : x[1] \in Nat
      <4>1. \A x \in Elements(vs) : x \in Epochs \X Nat
        BY <1>10 DEF Elements
      <4> QED
        BY <1>7, <4>1 DEF Epochs
    <3> QED
      BY SMTT(30), <1>10, <1>15, <3>1
  <2>3. SeenCheaters(nst, ep + 1) = {}
    BY ZenonT(30), <1>12, <2>2, SeenBy
  <2>4. next \cap SeenCheaters(nst, ep) = {}
    <3>1. DOMAIN all = 1..Len(all)
      BY <1>9
    <3>2. \A v \in Elements(all) : v \notin next
      BY Zenon, <1>17, <2>1, <3>1 DEF Elements
    <3> QED
      BY Zenon, <1>16, <3>2
  <2>5. (ep + 1) - 1 = ep
    BY <1>10
  <2>6. 0 <= Len(<<>>) /\ 1..0 = {}
    OBVIOUS
  <2>7. nst.es.Validators \cap SeenCheaters(nst, nst.es.Epoch - 1) = {}
    BY <2>1, <2>4, <2>5
  <2> QED
    BY ZenonT(30), <1>12, <2>1, <2>2, <2>3, <2>6, <2>7 DEF CheatersOK, nst
<1>19. CASE ~c.sealing
  <2>1. nst.es.Epoch = ep /\ nst.es.Validators = st.es.Validators /\ nst.bs.EpochCheaters = all
        /\ nst.bs.CheatersWritten = IF c.skip THEN w ELSE Len(all)
    BY Zenon, <1>9, <1>14, <1>19
  <2>2. SeenCheaters(nst, ep - 1) \subseteq SeenCheaters(st, ep - 1)
    <3>1. id[1] # ep - 1
      BY <1>10, <1>11
    <3>2. ASSUME NEW v \in SeenCheaters(nst, ep - 1) PROVE v \in SeenCheaters(st, ep - 1)
      <4>1. PICK x \in Elements(vs) \cup {id} : x[1] = ep - 1 /\ v \in Saw(x)
        BY ZenonT(30), <1>12, <3>2, SeenBy
      <4>2. x \in Elements(vs)
        BY Zenon, <3>1, <4>1
      <4> QED
        BY Zenon, <4>1, <4>2, SeenBy DEF vs
    <3> QED
      BY Zenon, <3>2
  <2>3. /\ nst.bs.CheatersWritten <= Len(all)
        /\ \A i \in 1..nst.bs.CheatersWritten : all[i] \notin next
    <3>1. CASE c.skip
      <4>1. next = st.bs.NextValidators /\ nst.bs.CheatersWritten = w
        BY ZenonT(30), <1>9, <2>1, <3>1 DEF next
      <4>2. w <= Len(all) /\ \A i \in 1..w : i \in 1..Len(ec)
        BY <1>9, <1>10, <1>13 DEF ec
      <4>3. \A i \in 1..w : all[i] = ec[i]
        BY Zenon, <1>9, <4>2 DEF ec
      <4> QED
        BY Zenon, <1>13, <4>1, <4>2, <4>3
    <3>2. CASE ~c.skip
      <4>1. Len(all) <= Len(all)
        BY <1>10
      <4> QED
        BY Zenon, <1>17, <2>1, <3>2, <4>1
    <3> QED
      BY Zenon, <3>1, <3>2
  <2> QED
    BY ZenonT(30), <1>12, <1>13, <1>14, <1>15, <1>16, <2>1, <2>2, <2>3 DEF CheatersOK, nst
<1> QED
  BY Zenon, <1>18, <1>19

LEMMA SequentialCheaters ==
    ASSUME NEW n \in 0..MaxFrames
    PROVE  CheatersOK(Sequential[n])
<1> DEFINE G == {st \in State : CheatersOK(st)}
<1>1. Start \in G
  <2>1. 0 \in 0..MaxFrames
    BY RulesAssumption
  <2> QED
    BY Zenon, <2>1, CheatersStart, SequentialState, SequentialRuns
<1>2. \A st \in G : RunFrame(st) \in G
  BY Zenon, CheatersMore, RunFrameState, RunFrameNoMore
<1> HIDE DEF G
<1>3. Sequential[n] \in G
  BY Zenon, <1>1, <1>2, SequentialInduction
<1> QED
  BY Zenon, <1>3 DEF G

-----------------------------------------------------------------------------
(* The chain, in the frames one by one. *)

Block == [atropos : Atropos, time : Nat]
Root(st) == st.bs.FinalizedStateRoot

\* The frame id confirmed the Atropos a.
Confirmed(id, a) ==
    /\ id[1] \in Epochs /\ id[2] \in DOMAIN Frames[id[1]]
    /\ FrameOf(id).applied /\ FrameOf(id).atropos = a

\* The frames are those up to the current one; every block has an Atropos that one
\* of them confirmed, so that no two blocks have the same; times increase.
ChainOK(st) ==
    /\ \A id \in Elements(st.bs.ValidatorStates) :
           id[1] <= st.es.Epoch /\ (id[1] = st.es.Epoch => id[2] <= st.frame)
    /\ st.bs.LastBlock.idx = Len(Root(st))
    /\ \A i \in 1..Len(Root(st)) :
           /\ Root(st)[i].time <= st.bs.LastBlock.time
           /\ \E id \in Elements(st.bs.ValidatorStates) : Confirmed(id, Root(st)[i].atropos)
    /\ \A i, j \in 1..Len(Root(st)) : i < j => /\ Root(st)[i].time < Root(st)[j].time
                                               /\ Root(st)[i].atropos # Root(st)[j].atropos

LEMMA ConfirmedOnce ==
    ASSUME NEW x \in Epochs \X Nat, NEW y \in Epochs \X Nat, NEW a, Confirmed(x, a), Confirmed(y, a)
    PROVE  x = y
<1>1. PICK ep, eq, f, g : ep = x[1] /\ eq = y[1] /\ f = x[2] /\ g = y[2]
  BY Zenon
<1>2. /\ ep \in Epochs /\ eq \in Epochs /\ f \in DOMAIN Frames[ep] /\ g \in DOMAIN Frames[eq]
      /\ Frames[ep][f].applied /\ Frames[eq][g].applied
      /\ Frames[ep][f].atropos = Frames[eq][g].atropos
  BY Zenon, <1>1 DEF Confirmed, FrameOf
<1>3. ep = eq /\ f = g
  <2>1. \A i \in DOMAIN Frames[ep], j \in DOMAIN Frames[eq] :
            (/\ Frames[ep][i].applied /\ Frames[eq][j].applied
             /\ Frames[ep][i].atropos = Frames[eq][j].atropos) => ep = eq /\ i = j
    BY Zenon, <1>2, AtroposAssumption
  <2> QED
    BY Zenon, <1>2, <2>1
<1>4. \A z \in Epochs \X Nat : z = <<z[1], z[2]>>
  OBVIOUS
<1>5. x = <<ep, f>> /\ y = <<eq, g>>
  BY Zenon, <1>1, <1>4
<1> QED
  BY Zenon, <1>3, <1>5

LEMMA ChainStart == ChainOK(Start)
<1>1. /\ Start.bs.ValidatorStates = <<>> /\ Root(Start) = <<>>
      /\ Start.bs.LastBlock.idx = 0
  BY DEF Start, Genesis, Root
<1>2. Elements(<<>>) = {} /\ Len(<<>>) = 0 /\ 1..0 = {}
  BY DEF Elements
<1> QED
  BY ZenonT(30), <1>1, <1>2 DEF ChainOK

LEMMA ChainMore ==
    ASSUME NEW st \in State, More(st), ChainOK(st)
    PROVE  ChainOK(RunFrame(st))
<1>1. PICK c : c = Callbacks(st.bs, st.es, st.frame)
  BY Zenon
<1>2. PICK fr : fr = Frames[st.es.Epoch][st.frame + 1]
  BY Zenon
<1>3. PICK id : id = <<st.es.Epoch, st.frame + 1>>
  BY Zenon
<1>4. PICK ep : ep = st.es.Epoch
  BY Zenon
<1>5. PICK nst : nst = RunFrame(st)
  BY Zenon
<1>6. /\ nst.bs = After(c).bs /\ nst.es = c.es /\ nst.frame = IF c.sealing THEN 0 ELSE st.frame + 1
      /\ CallbacksLeave(c, st.bs, st.es, st.frame, fr)
  BY Zenon, <1>1, <1>2, <1>5, RunFrameState
<1>7. /\ c.skip \in BOOLEAN /\ c.sealing \in BOOLEAN /\ id \in Epochs \X Nat
      /\ ~c.skip => fr.applied
      /\ c.fr = fr /\ c.ctx.idx = st.bs.LastBlock.idx + 1 /\ c.ctx.time > st.bs.LastBlock.time
      /\ c.ctx \in [idx : Nat, time : Nat] /\ FrameOK(fr)
      /\ nst.bs.ValidatorStates = Append(st.bs.ValidatorStates, id)
      /\ nst.bs.LastBlock = (IF c.skip THEN st.bs.LastBlock ELSE c.ctx)
      /\ Root(nst) = (IF c.skip THEN Root(st) ELSE Append(Root(st), BlockOf(c)))
      /\ nst.es.Epoch = IF c.sealing THEN ep + 1 ELSE ep
  BY Zenon, <1>3, <1>4, <1>6 DEF CallbacksLeave, Root
<1>8. st.bs \in BlockStates /\ st.es \in EpochStates /\ st.frame \in Nat
  BY DEF State
<1>9. ep \in Nat
  BY <1>4, <1>8 DEF EpochStates
<1>10. st.bs.LastBlock \in [idx : Nat, time : Nat] /\ Root(st) \in Seq(Block)
       /\ st.bs.ValidatorStates \in Seq(Epochs \X Nat)
  BY SMTT(30), <1>8 DEF BlockStates, Root, Block
<1>11. id[1] = ep /\ id[2] = st.frame + 1
  BY <1>3, <1>4
<1> DEFINE vs == Elements(st.bs.ValidatorStates)
<1>12. Elements(nst.bs.ValidatorStates) = vs \cup {id}
  <2>1. st.bs.ValidatorStates \in Seq(Epochs \X Nat) /\ id \in Epochs \X Nat
    BY ZenonT(30), <1>7, <1>10
  <2>2. \A y : y \in Elements(Append(st.bs.ValidatorStates, id)) <=> y \in vs \cup {id}
    BY <2>1, ElementsAppend
  <2> QED
    BY Zenon, <1>7, <2>2
<1>13. \A x \in vs : x \in Epochs \X Nat /\ x[1] \in Nat /\ x[2] \in Nat
  <2>1. \A x \in vs : x \in Epochs \X Nat
    BY <1>10 DEF Elements
  <2> QED
    BY <2>1 DEF Epochs
<1>14. /\ \A x \in vs : x[1] <= ep /\ (x[1] = ep => x[2] <= st.frame)
       /\ st.bs.LastBlock.idx = Len(Root(st))
       /\ \A i \in 1..Len(Root(st)) :
            /\ Root(st)[i].time <= st.bs.LastBlock.time
            /\ \E x \in vs : Confirmed(x, Root(st)[i].atropos)
       /\ \A i, j \in 1..Len(Root(st)) : i < j => /\ Root(st)[i].time < Root(st)[j].time
                                                  /\ Root(st)[i].atropos # Root(st)[j].atropos
  BY Zenon, <1>4 DEF ChainOK
<1> HIDE DEF vs
<1>15. id \notin vs
  <2> SUFFICES ASSUME id \in vs PROVE FALSE
    OBVIOUS
  <2>1. id[2] <= st.frame
    BY ZenonT(30), <1>11, <1>14
  <2> QED
    BY <1>8, <1>11, <2>1
<1>16. \A x \in vs \cup {id} : /\ x[1] <= nst.es.Epoch
                               /\ x[1] = nst.es.Epoch => x[2] <= nst.frame
  BY SMTT(30), <1>6, <1>7, <1>8, <1>9, <1>11, <1>13, <1>14
<1>17. CASE c.skip
  <2>1. Root(nst) = Root(st) /\ nst.bs.LastBlock = st.bs.LastBlock
    BY Zenon, <1>7, <1>17
  <2> QED
    BY ZenonT(30), <1>5, <1>12, <1>14, <1>16, <2>1 DEF ChainOK
<1>18. CASE ~c.skip
  <2>1. PICK b : b = BlockOf(c)
    BY ZenonT(30)
  <2>2. b \in Block /\ b.atropos = fr.atropos /\ b.time = c.ctx.time /\ b.time \in Nat
    BY <1>7, <2>1 DEF Block, BlockOf, FrameOK
  <2>3. Root(nst) = Append(Root(st), b) /\ nst.bs.LastBlock = c.ctx
    BY ZenonT(30), <1>7, <1>18, <2>1
  <2>4. PICK r : r = Root(st)
    BY Zenon
  <2>5. PICK n : n = Len(r)
    BY Zenon
  <2>6. n \in Nat /\ r \in Seq(Block) /\ \A i \in 1..n : r[i] \in Block /\ r[i].time \in Nat
    <3>1. r \in Seq(Block)
      BY Zenon, <1>10, <2>4
    <3>2. n \in Nat /\ \A i \in 1..n : r[i] \in Block
      BY <2>5, <3>1
    <3>3. \A x \in Block : x.time \in Nat
      BY DEF Block
    <3> QED
      BY Zenon, <3>1, <3>2, <3>3
  <2>7. PICK s : s = Append(r, b)
    BY Zenon
  <2>8. Len(s) = n + 1 /\ s[n + 1] = b /\ \A i \in 1..n : s[i] = r[i]
    BY SMTT(30), <2>2, <2>5, <2>6, <2>7, AppendOne
  <2>9. Confirmed(id, b.atropos)
    <3>1. ep \in Epochs /\ st.frame < Len(Frames[ep]) /\ DOMAIN Frames[ep] = 1..Len(Frames[ep])
          /\ Len(Frames[ep]) \in Nat
      BY ZenonT(30), <1>4, FramesAssumption DEF More
    <3>2. id[2] \in DOMAIN Frames[ep]
      BY <1>8, <1>11, <3>1
    <3>3. FrameOf(id) = fr
      BY ZenonT(30), <1>2, <1>4, <1>11 DEF FrameOf
    <3> QED
      BY ZenonT(30), <1>7, <1>11, <1>18, <2>2, <3>1, <3>2, <3>3 DEF Confirmed
  <2>10. \A i \in 1..n : /\ r[i].time <= st.bs.LastBlock.time
                         /\ \E x \in vs : Confirmed(x, r[i].atropos)
    BY Zenon, <1>14, <2>4, <2>5
  <2>11. \A i \in 1..n : r[i].time < b.time /\ r[i].atropos # b.atropos
    <3> SUFFICES ASSUME NEW i \in 1..n PROVE r[i].time < b.time /\ r[i].atropos # b.atropos
      OBVIOUS
    <3>1. st.bs.LastBlock.time \in Nat
      BY <1>10
    <3>2. r[i].time < b.time
      <4>1. r[i].time \in Nat /\ r[i].time <= st.bs.LastBlock.time
        BY Zenon, <2>6, <2>10
      <4>2. b.time > st.bs.LastBlock.time /\ b.time \in Nat
        BY Zenon, <1>7, <2>2
      <4> QED
        BY <3>1, <4>1, <4>2
    <3>3. PICK x \in vs : Confirmed(x, r[i].atropos)
      BY Zenon, <2>10
    <3>4. x \in Epochs \X Nat /\ x # id
      BY Zenon, <1>13, <1>15
    <3>5. r[i].atropos # b.atropos
      BY ZenonT(30), <1>7, <2>9, <3>3, <3>4, ConfirmedOnce
    <3> QED
      BY ZenonT(30), <3>2, <3>5
  <2>12. ASSUME NEW i \in 1..(n + 1)
         PROVE  s[i].time <= c.ctx.time /\ \E x \in vs \cup {id} : Confirmed(x, s[i].atropos)
    <3>1. CASE i = n + 1
      <4>1. b.time <= c.ctx.time
        BY <2>2
      <4> QED
        BY ZenonT(30), <2>8, <2>9, <3>1, <4>1
    <3>2. CASE i # n + 1
      <4>1. i \in 1..n
        BY SMTT(30), <2>6, <3>2
      <4>2. r[i].time <= c.ctx.time
        BY SMTT(30), <2>2, <2>6, <2>11, <4>1
      <4> QED
        BY ZenonT(30), <2>8, <2>10, <4>1, <4>2
    <3> QED
      BY Zenon, <3>1, <3>2
  <2>13. ASSUME NEW i \in 1..(n + 1), NEW j \in 1..(n + 1), i < j
         PROVE  s[i].time < s[j].time /\ s[i].atropos # s[j].atropos
    <3>1. i \in 1..n /\ (j = n + 1 \/ j \in 1..n)
      BY <2>6, <2>13
    <3>2. CASE j = n + 1
      BY ZenonT(30), <2>8, <2>11, <3>1, <3>2
    <3>3. CASE j \in 1..n
      <4>1. r[i].time < r[j].time /\ r[i].atropos # r[j].atropos
        BY ZenonT(30), <1>14, <2>4, <2>5, <2>13, <3>1, <3>3
      <4> QED
        BY ZenonT(30), <2>8, <3>1, <3>3, <4>1
    <3> QED
      BY ZenonT(30), <3>1, <3>2, <3>3
  <2>14. Root(nst) = s /\ Len(s) = n + 1 /\ nst.bs.LastBlock.idx = n + 1
    BY ZenonT(30), <1>7, <1>14, <2>3, <2>4, <2>5, <2>7, <2>8
  <2> QED
    BY ZenonT(30), <1>5, <1>12, <1>16, <2>3, <2>12, <2>13, <2>14 DEF ChainOK
<1> QED
  BY Zenon, <1>17, <1>18

LEMMA SequentialChain ==
    ASSUME NEW n \in 0..MaxFrames
    PROVE  ChainOK(Sequential[n])
<1> DEFINE G == {st \in State : ChainOK(st)}
<1>1. Start \in G
  <2>1. 0 \in 0..MaxFrames
    BY RulesAssumption
  <2> QED
    BY Zenon, <2>1, ChainStart, SequentialState, SequentialRuns
<1>2. \A st \in G : RunFrame(st) \in G
  BY Zenon, ChainMore, RunFrameState, RunFrameNoMore
<1> HIDE DEF G
<1>3. Sequential[n] \in G
  BY Zenon, <1>1, <1>2, SequentialInduction
<1> QED
  BY Zenon, <1>3 DEF G

\* The chain of a state is the beginning of the chain of any later state.
Begins(r, s) == Len(r) <= Len(s) /\ \A i \in 1..Len(r) : s[i] = r[i]

LEMMA RunFrameBegins ==
    ASSUME NEW st \in State
    PROVE  Root(st) \in Seq(Block) /\ Begins(Root(st), Root(RunFrame(st)))
<1>1. Root(st) \in Seq(Block)
  BY DEF State, BlockStates, Root, Block
<1>2. Begins(Root(st), Root(st))
  <2>1. Len(Root(st)) \in Nat
    BY <1>1
  <2>2. Len(Root(st)) <= Len(Root(st))
    BY <2>1
  <2> QED
    BY Zenon, <2>2 DEF Begins
<1>3. CASE ~More(st)
  BY Zenon, <1>1, <1>2, <1>3, RunFrameNoMore
<1>4. CASE More(st)
  <2>1. PICK c : c = Callbacks(st.bs, st.es, st.frame)
    BY Zenon
  <2>2. PICK fr : fr = Frames[st.es.Epoch][st.frame + 1]
    BY Zenon
  <2>3. /\ RunFrame(st).bs = After(c).bs
        /\ CallbacksLeave(c, st.bs, st.es, st.frame, fr)
    BY Zenon, <1>4, <2>1, <2>2, RunFrameState
  <2>4. /\ Root(RunFrame(st)) = (IF c.skip THEN Root(st) ELSE Append(Root(st), BlockOf(c)))
        /\ c.fr = fr /\ FrameOK(fr) /\ c.ctx \in [idx : Nat, time : Nat]
    BY Zenon, <2>3 DEF CallbacksLeave, Root
  <2>5. PICK b : b = BlockOf(c)
    BY Zenon
  <2>6. b \in Block
    BY <2>4, <2>5 DEF Block, BlockOf, FrameOK
  <2>7. PICK r : r = Root(st)
    BY Zenon
  <2>8. Begins(r, Append(r, b))
    <3>1. r \in Seq(Block) /\ Len(r) \in Nat
      BY <1>1, <2>7
    <3>2. Len(Append(r, b)) = Len(r) + 1 /\ \A i \in 1..Len(r) : Append(r, b)[i] = r[i]
      BY <2>6, <3>1, AppendOne
    <3>3. Len(r) <= Len(Append(r, b))
      BY <3>1, <3>2
    <3> QED
      BY Zenon, <3>2, <3>3 DEF Begins
  <2> QED
    BY ZenonT(30), <1>1, <1>2, <2>4, <2>5, <2>7, <2>8
<1> QED
  BY Zenon, <1>3, <1>4

LEMMA FinalChainBegins ==
    ASSUME NEW m \in 0..MaxFrames
    PROVE  Begins(Root(Sequential[m]), FinalChain)
<1> DEFINE B == {n \in Nat : n >= m => Begins(Root(Sequential[m]), Root(Sequential[n]))}
<1>1. \A n \in 0..MaxFrames : Sequential[n] \in State /\ Root(Sequential[n]) \in Seq(Block)
  BY Zenon, SequentialState, RunFrameBegins
<1>2. Begins(Root(Sequential[m]), Root(Sequential[m]))
  <2>1. Len(Root(Sequential[m])) \in Nat
    BY <1>1
  <2>2. Len(Root(Sequential[m])) <= Len(Root(Sequential[m]))
    BY <2>1
  <2> QED
    BY Zenon, <2>2 DEF Begins
<1>3. 0 \in B
  <2>1. 0 >= m => m = 0
    BY RulesAssumption
  <2>2. 0 \in Nat
    OBVIOUS
  <2> QED
    BY Zenon, <1>2, <2>1, <2>2
<1>4. ASSUME NEW n \in 1..MaxFrames, n - 1 \in B PROVE n \in B
  <2>1. n \in Nat /\ n - 1 \in 0..MaxFrames /\ n \in 0..MaxFrames
    BY RulesAssumption
  <2>2. Sequential[n] = RunFrame(Sequential[n - 1])
    BY Zenon, SequentialRuns
  <2>3. CASE m = n
    BY Zenon, <1>2, <2>1, <2>3
  <2>4. CASE m # n
    <3>1. n >= m => n - 1 >= m
      BY <2>1, <2>4, RulesAssumption
    <3>2. n >= m => Begins(Root(Sequential[m]), Root(Sequential[n - 1]))
      BY Zenon, <1>4, <3>1
    <3>3. Begins(Root(Sequential[n - 1]), Root(Sequential[n]))
      BY Zenon, <1>1, <2>1, <2>2, RunFrameBegins
    <3>4. PICK x, y, z : x = Root(Sequential[m]) /\ y = Root(Sequential[n - 1]) /\ z = Root(Sequential[n])
      BY Zenon
    <3>5. Len(x) \in Nat /\ Len(y) \in Nat /\ Len(z) \in Nat
      BY <1>1, <2>1, <3>4
    <3>6. n >= m => Begins(x, z)
      <4>1. Begins(y, z) /\ (n >= m => Begins(x, y))
        BY Zenon, <3>2, <3>3, <3>4
      <4> QED
        BY <3>5, <4>1 DEF Begins
    <3> QED
      BY Zenon, <2>1, <3>4, <3>6
  <2> QED
    BY Zenon, <2>3, <2>4
<1> HIDE DEF B
<1>5. \A n \in 0..MaxFrames : n \in B
  BY Zenon, <1>3, <1>4, FrameInduction
<1>6. MaxFrames \in 0..MaxFrames /\ MaxFrames >= m
  BY RulesAssumption
<1>7. Root(Sequential[MaxFrames]) = FinalChain
  BY Zenon DEF Root, FinalChain
<1> QED
  BY Zenon, <1>5, <1>6, <1>7 DEF B

-----------------------------------------------------------------------------
(* States that the frames lead to. *)

\* st is the state that the frames in order lead to, with frame of them in its epoch.
At(st, frame) ==
    /\ st.bs \in BlockStates /\ st.es \in EpochStates /\ frame \in Nat
    /\ InSequence(st, frame)

LEMMA AtPosition ==
    ASSUME NEW st, NEW frame, At(st, frame)
    PROVE  \E n \in 0..MaxFrames : /\ n = Len(st.bs.ValidatorStates)
                                   /\ Sequential[n] = [bs |-> st.bs, es |-> st.es, frame |-> frame]
<1>1. st.bs \in BlockStates
  BY Zenon DEF At
<1>2. Len(st.bs.ValidatorStates) \in Nat
  BY <1>1 DEF BlockStates
<1>3. Len(st.bs.ValidatorStates) \in 0..MaxFrames
  BY <1>2, RulesAssumption DEF At, InSequence
<1> QED
  BY Zenon, <1>3 DEF At, InSequence

LEMMA AtSequential ==
    ASSUME NEW n \in 0..MaxFrames, NEW st,
           st.bs = Sequential[n].bs, st.es = Sequential[n].es
    PROVE  At(st, Sequential[n].frame)
<1> DEFINE x == Sequential[n]
           k == Count(x)
<1>1. x \in State
  BY Zenon, SequentialState
<1>2. k \in 0..n /\ Sequential[k] = x
  BY Zenon, SequentialPosition
<1>3. k <= MaxFrames
  BY <1>2, RulesAssumption
<1>4. x = [bs |-> x.bs, es |-> x.es, frame |-> x.frame] /\ x.frame \in Nat
      /\ x.bs \in BlockStates /\ x.es \in EpochStates
  BY <1>1 DEF State
<1>5. k = Len(st.bs.ValidatorStates)
  BY Zenon DEF Count
<1> HIDE DEF x, k
<1>6. InSequence(st, x.frame)
  BY ZenonT(30), <1>2, <1>3, <1>4, <1>5 DEF InSequence, x
<1> QED
  BY Zenon, <1>4, <1>6 DEF At, x

LEMMA AtGenesis == At(Genesis, 0)
<1>1. 0 \in 0..MaxFrames
  BY RulesAssumption
<1>2. Sequential[0].bs = Genesis.bs /\ Sequential[0].es = Genesis.es /\ Sequential[0].frame = 0
  BY SequentialRuns DEF Start
<1> QED
  BY Zenon, <1>1, <1>2, AtSequential

\* The callbacks lead from one such state to the next: no frame is left out, and
\* none is run twice.
LEMMA AtMore ==
    ASSUME NEW st, NEW frame, At(st, frame),
           st.es.Epoch \in Epochs, frame < Len(Frames[st.es.Epoch]),
           NEW c, c = Callbacks(st.bs, st.es, frame)
    PROVE  At(After(c), IF c.sealing THEN 0 ELSE frame + 1)
<1>1. PICK n \in 0..MaxFrames : Sequential[n] = [bs |-> st.bs, es |-> st.es, frame |-> frame]
  BY Zenon, AtPosition
<1> DEFINE x == Sequential[n]
<1>2. x \in State
  BY Zenon, SequentialState
<1>3. x.bs = st.bs /\ x.es = st.es /\ x.frame = frame
  BY <1>1
<1> HIDE DEF x
<1>4. More(x)
  BY Zenon, <1>3 DEF More
<1>5. c = Callbacks(x.bs, x.es, x.frame)
  BY Zenon, <1>3
<1>6. /\ RunFrame(x).bs = After(c).bs /\ RunFrame(x).es = c.es
      /\ RunFrame(x).frame = IF c.sealing THEN 0 ELSE x.frame + 1
  BY ZenonT(30), <1>2, <1>4, <1>5, RunFrameState
<1>7. n # MaxFrames
  <2> SUFFICES ASSUME n = MaxFrames PROVE FALSE
    OBVIOUS
  <2>1. RunFrame(x) = x
    BY Zenon, MaxFramesAssumption DEF x
  <2>2. Count(x) \in Nat /\ Count(x) = Count(x) + 1
    BY ZenonT(30), <1>2, <1>4, <2>1, CountMore
  <2> QED
    BY <2>2
<1>8. n + 1 \in 1..MaxFrames /\ n + 1 \in 0..MaxFrames
  BY <1>7, RulesAssumption
<1>9. Sequential[n + 1] = RunFrame(x)
  <2>1. \A i \in 1..MaxFrames : i = n + 1 => i - 1 = n
    OBVIOUS
  <2>2. \A i \in 1..MaxFrames : i = n + 1 => Sequential[i] = RunFrame(x)
    BY Zenon, <2>1, SequentialRuns DEF x
  <2> QED
    BY Zenon, <1>8, <2>2
<1>10. After(c).es = c.es
  BY Zenon DEF After
<1>11. At(After(c), Sequential[n + 1].frame)
  BY ZenonT(30), <1>6, <1>8, <1>9, <1>10, AtSequential
<1> QED
  BY Zenon, <1>3, <1>6, <1>9, <1>11

\* What the consensus engine decides.
LEMMA DecidedNumber ==
    ASSUME NEW ep, NEW S \in SUBSET EpochEvents(ep)
    PROVE  /\ Decided(ep, S) \in Nat /\ Decided(ep, {}) = 0
           /\ Decided(ep, S) > 0 => ep \in Epochs /\ Decided(ep, S) <= Len(Frames[ep])
<1>1. CASE ep \in Epochs
  <2>1. LastDecided[ep] \in [SUBSET EpochEvents(ep) -> 0..Len(Frames[ep])] /\ LastDecided[ep][{}] = 0
    BY Zenon, <1>1, EventsAssumption
  <2>2. LastDecided[ep][S] \in 0..Len(Frames[ep]) /\ Len(Frames[ep]) \in Nat
    BY Zenon, <1>1, <2>1, FramesAssumption
  <2>3. Decided(ep, S) = LastDecided[ep][S] /\ Decided(ep, {}) = 0
    BY Zenon, <1>1, <2>1 DEF Decided
  <2> QED
    BY <1>1, <2>2, <2>3
<1>2. CASE ep \notin Epochs
  BY <1>2 DEF Decided
<1> QED
  BY Zenon, <1>1, <1>2

LEMMA DecidedMore ==
    ASSUME NEW ep, NEW T \in SUBSET EpochEvents(ep), NEW S \in SUBSET T
    PROVE  Decided(ep, S) <= Decided(ep, T)
<1>1. CASE ep \in Epochs
  <2>1. S \in SUBSET EpochEvents(ep)
    BY Zenon
  <2>2. LastDecided[ep][S] <= LastDecided[ep][T]
    BY Zenon, <1>1, <2>1, EventsAssumption
  <2> QED
    BY Zenon, <1>1, <2>2 DEF Decided
<1>2. CASE ep \notin Epochs
  BY <1>2 DEF Decided
<1> QED
  BY Zenon, <1>1, <1>2

-----------------------------------------------------------------------------
(* The events of an epoch. *)

Of(ep, S) == S \cap EpochEvents(ep)
Closed(S) == \A e \in S : Parents[e] \subseteq S
HeadsOf(h, S) == h = {x \in S : \A y \in S : x \notin Parents[y]}
LamportOf(l, S) ==
    /\ l \in Nat /\ \A x \in S : Lamport[x] <= l
    /\ l = 0 \/ \E x \in S : Lamport[x] = l

LEMMA NoneOwnParent ==
    ASSUME NEW e \in Event
    PROVE  e \notin Parents[e] /\ Lamport[e] \in Nat
<1>1. Lamport[e] \in Nat \ {0} /\ \A p \in Parents[e] : Lamport[p] < Lamport[e]
  BY Zenon, EventsAssumption
<1> QED
  BY <1>1

\* processEventEpochIndex: one more event.
LEMMA HeadsMore ==
    ASSUME NEW S, Closed(S), NEW h, HeadsOf(h, S), NEW e \in Event, e \notin S
    PROVE  HeadsOf((h \ Parents[e]) \cup {e}, S \cup {e})
<1>1. e \notin Parents[e]
  BY Zenon, NoneOwnParent
<1>2. \A y \in S : e \notin Parents[y]
  BY Zenon DEF Closed
<1>3. ASSUME NEW x PROVE x \in (h \ Parents[e]) \cup {e}
                         <=> x \in S \cup {e} /\ \A y \in S \cup {e} : x \notin Parents[y]
  BY Zenon, <1>1, <1>2 DEF HeadsOf
<1> QED
  BY Zenon, <1>3 DEF HeadsOf

LEMMA LamportMore ==
    ASSUME NEW S \in SUBSET Event, NEW l, LamportOf(l, S), NEW e \in Event
    PROVE  LamportOf(IF Lamport[e] > l THEN Lamport[e] ELSE l, S \cup {e})
<1>1. l \in Nat /\ (\A x \in S : Lamport[x] <= l) /\ (l = 0 \/ \E x \in S : Lamport[x] = l)
  BY Zenon DEF LamportOf
<1>2. Lamport[e] \in Nat /\ \A x \in S : Lamport[x] \in Nat
  BY Zenon, NoneOwnParent
<1>3. CASE Lamport[e] > l
  <2>1. \A x \in S : Lamport[x] <= Lamport[e]
    BY <1>1, <1>2, <1>3
  <2>2. Lamport[e] <= Lamport[e]
    BY <1>2
  <2> QED
    BY Zenon, <1>2, <1>3, <2>1, <2>2 DEF LamportOf
<1>4. CASE ~(Lamport[e] > l)
  <2>1. Lamport[e] <= l
    BY <1>1, <1>2, <1>4
  <2> QED
    BY Zenon, <1>1, <1>4, <2>1 DEF LamportOf
<1> QED
  BY Zenon, <1>3, <1>4

\* The events of one epoch have their parents in it.
LEMMA ClosedEpoch ==
    ASSUME NEW S \in SUBSET Event, Closed(S), NEW ep
    PROVE  Closed(Of(ep, S))
<1>1. \A e \in Event : \A p \in Parents[e] : p \in Event /\ EpochOf[p] = EpochOf[e]
  BY Zenon, EventsAssumption
<1> QED
  BY Zenon, <1>1 DEF Closed, Of, EpochEvents

LEMMA NoneLater ==
    ASSUME NEW S \in SUBSET Event, NEW ep \in Nat, \A e \in S : EpochOf[e] <= ep,
           NEW later \in Nat, later > ep
    PROVE  Of(later, S) = {} /\ \A e \in S : EpochOf[e] <= later
<1>1. \A e \in S : EpochOf[e] \in Nat
  BY EventsAssumption DEF Epochs
<1>2. \A e \in S : EpochOf[e] # later /\ EpochOf[e] <= later
  BY <1>1
<1> QED
  BY ZenonT(30), <1>2 DEF Of, EpochEvents

-----------------------------------------------------------------------------
(* The inductive invariant, in parts that are operators of the state, so that *)
(* a step is reasoned about with the new values as arguments.                 *)

\* The tables of the events and of the epochs, in memory or on disk.
TablesOK(ev, ep, hist) ==
    /\ ev \subseteq Event /\ Closed(ev) /\ \A e \in ev : EpochOf[e] <= ep
    /\ \A h \in DOMAIN hist : hist[h].es.Epoch = h /\ At(hist[h], 0)

DiskOK(d) ==
    LET S == Of(d.bes.es.Epoch, d.events)
    IN  /\ TablesOK(d.events, d.bes.es.Epoch, d.history)
        /\ At(d.bes, Decided(d.bes.es.Epoch, S)) /\ LamportOf(d.HighestLamport, S)

\* The closure that waits for the worker: the epoch is sealed without it.
WorkOK(work, b) ==
    /\ b.bs \in BlockStates /\ b.es \in EpochStates
    /\ work # BlockProcIdle => /\ work.pc = "run" /\ ~work.c.skip /\ work.c.es = b.es
                               /\ work.c.sealing => At(After(work.c), 0)

\* The state once the worker is done.
Target(work, b) == IF work = BlockProcIdle THEN b ELSE After(work.c)

\* The consensus engine and the tables of the epoch, S being the events of it:
\* between two events; within processEvent; within ReprocessEpochEvents.
BetweenOK(target, la, ep, S, h, hl) ==
    /\ At(target, la.frame) /\ la.events = S /\ la.frame = Decided(ep, S)
    /\ HeadsOf(h, S) /\ LamportOf(hl, S)
ProcessOK(target, la, ep, S, h, hl, en, ev) ==
    /\ At(target, la.frame) /\ la.events = S
    /\ en.e \in ev /\ EpochOf[en.e] = en.oldEpoch /\ Closed(ev \ {en.e})
    /\ IF ep = en.oldEpoch
       THEN /\ la.frame <= Decided(ep, S)
            /\ HeadsOf(h, S \ {en.e}) /\ LamportOf(hl, S \ {en.e})
       ELSE la.frame = 0 /\ S = {}
ReprocessOK(work, b, la, ep, S, h, hl) ==
    /\ work = BlockProcIdle
    /\ At(b, Decided(ep, S))
    /\ la.events \subseteq S /\ Closed(la.events) /\ la.frame = Decided(ep, la.events)
    /\ HeadsOf(h, la.events) /\ LamportOf(hl, S)

EngineOK(en, work, b, la, ev, h, hl) ==
    LET ep == b.es.Epoch
        S == Of(ep, ev)
    IN  /\ la \in [epoch : {ep}, events : SUBSET Event, frame : Nat]
        /\ en.pc \in {"idle", "commit", "process", "reprocess"}
        /\ en.pc \in {"idle", "commit"} => BetweenOK(Target(work, b), la, ep, S, h, hl)
        /\ en.pc = "process" => ProcessOK(Target(work, b), la, ep, S, h, hl, en, ev)
        /\ en.pc = "reprocess" => ReprocessOK(work, b, la, ep, S, h, hl)

PipelineInv ==
    /\ TablesOK(events, bes.es.Epoch, history)
    /\ DiskOK(disk)
    /\ WorkOK(blockProc, bes)
    /\ EngineOK(engine, blockProc, bes, lachesis, events, heads, HighestLamport)

LEMMA PipelineAfter ==
    ASSUME TablesOK(events', bes'.es.Epoch, history'), DiskOK(disk'), WorkOK(blockProc', bes'),
           EngineOK(engine', blockProc', bes', lachesis', events', heads', HighestLamport')
    PROVE  PipelineInv'
  BY DEF PipelineInv

LEMMA PipelineInit == Init => PipelineInv
<1> SUFFICES ASSUME Init PROVE PipelineInv
  OBVIOUS
<1> DEFINE ep == Genesis.es.Epoch
<1>1. Genesis.bs \in BlockStates /\ Genesis.es \in EpochStates /\ At(Genesis, 0)
  BY Zenon, AtGenesis DEF At
<1>2. ep = 1 /\ Of(ep, {}) = {}
  BY DEF Genesis, Of
<1>3. Decided(ep, {}) = 0
  BY Zenon, DecidedNumber
<1>4. HeadsOf({}, {}) /\ LamportOf(0, {}) /\ Closed({})
  BY DEF HeadsOf, LamportOf, Closed
<1>5. TablesOK({}, ep, [h \in {1} |-> Genesis])
  BY Zenon, <1>1, <1>2, <1>4 DEF TablesOK
<1>6. DiskOK(disk)
  <2>1. disk.events = {} /\ disk.bes = Genesis /\ disk.history = [h \in {1} |-> Genesis]
        /\ disk.HighestLamport = 0
    BY DEF Init, Durable
  <2> QED
    BY ZenonT(30), <1>1, <1>2, <1>3, <1>4, <1>5, <2>1 DEF DiskOK
<1>7. WorkOK(blockProc, bes) /\ Target(blockProc, bes) = Genesis
  BY Zenon, <1>1 DEF Init, WorkOK, Target
<1>8. EngineOK(engine, blockProc, bes, lachesis, events, heads, HighestLamport)
  <2>1. engine.pc = "idle" /\ engine.pc # "process" /\ engine.pc # "reprocess"
    BY DEF Init, EngineIdle
  <2>2. /\ lachesis \in [epoch : {ep}, events : SUBSET Event, frame : Nat]
        /\ lachesis.events = {} /\ lachesis.frame = 0
    BY <1>2 DEF Init
  <2>3. BetweenOK(Genesis, lachesis, ep, {}, heads, HighestLamport)
    BY ZenonT(30), <1>1, <1>3, <1>4, <2>2 DEF BetweenOK, Init
  <2> QED
    BY ZenonT(30), <1>2, <1>7, <2>1, <2>2, <2>3 DEF EngineOK, Init
<1> QED
  BY ZenonT(30), <1>5, <1>6, <1>7, <1>8 DEF PipelineInv, Init

LEMMA PipelineProcessEvent ==
    ASSUME PipelineInv, NEW e \in Event, processEvent(e)
    PROVE  PipelineInv'
<1> DEFINE ep == bes.es.Epoch
           S == Of(ep, events)
           target == Target(blockProc, bes)
<1>1. TablesOK(events, ep, history) /\ DiskOK(disk) /\ WorkOK(blockProc, bes)
  BY Zenon DEF PipelineInv
<1>2. /\ lachesis \in [epoch : {ep}, events : SUBSET Event, frame : Nat]
      /\ BetweenOK(target, lachesis, ep, S, heads, HighestLamport)
  <2>1. engine.pc \in {"idle", "commit"}
    BY DEF processEvent, EngineIdle
  <2> QED
    BY Zenon, <2>1 DEF PipelineInv, EngineOK
<1>3. /\ events' = events \cup {e} /\ e \notin events /\ EpochOf[e] = ep /\ Parents[e] \subseteq events
      /\ bes' = bes /\ history' = history /\ HighestLamport' = HighestLamport
      /\ heads' = heads /\ blockProc' = blockProc /\ disk' = disk
  BY Zenon DEF processEvent
<1>4. engine'.pc = "process" /\ engine'.e = e /\ engine'.oldEpoch = ep
  BY DEF processEvent
<1>5. /\ lachesis' \in [epoch : {ep}, events : SUBSET Event, frame : Nat]
      /\ lachesis'.events = lachesis.events \cup {e} /\ lachesis'.frame = lachesis.frame
  BY <1>2 DEF processEvent
<1>6. ep \in Nat
  <2>1. ep \in Epochs
    BY Zenon, <1>3, EventsAssumption
  <2> QED
    BY <2>1 DEF Epochs
<1>7. TablesOK(events', ep, history')
  <2>1. EpochOf[e] <= ep
    BY <1>3, <1>6
  <2> QED
    BY ZenonT(30), <1>1, <1>3, <2>1 DEF TablesOK, Closed
<1>8. /\ Of(ep, events') = S \cup {e} /\ (S \cup {e}) \ {e} = S /\ events' \ {e} = events
      /\ S \subseteq S \cup {e} /\ S \cup {e} \subseteq EpochEvents(ep)
  BY Zenon, <1>3 DEF Of, EpochEvents
<1>9. Closed(events)
  BY Zenon, <1>1 DEF TablesOK
<1> HIDE DEF S, target
<1>10. lachesis.frame <= Decided(ep, S \cup {e})
  <2>1. Decided(ep, S) <= Decided(ep, S \cup {e})
    BY Zenon, <1>8, DecidedMore
  <2> QED
    BY Zenon, <1>2, <2>1 DEF BetweenOK
<1>11. ProcessOK(target, lachesis', ep, S \cup {e}, heads, HighestLamport, engine', events')
  <2>1. /\ At(target, lachesis'.frame) /\ lachesis'.events = S \cup {e}
        /\ HeadsOf(heads, S) /\ LamportOf(HighestLamport, S)
    BY Zenon, <1>2, <1>5 DEF BetweenOK
  <2>2. /\ engine'.e \in events' /\ EpochOf[engine'.e] = engine'.oldEpoch
        /\ Closed(events' \ {engine'.e}) /\ engine'.oldEpoch = ep /\ (S \cup {e}) \ {engine'.e} = S
    BY ZenonT(30), <1>3, <1>4, <1>8, <1>9
  <2>3. lachesis'.frame <= Decided(ep, S \cup {e})
    BY Zenon, <1>5, <1>10
  <2> HIDE DEF ep
  <2> QED
    BY ZenonT(30), <2>1, <2>2, <2>3 DEF ProcessOK
<1>12. EngineOK(engine', blockProc', bes', lachesis', events', heads', HighestLamport')
  <2>1. engine'.pc \notin {"idle", "commit"} /\ engine'.pc # "reprocess"
        /\ engine'.pc \in {"idle", "commit", "process", "reprocess"}
    BY <1>4
  <2> QED
    BY ZenonT(30), <1>3, <1>5, <1>8, <1>11, <2>1 DEF EngineOK, target
<1> QED
  BY ZenonT(30), <1>1, <1>3, <1>7, <1>12, PipelineAfter

\* The writes of blockFn keep the table of the epoch states in sequence.
LEMMA HistoryMore ==
    ASSUME NEW ev, NEW ep, NEW hist, TablesOK(ev, ep, hist),
           NEW st, At(st, 0), NEW more,
           \A h \in DOMAIN more : IF h = st.es.Epoch THEN more[h] = st
                                  ELSE h \in DOMAIN hist /\ more[h] = hist[h]
    PROVE  TablesOK(ev, ep, more)
  BY Zenon DEF TablesOK

LEMMA WriteBlockTables ==
    ASSUME NEW ev, NEW ep, TablesOK(ev, ep, history),
           NEW c, ~c.skip, WriteBlock(c), c.sealing => At(After(c), 0)
    PROVE  bes' = After(c) /\ TablesOK(ev, ep, history')
<1>1. After(c) = [bs |-> FinalBs(c), es |-> c.es] /\ After(c).es = c.es
  BY Zenon DEF After
<1>2. bes' = After(c)
  BY Zenon, <1>1 DEF WriteBlock
<1>3. CASE c.sealing
  <2>1. history' = [h \in DOMAIN history \cup {c.es.Epoch} |->
                      IF h = c.es.Epoch THEN After(c) ELSE history[h]]
    BY SMTT(30), <1>1, <1>3 DEF WriteBlock
  <2>2. \A h \in DOMAIN history' : IF h = After(c).es.Epoch THEN history'[h] = After(c)
                                   ELSE h \in DOMAIN history /\ history'[h] = history[h]
    BY <1>1, <2>1
  <2>3. At(After(c), 0)
    BY <1>3
  <2>4. TablesOK(ev, ep, history')
    BY ZenonT(30), <2>2, <2>3, HistoryMore
  <2> QED
    BY ZenonT(30), <1>2, <2>4
<1>4. CASE ~c.sealing
  BY Zenon, <1>2, <1>4 DEF WriteBlock
<1> QED
  BY Zenon, <1>3, <1>4

\* No event is of an epoch that has just begun.
LEMMA TablesLater ==
    ASSUME NEW ev, NEW ep \in Nat, NEW hist, TablesOK(ev, ep, hist), NEW later \in Nat, later > ep
    PROVE  TablesOK(ev, later, hist) /\ Of(later, ev) = {}
<1>1. ev \in SUBSET Event /\ \A e \in ev : EpochOf[e] <= ep
  BY Zenon DEF TablesOK
<1>2. Of(later, ev) = {} /\ \A e \in ev : EpochOf[e] <= later
  BY Zenon, <1>1, NoneLater
<1> QED
  BY Zenon, <1>2 DEF TablesOK

\* The callbacks of a frame start from the state that the frames before it lead to,
\* and lead to the one after it, once the worker is done.
AtroposStep(c) ==
    LET frame == lachesis.frame
    IN  /\ engine.pc = "process" /\ blockProc = BlockProcIdle
        /\ bes.es.Epoch = engine.oldEpoch /\ At(bes, frame)
        /\ frame + 1 <= Decided(bes.es.Epoch, Of(bes.es.Epoch, events))
        /\ CallbacksLeave(c, bes.bs, bes.es, frame, Frames[bes.es.Epoch][frame + 1])
        /\ At(After(c), IF c.sealing THEN 0 ELSE frame + 1)
        /\ lachesis' = IF c.sealing THEN [epoch |-> c.es.Epoch, events |-> {}, frame |-> 0]
                       ELSE [lachesis EXCEPT !.frame = @ + 1]
        /\ \/ /\ c.skip /\ bes' = [bs |-> c.bs, es |-> c.es]
              /\ history' = history /\ blockProc' = blockProc
              /\ Blocks' = Blocks /\ BlockIndex' = BlockIndex
           \/ /\ ~c.skip /\ bes' = (IF c.sealing THEN [bs |-> c.bs, es |-> c.es] ELSE bes)
              /\ blockProc' = [pc |-> "run", c |-> c] /\ history' = history
              /\ Blocks' = Blocks /\ BlockIndex' = BlockIndex
           \/ ~c.skip /\ WriteBlock(c) /\ blockProc' = blockProc
        /\ events' = events /\ HighestLamport' = HighestLamport /\ heads' = heads
        /\ engine' = engine /\ disk' = disk /\ crashes' = crashes

LEMMA AtroposSteps ==
    ASSUME PipelineInv, applyAtropos
    PROVE  \E c : AtroposStep(c)
<1> DEFINE ep == bes.es.Epoch
           S == Of(ep, events)
           frame == lachesis.frame
           c == Callbacks(bes.bs, bes.es, frame)
<1>1. engine.pc = "process" /\ FrameDecided /\ blockProc = BlockProcIdle
  BY Zenon DEF applyAtropos
<1>2. /\ lachesis \in [epoch : {ep}, events : SUBSET Event, frame : Nat]
      /\ ProcessOK(bes, lachesis, ep, S, heads, HighestLamport, engine, events)
  <2>1. Target(blockProc, bes) = bes
    BY Zenon, <1>1 DEF Target
  <2> QED
    BY Zenon, <1>1, <2>1 DEF PipelineInv, EngineOK
<1>3. lachesis.epoch = ep /\ frame \in Nat
  BY <1>2
<1>4. /\ ep = engine.oldEpoch /\ At(bes, frame) /\ lachesis.events = S
      /\ frame < Decided(ep, S)
  BY Zenon, <1>1, <1>2, <1>3 DEF FrameDecided, ProcessOK
<1>5. bes.bs \in BlockStates /\ bes.es \in EpochStates
  BY ZenonT(30), <1>4 DEF At
<1>6. ep \in Nat
  BY SMTT(30), <1>5 DEF EpochStates
<1>7. ep \in Epochs /\ frame < Len(Frames[ep]) /\ frame + 1 <= Decided(ep, S)
  <2>1. S \in SUBSET EpochEvents(ep)
    BY Zenon DEF Of
  <2>2. Decided(ep, S) \in Nat
        /\ (Decided(ep, S) > 0 => ep \in Epochs /\ Decided(ep, S) <= Len(Frames[ep]))
    BY Zenon, <2>1, DecidedNumber
  <2>3. ep \in Epochs => Len(Frames[ep]) \in Nat
    BY Zenon, FramesAssumption
  <2> HIDE DEF ep, S, frame
  <2> QED
    BY SMTT(30), <1>3, <1>4, <2>2, <2>3
<1>8. /\ lachesis' = IF c.sealing THEN [epoch |-> c.es.Epoch, events |-> {}, frame |-> 0]
                     ELSE [lachesis EXCEPT !.frame = @ + 1]
      /\ \/ /\ c.skip /\ bes' = [bs |-> c.bs, es |-> c.es]
            /\ history' = history /\ blockProc' = blockProc
            /\ Blocks' = Blocks /\ BlockIndex' = BlockIndex
         \/ /\ ~c.skip /\ bes' = (IF c.sealing THEN [bs |-> c.bs, es |-> c.es] ELSE bes)
            /\ blockProc' = [pc |-> "run", c |-> c] /\ history' = history
            /\ Blocks' = Blocks /\ BlockIndex' = BlockIndex
         \/ ~c.skip /\ WriteBlock(c) /\ blockProc' = blockProc
      /\ events' = events /\ HighestLamport' = HighestLamport /\ heads' = heads
      /\ engine' = engine /\ disk' = disk /\ crashes' = crashes
  BY ZenonT(30), <1>3 DEF applyAtropos, Callbacks, FrameOf
<1>9. CallbacksLeave(c, bes.bs, bes.es, frame, Frames[ep][frame + 1])
  BY ZenonT(30), <1>3, <1>5, <1>7, CallbacksState
<1>10. At(After(c), IF c.sealing THEN 0 ELSE frame + 1)
  BY ZenonT(30), <1>4, <1>7, AtMore
<1> HIDE DEF c
<1>11. AtroposStep(c)
  BY ZenonT(30), <1>1, <1>4, <1>7, <1>8, <1>9, <1>10 DEF AtroposStep
<1> QED
  BY Zenon, <1>11

LEMMA PipelineApplyAtropos ==
    ASSUME PipelineInv, applyAtropos
    PROVE  PipelineInv'
<1> DEFINE ep == bes.es.Epoch
           S == Of(ep, events)
           frame == lachesis.frame
<1>1. TablesOK(events, ep, history) /\ DiskOK(disk) /\ WorkOK(blockProc, bes)
  BY Zenon DEF PipelineInv
<1>2. PICK c : AtroposStep(c)
  BY Zenon, AtroposSteps
<1>3. engine.pc = "process" /\ blockProc = BlockProcIdle /\ Target(blockProc, bes) = bes
  BY Zenon, <1>2 DEF AtroposStep, Target
<1>4. /\ lachesis \in [epoch : {ep}, events : SUBSET Event, frame : Nat]
      /\ ProcessOK(bes, lachesis, ep, S, heads, HighestLamport, engine, events)
  BY Zenon, <1>3 DEF PipelineInv, EngineOK
<1>5. /\ ep = engine.oldEpoch /\ At(bes, frame) /\ lachesis.events = S
      /\ frame + 1 <= Decided(ep, S)
  BY Zenon, <1>2, <1>4 DEF AtroposStep, ProcessOK
<1>6. bes.bs \in BlockStates /\ bes.es \in EpochStates
  BY ZenonT(30), <1>5 DEF At
<1>7. ep \in Nat /\ frame \in Nat
  BY <1>4, <1>6 DEF EpochStates
<1>8. /\ lachesis' = IF c.sealing THEN [epoch |-> c.es.Epoch, events |-> {}, frame |-> 0]
                     ELSE [lachesis EXCEPT !.frame = @ + 1]
      /\ \/ /\ c.skip /\ bes' = [bs |-> c.bs, es |-> c.es]
            /\ history' = history /\ blockProc' = blockProc
         \/ /\ ~c.skip /\ bes' = (IF c.sealing THEN [bs |-> c.bs, es |-> c.es] ELSE bes)
            /\ blockProc' = [pc |-> "run", c |-> c] /\ history' = history
         \/ ~c.skip /\ WriteBlock(c) /\ blockProc' = blockProc
      /\ events' = events /\ HighestLamport' = HighestLamport /\ heads' = heads
      /\ engine' = engine /\ disk' = disk
  BY Zenon, <1>2 DEF AtroposStep
<1>9. At(After(c), IF c.sealing THEN 0 ELSE frame + 1)
  BY Zenon, <1>2 DEF AtroposStep
<1>10. CallbacksLeave(c, bes.bs, bes.es, frame, Frames[ep][frame + 1])
  BY Zenon, <1>2 DEF AtroposStep
<1>11. /\ c.bs \in BlockStates /\ c.es \in EpochStates
       /\ c.skip \in BOOLEAN /\ c.sealing \in BOOLEAN /\ (c.skip => ~c.sealing)
       /\ After(c).bs \in BlockStates /\ After(c).es = c.es
       /\ c.es.Epoch = (IF c.sealing THEN ep + 1 ELSE ep)
       /\ ~c.sealing => c.es = bes.es
  BY Zenon, <1>10 DEF CallbacksLeave
<1>12. /\ TablesOK(events, c.es.Epoch, history)
       /\ c.sealing => Of(c.es.Epoch, events) = {} /\ c.es.Epoch # ep
  <2>1. CASE c.sealing
    <3>1. c.es.Epoch \in Nat /\ c.es.Epoch > ep /\ c.es.Epoch # ep
      BY <1>7, <1>11, <2>1
    <3> QED
      BY ZenonT(30), <1>1, <1>7, <3>1, TablesLater
  <2>2. CASE ~c.sealing
    BY Zenon, <1>1, <1>11, <2>2
  <2> QED
    BY ZenonT(30), <2>1, <2>2
<1>13. c.sealing => At(After(c), 0)
  BY Zenon, <1>9
<1>14. /\ Target(blockProc', bes') = After(c) /\ WorkOK(blockProc', bes') /\ bes'.es = c.es
       /\ TablesOK(events', bes'.es.Epoch, history')
  <2>1. CASE c.skip /\ bes' = [bs |-> c.bs, es |-> c.es] /\ history' = history /\ blockProc' = blockProc
    <3>1. bes' = After(c)
      BY Zenon, <2>1 DEF After
    <3>2. blockProc' = BlockProcIdle
      BY ZenonT(30), <1>3, <2>1
    <3> QED
      BY ZenonT(30), <1>8, <1>11, <1>12, <2>1, <3>1, <3>2 DEF Target, WorkOK
  <2>2. CASE ~c.skip /\ bes' = (IF c.sealing THEN [bs |-> c.bs, es |-> c.es] ELSE bes)
             /\ blockProc' = [pc |-> "run", c |-> c] /\ history' = history
    <3>1. bes'.es = c.es /\ bes'.bs \in BlockStates
      <4>1. CASE c.sealing
        BY SMTT(30), <1>11, <2>2, <4>1
      <4>2. CASE ~c.sealing
        BY ZenonT(30), <1>6, <1>11, <2>2, <4>2
      <4> QED
        BY ZenonT(30), <4>1, <4>2
    <3>2. blockProc' # BlockProcIdle /\ blockProc'.pc = "run" /\ blockProc'.c = c
      BY <2>2 DEF BlockProcIdle
    <3> QED
      BY ZenonT(30), <1>8, <1>11, <1>12, <1>13, <2>2, <3>1, <3>2 DEF Target, WorkOK
  <2>3. CASE ~c.skip /\ WriteBlock(c) /\ blockProc' = blockProc
    <3>1. bes' = After(c)
      BY Zenon, <2>3 DEF After, WriteBlock
    <3>2. blockProc' = BlockProcIdle
      BY ZenonT(30), <1>3, <2>3
    <3>3. TablesOK(events, c.es.Epoch, history')
      BY ZenonT(30), <1>12, <1>13, <2>3, WriteBlockTables
    <3> QED
      BY ZenonT(30), <1>8, <1>11, <3>1, <3>2, <3>3 DEF Target, WorkOK
  <2> QED
    BY ZenonT(30), <1>8, <2>1, <2>2, <2>3
<1>15. /\ lachesis' \in [epoch : {c.es.Epoch}, events : SUBSET Event, frame : Nat]
       /\ lachesis'.frame = (IF c.sealing THEN 0 ELSE frame + 1)
       /\ lachesis'.events = (IF c.sealing THEN {} ELSE lachesis.events)
  BY SMTT(30), <1>4, <1>7, <1>8, <1>11
<1> HIDE DEF S, frame
<1>16. ProcessOK(After(c), lachesis', c.es.Epoch, Of(c.es.Epoch, events), heads,
                 HighestLamport, engine, events)
  <2>1. At(After(c), lachesis'.frame)
    BY ZenonT(30), <1>9, <1>15
  <2>2. engine.e \in events /\ EpochOf[engine.e] = engine.oldEpoch /\ Closed(events \ {engine.e})
    BY Zenon, <1>4 DEF ProcessOK
  <2>3. CASE c.sealing
    BY ZenonT(30), <1>5, <1>12, <1>15, <2>1, <2>2, <2>3 DEF ProcessOK
  <2>4. CASE ~c.sealing
    <3>1. c.es.Epoch = ep /\ Of(c.es.Epoch, events) = S
      BY ZenonT(30), <1>11, <2>4 DEF S
    <3>2. HeadsOf(heads, S \ {engine.e}) /\ LamportOf(HighestLamport, S \ {engine.e})
      BY ZenonT(30), <1>4, <1>5 DEF ProcessOK
    <3> HIDE DEF ep
    <3> QED
      BY ZenonT(30), <1>5, <1>15, <2>1, <2>2, <2>4, <3>1, <3>2 DEF ProcessOK
  <2> QED
    BY ZenonT(30), <2>3, <2>4
<1>17. EngineOK(engine', blockProc', bes', lachesis', events', heads', HighestLamport')
  <2>1. engine.pc \notin {"idle", "commit"} /\ engine.pc # "reprocess"
        /\ engine.pc \in {"idle", "commit", "process", "reprocess"}
    BY <1>3
  <2> QED
    BY ZenonT(30), <1>8, <1>14, <1>15, <1>16, <2>1 DEF EngineOK
<1> QED
  BY ZenonT(30), <1>1, <1>8, <1>14, <1>17, PipelineAfter

LEMMA PipelineEndProcessEvent ==
    ASSUME PipelineInv, endProcessEvent
    PROVE  PipelineInv'
<1> DEFINE ep == bes.es.Epoch
           S == Of(ep, events)
           e == engine.e
           target == Target(blockProc, bes)
<1>1. TablesOK(events, ep, history) /\ DiskOK(disk) /\ WorkOK(blockProc, bes)
  BY Zenon DEF PipelineInv
<1>2. /\ engine.pc = "process" /\ ~FrameDecided
      /\ events' = events /\ bes' = bes /\ history' = history /\ lachesis' = lachesis
      /\ blockProc' = blockProc /\ disk' = disk
  BY Zenon DEF endProcessEvent
<1>3. /\ lachesis \in [epoch : {ep}, events : SUBSET Event, frame : Nat]
      /\ ProcessOK(target, lachesis, ep, S, heads, HighestLamport, engine, events)
  BY Zenon, <1>2 DEF PipelineInv, EngineOK
<1>4. /\ At(target, lachesis.frame) /\ lachesis.events = S
      /\ e \in events /\ EpochOf[e] = engine.oldEpoch /\ Closed(events \ {e})
  BY ZenonT(30), <1>3 DEF ProcessOK
<1>5. lachesis.epoch = ep /\ lachesis.frame \in Nat
  BY <1>3
<1>6. events \in SUBSET Event
  BY Zenon, <1>1 DEF TablesOK
<1>7. Decided(ep, {}) = 0 /\ Decided(ep, S) \in Nat
  <2>1. S \in SUBSET EpochEvents(ep)
    BY Zenon DEF Of
  <2> QED
    BY ZenonT(30), <2>1, DecidedNumber
<1>8. BetweenOK(target, lachesis, ep, S, heads', HighestLamport') /\ engine'.pc \in {"idle", "commit"}
  <2>1. CASE ep # engine.oldEpoch
    <3>1. lachesis.frame = 0 /\ S = {}
      BY Zenon, <1>3, <2>1 DEF ProcessOK
    <3>2. heads' = {} /\ HighestLamport' = 0 /\ engine' = [pc |-> "commit"]
      BY ZenonT(30), <2>1 DEF endProcessEvent
    <3>3. HeadsOf({}, {}) /\ LamportOf(0, {}) /\ engine'.pc \in {"idle", "commit"}
      BY <3>2 DEF HeadsOf, LamportOf
    <3> HIDE DEF ep, S, target
    <3> QED
      BY ZenonT(30), <1>4, <1>7, <3>1, <3>2, <3>3 DEF BetweenOK
  <2>2. CASE ep = engine.oldEpoch
    <3>1. /\ lachesis.frame <= Decided(ep, S)
          /\ HeadsOf(heads, S \ {e}) /\ LamportOf(HighestLamport, S \ {e})
      BY Zenon, <1>3, <2>2 DEF ProcessOK
    <3>2. /\ heads' = (heads \ Parents[e]) \cup {e}
          /\ HighestLamport' = IF Lamport[e] > HighestLamport THEN Lamport[e] ELSE HighestLamport
          /\ engine' \in {EngineIdle, [pc |-> "commit"]}
      BY Zenon, <2>2 DEF endProcessEvent, EpochIndex
    <3>3. ~(lachesis.frame < Decided(ep, S))
      BY ZenonT(30), <1>2, <1>4, <1>5, <2>2 DEF FrameDecided
    <3>4. lachesis.frame = Decided(ep, S)
      BY SMTT(30), <1>5, <1>7, <3>1, <3>3
    <3>5. e \in Event /\ e \in S /\ (S \ {e}) \cup {e} = S /\ S \ {e} \in SUBSET Event
      BY ZenonT(30), <1>4, <1>6, <2>2 DEF Of, EpochEvents
    <3>6. Closed(S \ {e})
      <4>1. Closed(Of(ep, events \ {e})) /\ Of(ep, events \ {e}) = S \ {e}
        BY ZenonT(30), <1>4, <1>6, ClosedEpoch DEF Of
      <4> QED
        BY Zenon, <4>1
    <3> HIDE DEF S, e, target
    <3>7. HeadsOf(heads', S)
      <4>1. HeadsOf((heads \ Parents[e]) \cup {e}, (S \ {e}) \cup {e})
        BY ZenonT(30), <3>1, <3>5, <3>6, HeadsMore
      <4> QED
        BY ZenonT(30), <3>2, <3>5, <4>1
    <3>8. LamportOf(HighestLamport', S)
      <4>1. LamportOf(IF Lamport[e] > HighestLamport THEN Lamport[e] ELSE HighestLamport,
                      (S \ {e}) \cup {e})
        BY ZenonT(30), <3>1, <3>5, LamportMore
      <4> QED
        BY ZenonT(30), <3>2, <3>5, <4>1
    <3>9. engine'.pc \in {"idle", "commit"}
      BY <3>2 DEF EngineIdle
    <3> QED
      BY ZenonT(30), <1>4, <3>4, <3>7, <3>8, <3>9 DEF BetweenOK
  <2> QED
    BY ZenonT(30), <2>1, <2>2
<1> HIDE DEF e
<1>9. EngineOK(engine', blockProc', bes', lachesis', events', heads', HighestLamport')
  <2>1. engine'.pc # "process" /\ engine'.pc # "reprocess"
        /\ engine'.pc \in {"idle", "commit", "process", "reprocess"}
    BY <1>8
  <2> QED
    BY ZenonT(30), <1>2, <1>3, <1>8, <2>1 DEF EngineOK
<1> QED
  BY ZenonT(30), <1>1, <1>2, <1>9, PipelineAfter

LEMMA PipelineBlockFn ==
    ASSUME PipelineInv, blockFn
    PROVE  PipelineInv'
<1> DEFINE ep == bes.es.Epoch
           S == Of(ep, events)
           c == blockProc.c
<1>1. TablesOK(events, ep, history) /\ DiskOK(disk) /\ WorkOK(blockProc, bes)
      /\ EngineOK(engine, blockProc, bes, lachesis, events, heads, HighestLamport)
  BY Zenon DEF PipelineInv
<1>2. /\ WriteBlock(c) /\ blockProc' = BlockProcIdle
      /\ events' = events /\ HighestLamport' = HighestLamport /\ heads' = heads
      /\ lachesis' = lachesis /\ engine' = engine /\ disk' = disk
  BY Zenon DEF blockFn
<1>3. blockProc # BlockProcIdle
  BY DEF blockFn, BlockProcIdle
<1>4. ~c.skip /\ c.es = bes.es /\ (c.sealing => At(After(c), 0))
  BY Zenon, <1>1, <1>3 DEF WorkOK
<1>5. Target(blockProc, bes) = After(c) /\ After(c).es = c.es
  BY Zenon, <1>3 DEF Target, After
<1> HIDE DEF c
<1>6. bes' = After(c) /\ TablesOK(events, ep, history')
  BY ZenonT(30), <1>1, <1>2, <1>4, WriteBlockTables
<1>7. bes'.es = bes.es /\ Target(blockProc', bes') = After(c)
  BY ZenonT(30), <1>2, <1>4, <1>5, <1>6 DEF Target
<1>8. engine.pc # "reprocess"
  BY Zenon, <1>1, <1>3 DEF EngineOK, ReprocessOK
<1>9. EngineOK(engine', blockProc', bes', lachesis', events', heads', HighestLamport')
  BY ZenonT(30), <1>1, <1>2, <1>5, <1>7, <1>8 DEF EngineOK
<1>10. WorkOK(blockProc', bes')
  <2>1. engine.pc \in {"idle", "commit"} \/ engine.pc = "process"
    BY Zenon, <1>1, <1>8 DEF EngineOK
  <2>2. At(After(c), lachesis.frame)
    BY ZenonT(30), <1>1, <1>5, <2>1 DEF EngineOK, BetweenOK, ProcessOK
  <2> QED
    BY Zenon, <1>2, <1>6, <2>2 DEF WorkOK, At
<1> QED
  BY ZenonT(30), <1>1, <1>2, <1>6, <1>7, <1>9, <1>10, PipelineAfter

LEMMA PipelineWriteFullRecords ==
    ASSUME PipelineInv, NEW n \in 1..MaxFrames, WriteFullRecords(n)
    PROVE  PipelineInv'
<1>0. PICK st : st = [bs |-> Sequential[n].bs, es |-> Sequential[n].es]
  BY Zenon
<1>1. TablesOK(events, bes.es.Epoch, history) /\ DiskOK(disk) /\ WorkOK(blockProc, bes)
      /\ EngineOK(engine, blockProc, bes, lachesis, events, heads, HighestLamport)
  BY Zenon DEF PipelineInv
<1>2. /\ events' = events /\ bes' = bes /\ HighestLamport' = HighestLamport /\ heads' = heads
      /\ lachesis' = lachesis /\ engine' = engine /\ blockProc' = blockProc /\ disk' = disk
      /\ Sequential[n].frame = 0
  BY Zenon DEF WriteFullRecords
<1>3. At(st, 0)
  <2>1. n \in 0..MaxFrames
    OBVIOUS
  <2>2. st.bs = Sequential[n].bs /\ st.es = Sequential[n].es
    BY <1>0
  <2>3. At(st, Sequential[n].frame)
    BY ZenonT(30), <2>1, <2>2, AtSequential
  <2> QED
    BY Zenon, <1>2, <2>3
<1>4. \A h \in DOMAIN history' : IF h = st.es.Epoch THEN history'[h] = st
                                 ELSE h \in DOMAIN history /\ history'[h] = history[h]
  <2>1. st.es = Sequential[n].es
    BY <1>0
  <2>2. history' = [h \in DOMAIN history \cup {Sequential[n].es.Epoch} |->
                      IF h = Sequential[n].es.Epoch THEN st ELSE history[h]]
    BY Zenon, <1>0 DEF WriteFullRecords
  <2> QED
    BY SMTT(30), <2>1, <2>2
<1>5. TablesOK(events, bes.es.Epoch, history')
  <2>1. TablesOK(events, bes.es.Epoch, history)
    BY Zenon, <1>1
  <2> QED
    BY ZenonT(30), <1>3, <1>4, <2>1 DEF TablesOK
<1> QED
  BY ZenonT(30), <1>1, <1>2, <1>5, PipelineAfter

LEMMA PipelineSwitchEpochTo ==
    ASSUME PipelineInv, NEW ep \in Epochs, SwitchEpochTo(ep)
    PROVE  PipelineInv'
<1>1. TablesOK(events, bes.es.Epoch, history) /\ DiskOK(disk) /\ WorkOK(blockProc, bes)
  BY Zenon DEF PipelineInv
<1>2. /\ blockProc = BlockProcIdle /\ ep \in DOMAIN history /\ ep > bes.es.Epoch
      /\ bes' = history[ep] /\ heads' = {} /\ HighestLamport' = 0
      /\ events' = events /\ history' = history /\ blockProc' = blockProc /\ disk' = disk
  BY ZenonT(30) DEF SwitchEpochTo
<1>3. engine'.pc \in {"idle", "commit"} /\ engine'.pc # "process" /\ engine'.pc # "reprocess"
      /\ engine'.pc \in {"idle", "commit", "process", "reprocess"}
  BY DEF SwitchEpochTo
<1>4. ep \in Nat /\ bes.es.Epoch \in Nat
  <2>1. bes.es \in EpochStates
    BY Zenon, <1>1 DEF WorkOK
  <2> QED
    BY <2>1 DEF EpochStates, Epochs
<1>5. bes'.es.Epoch = ep /\ At(bes', 0)
  BY Zenon, <1>1, <1>2 DEF TablesOK
<1>6. TablesOK(events, ep, history) /\ Of(ep, events) = {}
  BY ZenonT(30), <1>1, <1>2, <1>4, TablesLater
<1>7. WorkOK(blockProc', bes') /\ Target(blockProc', bes') = bes'
  BY ZenonT(30), <1>2, <1>5 DEF WorkOK, Target, At
<1>8. /\ lachesis' \in [epoch : {ep}, events : SUBSET Event, frame : Nat]
      /\ lachesis'.events = {} /\ lachesis'.frame = 0
  BY <1>4 DEF SwitchEpochTo
<1>9. HeadsOf({}, {}) /\ LamportOf(0, {})
  BY DEF HeadsOf, LamportOf
<1>10. Decided(ep, {}) = 0
  BY Zenon, DecidedNumber
<1>11. BetweenOK(bes', lachesis', ep, {}, {}, 0)
  BY ZenonT(30), <1>5, <1>8, <1>9, <1>10 DEF BetweenOK
<1>12. EngineOK(engine', blockProc', bes', lachesis', events', heads', HighestLamport')
  BY ZenonT(30), <1>2, <1>3, <1>5, <1>6, <1>7, <1>8, <1>11 DEF EngineOK
<1> QED
  BY ZenonT(30), <1>1, <1>2, <1>5, <1>6, <1>7, <1>12, PipelineAfter

LEMMA PipelineFlusherCommit ==
    ASSUME PipelineInv, flusherCommit
    PROVE  PipelineInv'
<1>1. TablesOK(events, bes.es.Epoch, history) /\ DiskOK(disk) /\ WorkOK(blockProc, bes)
      /\ EngineOK(engine, blockProc, bes, lachesis, events, heads, HighestLamport)
  BY Zenon DEF PipelineInv
<1>2. /\ events' = events /\ bes' = bes /\ HighestLamport' = HighestLamport /\ heads' = heads
      /\ lachesis' = lachesis /\ history' = history /\ blockProc' = blockProc /\ disk' = disk
  BY Zenon DEF flusherCommit, tables
<1>3. engine.pc \in {"idle", "commit"}
      /\ engine'.pc \in {"idle", "commit"} /\ engine'.pc # "process" /\ engine'.pc # "reprocess"
      /\ engine'.pc \in {"idle", "commit", "process", "reprocess"}
  BY DEF flusherCommit, EngineIdle
<1>4. EngineOK(engine', blockProc', bes', lachesis', events', heads', HighestLamport')
  BY ZenonT(30), <1>1, <1>2, <1>3 DEF EngineOK
<1> QED
  BY ZenonT(30), <1>1, <1>2, <1>4, PipelineAfter

LEMMA PipelineCommit ==
    ASSUME PipelineInv, commit
    PROVE  PipelineInv'
<1> DEFINE ep == bes.es.Epoch
           S == Of(ep, events)
<1>1. TablesOK(events, ep, history) /\ WorkOK(blockProc, bes)
      /\ EngineOK(engine, blockProc, bes, lachesis, events, heads, HighestLamport)
  BY Zenon DEF PipelineInv
<1>2. /\ events' = events /\ bes' = bes /\ HighestLamport' = HighestLamport /\ heads' = heads
      /\ lachesis' = lachesis /\ history' = history /\ blockProc' = blockProc
      /\ blockProc = BlockProcIdle /\ disk' = Durable
  BY Zenon DEF commit, tables
<1>3. engine.pc \in {"idle", "commit"}
      /\ engine'.pc \in {"idle", "commit"} /\ engine'.pc # "process" /\ engine'.pc # "reprocess"
      /\ engine'.pc \in {"idle", "commit", "process", "reprocess"}
  BY DEF commit, EngineIdle
<1>4. EngineOK(engine', blockProc', bes', lachesis', events', heads', HighestLamport')
  BY ZenonT(30), <1>1, <1>2, <1>3 DEF EngineOK
<1>5. /\ disk'.events = events /\ disk'.bes = bes /\ disk'.history = history
      /\ disk'.HighestLamport = HighestLamport
  BY <1>2 DEF Durable
<1>6. At(bes, Decided(ep, S)) /\ LamportOf(HighestLamport, S)
  <2>1. BetweenOK(bes, lachesis, ep, S, heads, HighestLamport)
    BY ZenonT(30), <1>1, <1>2, <1>3 DEF EngineOK, Target
  <2> QED
    BY Zenon, <2>1 DEF BetweenOK
<1>7. DiskOK(disk')
  BY ZenonT(30), <1>1, <1>5, <1>6 DEF DiskOK
<1> QED
  BY ZenonT(30), <1>1, <1>2, <1>4, <1>7, PipelineAfter

LEMMA PipelineCrash ==
    ASSUME PipelineInv, Crash
    PROVE  PipelineInv'
<1> DEFINE ep == disk.bes.es.Epoch
           S == Of(ep, disk.events)
<1>1. DiskOK(disk) /\ TablesOK(disk.events, ep, disk.history)
      /\ At(disk.bes, Decided(ep, S)) /\ LamportOf(disk.HighestLamport, S)
  BY Zenon DEF PipelineInv, DiskOK
<1>2. /\ events' = disk.events /\ bes' = disk.bes /\ history' = disk.history /\ disk' = disk
      /\ HighestLamport' = disk.HighestLamport /\ heads' = {} /\ blockProc' = BlockProcIdle
  BY Zenon DEF Crash
<1>3. engine'.pc \notin {"idle", "commit"} /\ engine'.pc # "process" /\ engine'.pc = "reprocess"
      /\ engine'.pc \in {"idle", "commit", "process", "reprocess"}
  BY SMTT(30) DEF Crash
<1>4. /\ lachesis' \in [epoch : {ep}, events : SUBSET Event, frame : Nat]
      /\ lachesis'.events = {} /\ lachesis'.frame = 0
  BY DEF Crash
<1>5. Decided(ep, {}) = 0
  BY ZenonT(30), DecidedNumber
<1>6. HeadsOf({}, {}) /\ Closed({}) /\ {} \subseteq S
  BY DEF HeadsOf, Closed
<1>7. ReprocessOK(blockProc', disk.bes, lachesis', ep, S, {}, disk.HighestLamport)
  <2> HIDE DEF ep, S
  <2> QED
    BY ZenonT(30), <1>1, <1>2, <1>4, <1>5, <1>6 DEF ReprocessOK
<1>8. EngineOK(engine', blockProc', bes', lachesis', events', heads', HighestLamport')
  BY ZenonT(30), <1>2, <1>3, <1>4, <1>7 DEF EngineOK
<1>9. WorkOK(blockProc', bes')
  BY Zenon, <1>1, <1>2 DEF WorkOK, At
<1> QED
  BY ZenonT(30), <1>1, <1>2, <1>8, <1>9, PipelineAfter

LEMMA PipelineReprocessEpochEvent ==
    ASSUME PipelineInv, NEW e \in Event, ReprocessEpochEvent(e)
    PROVE  PipelineInv'
<1> DEFINE ep == bes.es.Epoch
           S == Of(ep, events)
           P == lachesis.events
<1>1. TablesOK(events, ep, history) /\ DiskOK(disk) /\ WorkOK(blockProc, bes)
  BY Zenon DEF PipelineInv
<1>2. /\ engine.pc = "reprocess" /\ e \in S \ P /\ (\A x \in S \ P : Lamport[e] <= Lamport[x])
      /\ heads' = (heads \ Parents[e]) \cup {e}
      /\ HighestLamport' = (IF Lamport[e] > HighestLamport THEN Lamport[e] ELSE HighestLamport)
      /\ events' = events /\ bes' = bes /\ history' = history /\ engine' = engine
      /\ blockProc' = blockProc /\ disk' = disk
  BY Zenon DEF ReprocessEpochEvent, ToReprocess, Of, EpochIndex
<1>3. /\ lachesis \in [epoch : {ep}, events : SUBSET Event, frame : Nat]
      /\ ReprocessOK(blockProc, bes, lachesis, ep, S, heads, HighestLamport)
  BY Zenon, <1>2 DEF PipelineInv, EngineOK
<1>4. P \subseteq S /\ Closed(P) /\ HeadsOf(heads, P) /\ LamportOf(HighestLamport, S)
  BY Zenon, <1>3 DEF ReprocessOK
<1>5. S \subseteq EpochEvents(ep) /\ S \subseteq Event /\ Closed(S) /\ P \cup {e} \subseteq S
  BY ZenonT(30), <1>1, <1>2, <1>4, ClosedEpoch DEF Of, TablesOK
<1>6. Decided(ep, P \cup {e}) \in Nat
  <2>1. P \cup {e} \in SUBSET EpochEvents(ep)
    BY Zenon, <1>5
  <2> QED
    BY Zenon, <2>1, DecidedNumber
<1>7. /\ lachesis' \in [epoch : {ep}, events : SUBSET Event, frame : Nat]
      /\ lachesis'.events = P \cup {e} /\ lachesis'.frame = Decided(ep, P \cup {e})
  <2>1. lachesis.epoch = ep
    BY <1>3
  <2>2. lachesis' = [lachesis EXCEPT !.events = P \cup {e}, !.frame = Decided(ep, P \cup {e})]
    BY Zenon, <2>1 DEF ReprocessEpochEvent
  <2> HIDE DEF ep
  <2>3. P \cup {e} \in SUBSET Event
    BY Zenon, <1>5
  <2> HIDE DEF P
  <2> QED
    BY <1>3, <1>6, <2>2, <2>3
<1>8. Closed(P \cup {e})
  <2>1. ASSUME NEW p \in Parents[e] PROVE p \in P
    <3>1. p \in S
      BY Zenon, <1>2, <1>5 DEF Closed
    <3>2. Lamport[p] < Lamport[e] /\ Lamport[p] \in Nat /\ Lamport[e] \in Nat
      <4>1. p \in Event /\ Lamport[p] < Lamport[e]
        BY ZenonT(30), EventsAssumption
      <4> QED
        BY Zenon, <4>1, NoneOwnParent
    <3>3. ~(Lamport[e] <= Lamport[p])
      BY <3>2
    <3> QED
      BY ZenonT(30), <1>2, <3>1, <3>3
  <2> QED
    BY ZenonT(30), <1>4, <2>1 DEF Closed
<1>9. HeadsOf(heads', P \cup {e})
  <2>1. HeadsOf((heads \ Parents[e]) \cup {e}, P \cup {e})
    BY ZenonT(30), <1>2, <1>4, HeadsMore
  <2> QED
    BY ZenonT(30), <1>2, <2>1
<1>10. HighestLamport' = HighestLamport
  <2>1. Lamport[e] <= HighestLamport /\ HighestLamport \in Nat
    BY ZenonT(30), <1>2, <1>4 DEF LamportOf
  <2>2. ~(Lamport[e] > HighestLamport)
    BY <2>1, NoneOwnParent
  <2> QED
    BY ZenonT(30), <1>2, <2>2
<1>11. ReprocessOK(blockProc, bes, lachesis', ep, S, heads', HighestLamport)
  <2>1. blockProc = BlockProcIdle /\ At(bes, Decided(ep, S))
    BY Zenon, <1>3 DEF ReprocessOK
  <2> HIDE DEF ep, S, P
  <2> QED
    BY ZenonT(30), <1>4, <1>5, <1>7, <1>8, <1>9, <2>1 DEF ReprocessOK
<1>12. EngineOK(engine', blockProc', bes', lachesis', events', heads', HighestLamport')
  <2>1. engine.pc \notin {"idle", "commit"} /\ engine.pc # "process"
        /\ engine.pc \in {"idle", "commit", "process", "reprocess"}
    BY <1>2
  <2> QED
    BY ZenonT(30), <1>2, <1>7, <1>10, <1>11, <2>1 DEF EngineOK
<1> QED
  BY ZenonT(30), <1>1, <1>2, <1>12, PipelineAfter

LEMMA PipelineEndReprocess ==
    ASSUME PipelineInv, endReprocess
    PROVE  PipelineInv'
<1> DEFINE ep == bes.es.Epoch
           S == Of(ep, events)
<1>1. TablesOK(events, ep, history) /\ DiskOK(disk) /\ WorkOK(blockProc, bes)
  BY Zenon DEF PipelineInv
<1>2. /\ events' = events /\ bes' = bes /\ HighestLamport' = HighestLamport /\ heads' = heads
      /\ lachesis' = lachesis /\ history' = history /\ blockProc' = blockProc /\ disk' = disk
      /\ engine.pc = "reprocess" /\ S \ lachesis.events = {}
  BY Zenon DEF endReprocess, tables, ToReprocess, Of
<1>3. engine'.pc \in {"idle", "commit"} /\ engine'.pc # "process" /\ engine'.pc # "reprocess"
      /\ engine'.pc \in {"idle", "commit", "process", "reprocess"}
  BY DEF endReprocess, EngineIdle
<1>4. /\ lachesis \in [epoch : {ep}, events : SUBSET Event, frame : Nat]
      /\ ReprocessOK(blockProc, bes, lachesis, ep, S, heads, HighestLamport)
  BY Zenon, <1>2 DEF PipelineInv, EngineOK
<1>5. lachesis.events = S
  <2>1. lachesis.events \subseteq S
    BY Zenon, <1>4 DEF ReprocessOK
  <2> QED
    BY Zenon, <1>2, <2>1
<1>6. BetweenOK(bes, lachesis, ep, S, heads, HighestLamport) /\ Target(blockProc, bes) = bes
  <2> HIDE DEF ep, S
  <2> QED
    BY Zenon, <1>4, <1>5 DEF ReprocessOK, BetweenOK, Target
<1>7. EngineOK(engine', blockProc', bes', lachesis', events', heads', HighestLamport')
  BY ZenonT(30), <1>2, <1>3, <1>4, <1>6 DEF EngineOK
<1> QED
  BY ZenonT(30), <1>1, <1>2, <1>7, PipelineAfter

LEMMA PipelineNext == PipelineInv /\ [Next]_vars => PipelineInv'
<1> SUFFICES ASSUME PipelineInv, [Next]_vars PROVE PipelineInv'
  OBVIOUS
<1>1. ASSUME NEW e \in Event, processEvent(e) PROVE PipelineInv'
  BY Zenon, <1>1, PipelineProcessEvent
<1>2. CASE applyAtropos
  BY Zenon, <1>2, PipelineApplyAtropos
<1>3. CASE endProcessEvent
  BY ZenonT(30), <1>3, PipelineEndProcessEvent
<1>4. CASE blockFn
  BY Zenon, <1>4, PipelineBlockFn
<1>5. ASSUME NEW n \in 1..MaxFrames, WriteFullRecords(n) PROVE PipelineInv'
  BY Zenon, <1>5, PipelineWriteFullRecords
<1>6. ASSUME NEW ep \in Epochs, SwitchEpochTo(ep) PROVE PipelineInv'
  BY ZenonT(30), <1>6, PipelineSwitchEpochTo
<1>7. CASE flusherCommit
  BY Zenon, <1>7, PipelineFlusherCommit
<1>8. CASE commit
  BY Zenon, <1>8, PipelineCommit
<1>9. CASE Crash
  BY Zenon, <1>9, PipelineCrash
<1>10. ASSUME NEW e \in Event, ReprocessEpochEvent(e) PROVE PipelineInv'
  BY Zenon, <1>10, PipelineReprocessEpochEvent
<1>11. CASE endReprocess
  BY Zenon, <1>11, PipelineEndReprocess
<1>12. CASE UNCHANGED vars
  BY ZenonT(30), <1>12, PipelineAfter DEF PipelineInv, vars, tables
<1> QED
  BY ZenonT(30), <1>1, <1>2, <1>3, <1>4, <1>5, <1>6, <1>7, <1>8, <1>9, <1>10, <1>11, <1>12 DEF Next

LEMMA PipelineInvariant == Spec => []PipelineInv
  BY PipelineInit, PipelineNext, PTL DEF Spec

-----------------------------------------------------------------------------
(* What follows from it. *)

\* Between two events, with the worker idle, the block and epoch state is what the
\* decided frames give when they are run one by one, and so it is on disk at every
\* moment: applyAtropos, blockFn, commit, Crash, ReprocessEpochEvent and
\* SwitchEpochTo neither lose a frame nor run one twice.
THEOREM ReplayExact == Spec => []StateIsReplay
<1>1. PipelineInv => StateIsReplay
  <2> SUFFICES ASSUME PipelineInv PROVE StateIsReplay
    OBVIOUS
  <2> DEFINE ep == bes.es.Epoch
             S == Of(ep, events)
  <2>1. UpToDate(disk.bes, disk.events)
    BY Zenon DEF PipelineInv, DiskOK, At, UpToDate, Of
  <2>2. ASSUME Quiet PROVE /\ UpToDate(bes, events)
                           /\ lachesis = [epoch |-> ep, events |-> S,
                                          frame |-> Decided(ep, lachesis.events)]
    <3>1. Target(blockProc, bes) = bes
      BY Zenon, <2>2 DEF Quiet, Target
    <3>2. /\ lachesis \in [epoch : {ep}, events : SUBSET Event, frame : Nat]
          /\ BetweenOK(bes, lachesis, ep, S, heads, HighestLamport)
      BY Zenon, <2>2, <3>1 DEF Quiet, PipelineInv, EngineOK
    <3>3. At(bes, lachesis.frame) /\ lachesis.events = S /\ lachesis.frame = Decided(ep, S)
      BY Zenon, <3>2 DEF BetweenOK
    <3>4. UpToDate(bes, events)
      BY ZenonT(30), <3>3 DEF At, UpToDate, Of
    <3> HIDE DEF ep, S
    <3>5. lachesis = [epoch |-> ep, events |-> S, frame |-> Decided(ep, lachesis.events)]
      BY SMTT(30), <3>2, <3>3
    <3> QED
      BY Zenon, <3>4, <3>5
  <2> QED
    BY ZenonT(30), <2>1, <2>2 DEF StateIsReplay, Of
<1> QED
  BY <1>1, PipelineInvariant, PTL

\* What the emitter builds on is exact: the heads are the events of the epoch
\* without descendants and the highest Lamport time is theirs, although
\* processEventEpochIndex, a restart, a new epoch and a jump each set them their
\* own way.
THEOREM EpochIndexRight == Spec => []EpochIndexExact
<1>1. PipelineInv => EpochIndexExact
  <2> SUFFICES ASSUME PipelineInv, Quiet
               PROVE  LET S == events \cap EpochEvents(bes.es.Epoch)
                      IN  /\ heads = {x \in S : \A y \in S : x \notin Parents[y]}
                          /\ \A x \in S : Lamport[x] <= HighestLamport
                          /\ HighestLamport = 0 \/ \E x \in S : Lamport[x] = HighestLamport
    BY Zenon DEF EpochIndexExact
  <2> DEFINE ep == bes.es.Epoch
             S == Of(ep, events)
  <2>1. HeadsOf(heads, S) /\ LamportOf(HighestLamport, S)
    BY Zenon DEF Quiet, PipelineInv, EngineOK, BetweenOK
  <2> QED
    BY Zenon, <2>1 DEF HeadsOf, LamportOf, Of
<1> QED
  BY <1>1, PipelineInvariant, PTL

\* Every cheater that a frame of an epoch saw is out of the validators group of the
\* next epoch, even if the frame made no block and whatever crashes: mergeCheaters
\* and PopInternalTxs lose none between the frame and the sealing.
THEOREM CheatersOut == Spec => []CheatersPunished
<1>1. PipelineInv => CheatersPunished
  <2> SUFFICES ASSUME PipelineInv, NEW ep \in DOMAIN history
               PROVE  history[ep].es.Validators \cap SeenCheaters(history[ep], ep - 1) = {}
    BY Zenon DEF CheatersPunished
  <2> DEFINE st == history[ep]
  <2>1. st.es.Epoch = ep /\ At(st, 0)
    BY Zenon DEF PipelineInv, TablesOK
  <2>2. PICK n \in 0..MaxFrames : Sequential[n] = [bs |-> st.bs, es |-> st.es, frame |-> 0]
    BY ZenonT(30), <2>1, AtPosition
  <2>3. Sequential[n].bs = st.bs /\ Sequential[n].es = st.es
    BY <2>2
  <2>4. st.es.Validators \cap SeenCheaters(Sequential[n], ep - 1) = {}
    BY ZenonT(30), <2>1, <2>3, SequentialCheaters DEF CheatersOK
  <2> HIDE DEF st
  <2>5. SeenCheaters(Sequential[n], ep - 1) = SeenCheaters(st, ep - 1)
    BY Zenon, <2>3 DEF SeenCheaters
  <2> QED
    BY ZenonT(30), <2>4, <2>5 DEF st
<1> QED
  BY <1>1, PipelineInvariant, PTL
=============================================================================
