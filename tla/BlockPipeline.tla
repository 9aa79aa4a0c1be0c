--------------------------- MODULE BlockPipeline ---------------------------
(***************************************************************************)
(* From connected events to executed blocks, in one node: processEvent     *)
(* saves an event and hands it to the consensus engine, which calls back   *)
(* for every frame it decides; the callbacks turn the frame into a block,  *)
(* or skip it, seal epochs, and leave the execution of the block to        *)
(* another thread; commits make everything durable; after a restart the    *)
(* consensus engine is fed again with the events of the epoch.             *)
(*                                                                         *)
(* Threads: whoever holds engineMu (processEvent, SwitchEpochTo, the       *)
(* periodic flusher, and ReprocessEpochEvents at start), whose progress is *)
(* the variable engine; and the worker of blockProcTasks that runs         *)
(* blockFn, whose pending closure is the variable blockProc.               *)
(*                                                                         *)
(* The consensus engine (go-vassalo) is external: what it decides is a     *)
(* function of the set of events it was given in the epoch.                *)
(***************************************************************************)
EXTENDS Integers, Sequences, FiniteSets

CONSTANTS
    Event,       \* events that may arrive
    EpochOf,     \* EpochOf[e]
    Parents,     \* Parents[e]: events of the same epoch
    Lamport,     \* Lamport[e]
    Validator,   \* validators of the genesis
    Frames,      \* Frames[ep]: what the consensus decides in epoch ep, in order
    LastDecided, \* LastDecided[ep][S]: frames decided once S is processed
    MaxEpochGas, MaxEpochDuration, MaxEmptyBlockSkipPeriod,  \* network rules
    maxAdvanceEpochs,
    MaxFrames,   \* bound: frames of all the epochs together
    MaxCrashes,  \* bound: crashes
    None

Epochs == 1..Len(Frames)
EpochEvents(ep) == {e \in Event : EpochOf[e] = ep}
Decided(ep, S) == IF ep \in Epochs THEN LastDecided[ep][S] ELSE 0
Atropos == UNION {{Frames[ep][f].atropos : f \in DOMAIN Frames[ep]} : ep \in Epochs}

\* A frame stands for its Atropos and the events that the Atropos confirms:
\* applied says that the Atropos itself is among them, txs that one of them
\* carries transactions, cheaters is the list the Atropos observes, mps the one
\* of the misbehaviour proofs they carry, gas the gas power they use, and advance
\* what their transactions ask the driver contract to advance epochs by.
ASSUME FramesAssumption ==
    /\ Len(Frames) \in Nat
    /\ \A ep \in Epochs : Len(Frames[ep]) \in Nat /\ DOMAIN Frames[ep] = 1..Len(Frames[ep])
    /\ \A ep \in Epochs : \A f \in DOMAIN Frames[ep] :
        LET fr == Frames[ep][f]
        IN  /\ fr.applied \in BOOLEAN /\ fr.txs \in BOOLEAN
            /\ fr.time \in Nat /\ fr.gas \in Nat /\ fr.advance \in Nat
            /\ fr.cheaters \in Seq(Validator) /\ fr.mps \in Seq(Validator)

\* An Atropos is confirmed once.
ASSUME AtroposAssumption ==
    \A ep, eq \in Epochs : \A f \in DOMAIN Frames[ep], g \in DOMAIN Frames[eq] :
        (/\ Frames[ep][f].applied /\ Frames[eq][g].applied
         /\ Frames[ep][f].atropos = Frames[eq][g].atropos) => ep = eq /\ f = g

\* Parents come from the same epoch, with a lower Lamport time; more events
\* decide no fewer frames.
ASSUME EventsAssumption ==
    /\ \A e \in Event :
           /\ EpochOf[e] \in Epochs /\ Lamport[e] \in Nat \ {0}
           /\ \A p \in Parents[e] : /\ p \in Event /\ EpochOf[p] = EpochOf[e]
                                    /\ Lamport[p] < Lamport[e]
    /\ \A ep \in Epochs :
           /\ LastDecided[ep] \in [SUBSET EpochEvents(ep) -> 0..Len(Frames[ep])]
           /\ \A S, T \in SUBSET EpochEvents(ep) :
                  S \subseteq T => LastDecided[ep][S] <= LastDecided[ep][T]
           /\ LastDecided[ep][{}] = 0

ASSUME RulesAssumption ==
    /\ MaxEpochGas \in Nat /\ MaxEpochDuration \in Nat
    /\ MaxEmptyBlockSkipPeriod \in Nat /\ maxAdvanceEpochs \in Nat
    /\ MaxFrames \in Nat /\ MaxCrashes \in Nat

VARIABLES
    events,         \* stored events
    bes,            \* BlockEpochState, cached: block state bs, epoch state es
    history,        \* BlockEpochStateHistory: state at the start of an epoch
    Blocks,         \* stored blocks: Atropos and time
    BlockIndex,     \* block of an Atropos
    HighestLamport,
    heads,          \* events of the epoch without descendants
    lachesis,       \* consensus engine: epoch, events given, last decided frame
    engine, blockProc,
    disk, crashes

tables == <<events, bes, history, Blocks, BlockIndex, HighestLamport>>
vars == <<tables, heads, lachesis, engine, blockProc, disk, crashes>>

EngineIdle == [pc |-> "idle"]
BlockProcIdle == [pc |-> "idle"]

-----------------------------------------------------------------------------
(* The callbacks, as functions of the block state bs, the epoch state es and *)
(* the frame fr.  The state root stands for the blocks executed so far, the  *)
(* validator states for the frames whose events they account for.            *)

Elements(s) == {s[i] : i \in DOMAIN s}

\* Mutant: only the newest list counts.
mergeCheatersLast(a, b) == b

mergeCheaters(a, b) ==
    LET merged[i \in 0..Len(b)] ==
            IF i = 0 THEN a
            ELSE IF b[i] \in Elements(a) THEN merged[i - 1] ELSE Append(merged[i - 1], b[i])
    IN  merged[Len(b)]

BeginBlock(bs, fr) == [bs EXCEPT !.EpochCheaters = mergeCheaters(@, fr.cheaters)]

blockTime(bs, fr) ==
    IF fr.applied /\ fr.time > bs.LastBlock.time THEN fr.time
    ELSE bs.LastBlock.time + 1

\* Mutant: an Atropos that was confirmed before makes a block.
skipBlockEmpty(bs, fr) ==
    /\ ~fr.txs /\ fr.cheaters = <<>>
    /\ blockTime(bs, fr) < bs.LastBlock.time + MaxEmptyBlockSkipPeriod

skipBlock(bs, fr) ==
    \/ ~fr.applied
    \/ /\ ~fr.txs /\ fr.cheaters = <<>>
       /\ blockTime(bs, fr) < bs.LastBlock.time + MaxEmptyBlockSkipPeriod

\* The events processor, then the cheaters of the misbehaviour proofs.
FinalizeEvents(bs, fr, id) ==
    [bs EXCEPT !.ValidatorStates = Append(@, id),
               !.EpochGas = @ + fr.gas,
               !.EpochCheaters = mergeCheaters(@, fr.mps)]

EpochSealing(bs, es, time) ==
    \/ bs.EpochGas >= MaxEpochGas
    \/ time - es.EpochStart >= MaxEpochDuration
    \/ bs.AdvanceEpochs > 0
    \/ bs.EpochCheaters # <<>>

\* Cheaters that the pre-internal transactions deactivate.
PopInternalTxs(bs) ==
    SubSeq(bs.EpochCheaters, bs.CheatersWritten + 1, Len(bs.EpochCheaters))

\* The driver contract takes a deactivated validator out of the next group,
\* which OnNewLog reads from its logs.
ExecutePreInternal(bs) ==
    [bs EXCEPT !.NextValidators = @ \ Elements(PopInternalTxs(bs))]

\* Mutant: one epoch less to advance by, whether or not there is one.
SealBsAdvance(bs) ==
    [bs EXCEPT !.EpochGas = 0, !.EpochCheaters = <<>>, !.CheatersWritten = 0,
               !.AdvanceEpochs = @ - 1]

SealBs(bs) ==
    [bs EXCEPT !.EpochGas = 0, !.EpochCheaters = <<>>, !.CheatersWritten = 0,
               !.AdvanceEpochs = IF @ > 0 THEN @ - 1 ELSE @]

SealEs(bs, es, time) ==
    [Epoch |-> es.Epoch + 1, Validators |-> bs.NextValidators, EpochStart |-> time]

\* What EndBlock leaves: the states it saves at once if the frame is skipped or
\* seals the epoch, and that blockFn goes on from otherwise.
EndBlock(bs, es, fr, id) ==
    LET time == blockTime(bs, fr)
        skip == skipBlock(bs, fr)
        fin  == FinalizeEvents(bs, fr, id)
        seal == ~skip /\ EpochSealing(fin, es, time)
        exec == IF skip THEN fin ELSE ExecutePreInternal(fin)
    IN  [skip |-> skip, sealing |-> seal, fr |-> fr,
         ctx |-> [idx |-> bs.LastBlock.idx + 1, time |-> time],
         bs |-> IF seal THEN SealBs(exec) ELSE exec,
         es |-> IF seal THEN SealEs(exec, es, time) ELSE es]

BlockOf(c) == [atropos |-> c.fr.atropos, time |-> c.ctx.time]

\* The block state once blockFn has executed the rest of the block.
FinalBs(c) ==
    [c.bs EXCEPT !.FinalizedStateRoot = Append(@, BlockOf(c)),
                 !.LastBlock = c.ctx,
                 !.CheatersWritten = Len(c.bs.EpochCheaters),
                 !.AdvanceEpochs = IF @ + c.fr.advance > maxAdvanceEpochs
                                   THEN maxAdvanceEpochs ELSE @ + c.fr.advance]

Genesis ==
    [bs |-> [LastBlock |-> [idx |-> 0, time |-> 0], FinalizedStateRoot |-> <<>>,
             ValidatorStates |-> <<>>, EpochGas |-> 0, EpochCheaters |-> <<>>,
             CheatersWritten |-> 0, NextValidators |-> Validator, AdvanceEpochs |-> 0],
     es |-> [Epoch |-> 1, Validators |-> Validator, EpochStart |-> 0]]

\* One frame after the other, with nothing in between: st is a block epoch state
\* and the number of frames of the epoch behind it.
RunFrame(st) ==
    IF st.es.Epoch \notin Epochs \/ st.frame >= Len(Frames[st.es.Epoch])
    THEN st
    ELSE LET fr == Frames[st.es.Epoch][st.frame + 1]
             c  == EndBlock(BeginBlock(st.bs, fr), st.es, fr, <<st.es.Epoch, st.frame + 1>>)
         IN  [bs |-> IF c.skip THEN c.bs ELSE FinalBs(c), es |-> c.es,
              frame |-> IF c.sealing THEN 0 ELSE st.frame + 1]

Sequential[n \in 0..MaxFrames] ==
    IF n = 0 THEN [bs |-> Genesis.bs, es |-> Genesis.es, frame |-> 0]
    ELSE RunFrame(Sequential[n - 1])

\* MaxFrames is large enough for all the frames.
ASSUME MaxFramesAssumption == RunFrame(Sequential[MaxFrames]) = Sequential[MaxFrames]

Durable ==
    [events |-> events, bes |-> bes, history |-> history, Blocks |-> Blocks,
     BlockIndex |-> BlockIndex, HighestLamport |-> HighestLamport]

Init ==
    /\ events = {}
    /\ bes = Genesis
    /\ history = [ep \in {1} |-> Genesis]
    /\ Blocks = <<>>
    /\ BlockIndex = [a \in Atropos |-> 0]
    /\ HighestLamport = 0
    /\ heads = {}
    /\ lachesis = [epoch |-> 1, events |-> {}, frame |-> 0]
    /\ engine = EngineIdle /\ blockProc = BlockProcIdle
    /\ disk = Durable
    /\ crashes = 0

-----------------------------------------------------------------------------
(* The thread that holds engineMu. *)

\* Also under the checks that saw the event before: it is new, of the current
\* epoch, and its parents are known.  A refused event changes nothing (one that
\* fails after it was saved is deleted again).
processEvent(e) ==
    /\ engine = EngineIdle
    /\ e \notin events
    /\ EpochOf[e] = bes.es.Epoch
    /\ Parents[e] \subseteq events
    /\ events' = events \cup {e}
    /\ lachesis' = [lachesis EXCEPT !.events = @ \cup {e}]
    /\ engine' = [pc |-> "process", e |-> e, oldEpoch |-> bes.es.Epoch]
    /\ UNCHANGED <<bes, history, Blocks, BlockIndex, HighestLamport, heads,
                   blockProc, disk, crashes>>

\* The consensus engine has a frame to decide in the epoch it started from.
FrameDecided ==
    /\ lachesis.epoch = engine.oldEpoch
    /\ lachesis.frame < Decided(lachesis.epoch, lachesis.events)

\* The writes of blockFn.
WriteBlock(c) ==
    /\ history' = IF c.sealing
                  THEN [ep \in DOMAIN history \cup {c.es.Epoch} |->
                          IF ep = c.es.Epoch THEN [bs |-> FinalBs(c), es |-> c.es]
                          ELSE history[ep]]
                  ELSE history
    /\ Blocks' = [i \in DOMAIN Blocks \cup {c.ctx.idx} |->
                     IF i = c.ctx.idx THEN BlockOf(c) ELSE Blocks[i]]
    /\ BlockIndex' = [BlockIndex EXCEPT ![c.fr.atropos] = c.ctx.idx]
    /\ bes' = [bs |-> FinalBs(c), es |-> c.es]

\* The callbacks of one frame: BeginBlock waits for blockFn of the block before;
\* EndBlock saves the state of a skipped frame or a sealed epoch, and leaves
\* blockFn to the worker if there are events with transactions.
applyAtropos ==
    /\ engine.pc = "process" /\ FrameDecided
    /\ blockProc = BlockProcIdle
    /\ LET id == <<lachesis.epoch, lachesis.frame + 1>>
           fr == Frames[id[1]][id[2]]
           c  == EndBlock(BeginBlock(bes.bs, fr), bes.es, fr, id)
       IN  /\ lachesis' = IF c.sealing
                          THEN [epoch |-> c.es.Epoch, events |-> {}, frame |-> 0]
                          ELSE [lachesis EXCEPT !.frame = @ + 1]
           /\ \/ /\ c.skip
                 /\ bes' = [bs |-> c.bs, es |-> c.es]
                 /\ UNCHANGED <<history, Blocks, BlockIndex, blockProc>>
              \/ /\ ~c.skip /\ fr.txs
                 /\ bes' = IF c.sealing THEN [bs |-> c.bs, es |-> c.es] ELSE bes
                 /\ blockProc' = [pc |-> "run", c |-> c]
                 /\ UNCHANGED <<history, Blocks, BlockIndex>>
              \/ /\ ~c.skip /\ ~fr.txs
                 /\ WriteBlock(c)
                 /\ UNCHANGED blockProc
    /\ UNCHANGED <<events, HighestLamport, heads, engine, disk, crashes>>

\* Mutant: parents stay heads.
EpochIndexGrow(e) ==
    /\ heads' = heads \cup {e}
    /\ HighestLamport' = IF Lamport[e] > HighestLamport THEN Lamport[e] ELSE HighestLamport

\* processEventEpochIndex within an epoch.
EpochIndex(e) ==
    /\ heads' = (heads \ Parents[e]) \cup {e}
    /\ HighestLamport' = IF Lamport[e] > HighestLamport THEN Lamport[e] ELSE HighestLamport

\* The rest of processEvent, the consensus engine being done with the event.
\* switchEpochTo starts empty epoch tables, and a sealed epoch is committed.
endProcessEvent ==
    /\ engine.pc = "process" /\ ~FrameDecided
    /\ IF bes.es.Epoch # engine.oldEpoch
       THEN /\ heads' = {} /\ HighestLamport' = 0
            /\ engine' = [pc |-> "commit"]
       ELSE /\ EpochIndex(engine.e)
            /\ engine' \in {EngineIdle, [pc |-> "commit"]}
    /\ UNCHANGED <<events, bes, history, Blocks, BlockIndex, lachesis, blockProc,
                   disk, crashes>>

\* Mutant: wg.Done is left out.
blockFnNoDone ==
    /\ blockProc.pc = "run"
    /\ WriteBlock(blockProc.c)
    /\ UNCHANGED <<events, HighestLamport, heads, lachesis, engine, blockProc, disk, crashes>>

\* blockFn in the worker, up to wg.Done.
blockFn ==
    /\ blockProc.pc = "run"
    /\ WriteBlock(blockProc.c)
    /\ blockProc' = BlockProcIdle
    /\ UNCHANGED <<events, HighestLamport, heads, lachesis, engine, disk, crashes>>

\* Records of peers: the state at the start of a later epoch, and the blocks
\* before it that are missing.  They are decided by votes (LlrBlocks), so they
\* are what the frames in order give; the thread that stores them does not hold
\* engineMu.
WriteFullRecords(n) ==
    LET st == Sequential[n]
        root == st.bs.FinalizedStateRoot
        missing == DOMAIN root \ DOMAIN Blocks
    IN  /\ st.frame = 0 /\ st.es.Epoch \notin DOMAIN history
        /\ history' = [ep \in DOMAIN history \cup {st.es.Epoch} |->
                          IF ep = st.es.Epoch THEN [bs |-> st.bs, es |-> st.es]
                          ELSE history[ep]]
        /\ Blocks' = [i \in DOMAIN Blocks \cup missing |->
                         IF i \in missing THEN root[i] ELSE Blocks[i]]
        /\ BlockIndex' = [a \in Atropos |->
                IF \E i \in missing : root[i].atropos = a
                THEN CHOOSE i \in missing : root[i].atropos = a ELSE BlockIndex[a]]
        /\ UNCHANGED <<events, bes, HighestLamport, heads, lachesis, engine,
                       blockProc, disk, crashes>>

\* End of a snapsync: the node jumps to the start of a later epoch once it has
\* the state of the epoch and the blocks before it.
SwitchEpochTo(ep) ==
    /\ engine = EngineIdle
    /\ blockProc = BlockProcIdle
    /\ ep \in DOMAIN history /\ ep > bes.es.Epoch
    /\ history[ep].bs.LastBlock.idx <= Len(Blocks)
    /\ bes' = history[ep]
    /\ lachesis' = [epoch |-> ep, events |-> {}, frame |-> 0]
    /\ heads' = {} /\ HighestLamport' = 0
    /\ engine' = [pc |-> "commit"]
    /\ UNCHANGED <<events, history, Blocks, BlockIndex, blockProc, disk, crashes>>

-----------------------------------------------------------------------------
(* Durability and restart. *)

\* The periodic flusher takes engineMu and commits.
flusherCommit ==
    /\ engine = EngineIdle
    /\ engine' = [pc |-> "commit"]
    /\ UNCHANGED <<tables, heads, lachesis, blockProc, disk, crashes>>

\* Mutant: the databases are flushed while blockFn may be running.
commitNoWait ==
    /\ engine.pc = "commit"
    /\ disk' = Durable
    /\ engine' = EngineIdle
    /\ UNCHANGED <<tables, heads, lachesis, blockProc, crashes>>

\* Waits for blockFn, writes the caches and flushes the databases.
commit ==
    /\ engine.pc = "commit"
    /\ blockProc = BlockProcIdle
    /\ disk' = Durable
    /\ engine' = EngineIdle
    /\ UNCHANGED <<tables, heads, lachesis, blockProc, crashes>>

\* Mutant: the epoch starts from its first state when its events are run again.
CrashEpochStart ==
    /\ crashes < MaxCrashes
    /\ crashes' = crashes + 1
    /\ events' = disk.events
    /\ bes' = disk.history[disk.bes.es.Epoch]
    /\ history' = disk.history
    /\ Blocks' = disk.Blocks
    /\ BlockIndex' = disk.BlockIndex
    /\ HighestLamport' = disk.HighestLamport
    /\ heads' = {}
    /\ lachesis' = [epoch |-> disk.bes.es.Epoch, events |-> {}, frame |-> 0]
    /\ engine' = [pc |-> "reprocess"]
    /\ blockProc' = BlockProcIdle
    /\ UNCHANGED disk

\* The process dies, or is stopped after a last commit, and starts again: the
\* databases of the epoch and of the consensus engine do not survive.
Crash ==
    /\ crashes < MaxCrashes
    /\ crashes' = crashes + 1
    /\ events' = disk.events
    /\ bes' = disk.bes
    /\ history' = disk.history
    /\ Blocks' = disk.Blocks
    /\ BlockIndex' = disk.BlockIndex
    /\ HighestLamport' = disk.HighestLamport
    /\ heads' = {}
    /\ lachesis' = [epoch |-> disk.bes.es.Epoch, events |-> {}, frame |-> 0]
    /\ engine' = [pc |-> "reprocess"]
    /\ blockProc' = BlockProcIdle
    /\ UNCHANGED disk

\* Events of the epoch that ReprocessEpochEvents has not reached.
ToReprocess == (events \cap EpochEvents(bes.es.Epoch)) \ lachesis.events

\* One event of ReprocessEpochEvents.  Events come ordered by Lamport time; the
\* frames that are decided again are not processed (bootstrapping).
ReprocessEpochEvent(e) ==
    /\ engine.pc = "reprocess"
    /\ e \in ToReprocess
    /\ \A x \in ToReprocess : Lamport[e] <= Lamport[x]
    /\ LET S == lachesis.events \cup {e}
       IN  lachesis' = [lachesis EXCEPT !.events = S,
                                        !.frame = Decided(lachesis.epoch, S)]
    /\ EpochIndex(e)
    /\ UNCHANGED <<events, bes, history, Blocks, BlockIndex, engine, blockProc,
                   disk, crashes>>

endReprocess ==
    /\ engine.pc = "reprocess"
    /\ ToReprocess = {}
    /\ engine' = EngineIdle
    /\ UNCHANGED <<tables, heads, lachesis, blockProc, disk, crashes>>

Next ==
    \/ \E e \in Event : processEvent(e)
    \/ applyAtropos
    \/ endProcessEvent
    \/ blockFn
    \/ \E n \in 1..MaxFrames : WriteFullRecords(n)
    \/ \E ep \in Epochs : SwitchEpochTo(ep)
    \/ flusherCommit
    \/ commit
    \/ Crash
    \/ \E e \in Event : ReprocessEpochEvent(e)
    \/ endReprocess

Spec == Init /\ [][Next]_vars

\* The threads are scheduled; an event that is missing is asked for until some
\* peer sends it; the flusher ticks, and commits when enough time has passed.
Fairness ==
    /\ \A e \in Event : SF_vars(processEvent(e))
    /\ WF_vars(applyAtropos)
    /\ WF_vars(endProcessEvent)
    /\ WF_vars(blockFn)
    /\ SF_vars(flusherCommit)
    /\ WF_vars(commit)
    /\ \A e \in Event : WF_vars(ReprocessEpochEvent(e))
    /\ WF_vars(endReprocess)

FairSpec == Spec /\ Fairness

-----------------------------------------------------------------------------
(* Properties. *)

BlockStates ==
    [LastBlock : [idx : Nat, time : Nat],
     FinalizedStateRoot : Seq([atropos : Atropos, time : Nat]),
     ValidatorStates : Seq(Epochs \X Nat),
     EpochGas : Nat, EpochCheaters : Seq(Validator), CheatersWritten : Nat,
     NextValidators : SUBSET Validator, AdvanceEpochs : Nat]
EpochStates == [Epoch : Nat, Validators : SUBSET Validator, EpochStart : Nat]

\* Every table, cache and closure of the pipeline holds values of its type.
TypeOK ==
    /\ events \in SUBSET Event
    /\ bes \in [bs : BlockStates, es : EpochStates]
    /\ \A ep \in DOMAIN history : history[ep] \in [bs : BlockStates, es : EpochStates]
    /\ Blocks \in Seq([atropos : Atropos, time : Nat])
    /\ BlockIndex \in [Atropos -> Nat]
    /\ HighestLamport \in Nat
    /\ heads \in SUBSET Event
    /\ lachesis \in [epoch : Nat, events : SUBSET Event, frame : Nat]
    /\ engine \in {EngineIdle, [pc |-> "commit"], [pc |-> "reprocess"]}
                 \cup [pc : {"process"}, e : Event, oldEpoch : Epochs]
    /\ blockProc = BlockProcIdle \/ blockProc.c.bs \in BlockStates
    /\ crashes \in 0..MaxCrashes

\* The state st and the frame number are those of the frames executed one by one.
InSequence(st, frame) ==
    LET n == Len(st.bs.ValidatorStates)
    IN  n <= MaxFrames /\ Sequential[n] = [bs |-> st.bs, es |-> st.es, frame |-> frame]

\* Exactly the frames decided by the events of ep in S are behind st.
UpToDate(st, S) ==
    InSequence(st, Decided(st.es.Epoch, S \cap EpochEvents(st.es.Epoch)))

Quiet == engine.pc \in {"idle", "commit"} /\ blockProc = BlockProcIdle

\* Between two events, with the worker idle, the block and epoch state is what
\* the frames decided by the stored events give when they are run in order, each
\* once, without concurrency and crashes; and the consensus engine stands at the
\* same frame, after a restart as well.  On disk this is so at every moment, so
\* that no frame is lost or run again when a node dies: ReprocessEpochEvents,
\* which ignores the frames decided again, may do so.
StateIsReplay ==
    /\ Quiet => /\ UpToDate(bes, events)
                /\ lachesis = [epoch |-> bes.es.Epoch,
                                events |-> events \cap EpochEvents(bes.es.Epoch),
                                frame |-> Decided(bes.es.Epoch, lachesis.events)]
    /\ UpToDate(disk.bes, disk.events)

\* A chain as the block table and the index by Atropos show it: the blocks that
\* the state root stands for come first, each block is found by its Atropos, and
\* later blocks have later times.
ChainShown(st, blocks, index) ==
    LET root == st.bs.FinalizedStateRoot
    IN  /\ st.bs.LastBlock.idx = Len(root)
        /\ Len(root) <= Len(blocks) /\ SubSeq(blocks, 1, Len(root)) = root
        /\ \A i \in DOMAIN blocks : index[blocks[i].atropos] = i
        /\ \A i, j \in DOMAIN blocks : i < j => blocks[i].time < blocks[j].time

\* Block IDs are unique although an Atropos may be elected again: EndBlock skips
\* it.  The block table, its index by Atropos and the block state agree whenever
\* blockFn is not running, and on disk always.
BlockIDsUnique ==
    /\ blockProc = BlockProcIdle => ChainShown(bes, Blocks, BlockIndex)
    /\ ChainShown(disk.bes, disk.Blocks, disk.BlockIndex)

\* Cheaters seen by a frame of epoch ep that st accounts for.
SeenCheaters(st, ep) ==
    UNION {Elements(Frames[id[1]][id[2]].cheaters) \cup Elements(Frames[id[1]][id[2]].mps) :
              id \in {x \in Elements(st.bs.ValidatorStates) : x[1] = ep}}

\* Every cheater is punished, even if the frame that saw it made no block, and
\* whatever crashes: it is not in the validators group of the next epoch.
CheatersPunished ==
    \A ep \in DOMAIN history \ {1} :
        history[ep].es.Validators \cap SeenCheaters(history[ep], ep - 1) = {}

\* What the emitter builds on: the heads are the events of the epoch that no
\* stored event has as a parent, and the highest Lamport time is theirs, after a
\* restart, an epoch change or a jump as well.
EpochIndexExact ==
    LET S == events \cap EpochEvents(bes.es.Epoch)
    IN  Quiet =>
          /\ heads = {x \in S : \A y \in S : x \notin Parents[y]}
          /\ \A x \in S : Lamport[x] <= HighestLamport
          /\ HighestLamport = 0 \/ \E x \in S : Lamport[x] = HighestLamport

FinalChain == Sequential[MaxFrames].bs.FinalizedStateRoot
Padded(blocks) ==
    [i \in DOMAIN FinalChain |-> IF i \in DOMAIN blocks THEN blocks[i] ELSE None]
Chain == INSTANCE WriteOnce WITH
    Slot <- DOMAIN FinalChain, Permitted <- [i \in DOMAIN FinalChain |-> {FinalChain[i]}],
    current <- Padded(Blocks), durable <- Padded(disk.Blocks)

\* The block table is written once per block, by processEvent, blockFn or a
\* snapsync alike, with the block that every node has there; a crash goes back
\* to the durable blocks.
BlocksWriteOnce == Chain!Spec

\* Whatever crashes, all the frames end up executed and durable.
EventuallyDurable == <>[](disk.bes.bs = Sequential[MaxFrames].bs)
=============================================================================
