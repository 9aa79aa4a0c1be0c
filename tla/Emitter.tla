------------------------------ MODULE Emitter ------------------------------
(***************************************************************************)
(* The event emitter of one validator, across crashes: how EmitEvent       *)
(* creates an event on top of the last own one, has it processed, records  *)
(* its ID and its votes in files that survive what the database loses, and *)
(* broadcasts it; and how the files, the errlock and the protection period *)
(* keep a restarted node from signing two events with one number.          *)
(*                                                                         *)
(* EmitEvent holds engineMu (and has waited for blockProcWg) from          *)
(* createEvent to the broadcast, so no other event is connected and no     *)
(* flusher commits in between; the database is shared with the seeder of   *)
(* the events stream, which hands out stored events at any moment.         *)
(*                                                                         *)
(* Time is abstracted: whether the emission intervals and the gas power    *)
(* allow an event is left open, and the protection period stands for what  *)
(* it is chosen for (PeersHeard).  The field protected of an event records *)
(* that the protection was on when it was signed, and when the own events  *)
(* of its epoch that it builds on were.                                    *)
(***************************************************************************)
EXTENDS Integers, Sequences, FiniteSets, FiniteSetsExt

CONSTANTS
    MaxEpoch, MaxBlocks,    \* bounds: epochs, blocks
    MaxEvents, MaxCrashes,  \* bounds: events the node signs, crashes
    MaxBlockVotesPerEvent,
    DoublesignProtection,   \* EmitIntervals.DoublesignProtection of the config
    NetworkStart,           \* the genesis is less than networkStartPeriod ago
    None

ASSUME ConstantsAssumption ==
    /\ MaxEpoch \in Nat \ {0} /\ MaxBlocks \in Nat /\ MaxEvents \in Nat
    /\ MaxCrashes \in Nat /\ MaxBlockVotesPerEvent \in Nat \ {0}
    /\ DoublesignProtection \in Nat /\ NetworkStart \in BOOLEAN

NoBVs == [start |-> 0, n |-> 0]

\* A signed event: its number within its epoch is seq; ev is the epoch it votes
\* for (0 if none), bvs the blocks.
Event == [epoch : Nat, id : Nat, protected : BOOLEAN, seq : Nat, parent : Nat, ev : Nat,
          bvs : {NoBVs} \cup [start : Nat \ {0}, n : Nat \ {0}]]

ASSUME NoneAssumption == None \notin Event

VARIABLES
    db,      \* the database of the node: own events, epoch, last own event of the
             \* epoch, last own votes, blocks (their epochs)
    disk,    \* its durable part
    files,   \* emittedEventFile, emittedBvsFile, emittedEvFile
    em,      \* progress of EmitEvent, or of the process if it is locked
    protection, \* em.intervals.DoublesignProtection
    net,     \* own events that peers have connected
    sent,    \* own events that were broadcast
    created, \* number of events signed
    crashes

vars == <<db, disk, files, em, protection, net, sent, created, crashes>>

Idle == [pc |-> "idle"]
Locked == [pc |-> "locked"]
LastBlock(bvs) == bvs.start + bvs.n - 1

-----------------------------------------------------------------------------
(* What createEvent puts into an event. *)

\* addLlrBlockVotes: blocks of one epoch, from the first one not voted for; a
\* batch is sent when it is full or its epoch is over.
addLlrBlockVotes(d, f, lowest) ==
    LET start == Max({lowest, d.lastBV + 1, f.bvs + 1})
        n == Max({k \in 0..MaxBlockVotesPerEvent :
                     \A j \in start..(start + k - 1) :
                         j <= Len(d.blocks) /\ d.blocks[j] = d.blocks[start]})
        epochEnd == n < MaxBlockVotesPerEvent /\ start + n <= Len(d.blocks)
    IN  IF n = 0 \/ (~epochEnd /\ n < MaxBlockVotesPerEvent) THEN NoBVs
        ELSE [start |-> start, n |-> n]

\* Mutant: the file is not asked.
addLlrEpochVoteNoFile(d, f, lowest) ==
    LET target == Max({lowest, d.lastEV + 1})
    IN  IF target <= d.epoch THEN target ELSE 0

\* addLlrEpochVote: the epochs whose record the node has end with the current one.
addLlrEpochVote(d, f, lowest) ==
    LET target == Max({lowest, d.lastEV + 1, f.ev + 1})
    IN  IF target <= d.epoch THEN target ELSE 0

\* The protection period is long enough to hear from the peers all the own events
\* that they have: the period starts again when one of them arrives.
PeersHeard == \A e \in net : e.epoch >= db.epoch => e \in db.events

\* Mutant: the node waits for the event of the file in every epoch.
PrevEmittedKnownEver == files.event # None => files.event \in db.events

\* currentSyncStatus does not count a node as synced whose file names an event of
\* this epoch (or a later one) that is not in the database.
PrevEmittedKnown ==
    ~(/\ files.event # None /\ files.event \notin db.events
      /\ db.epoch <= files.event.epoch)

\* Mutant: the file alone is trusted.
isSyncedToEmitFile == PrevEmittedKnown

isSyncedToEmit == protection = 0 \/ (PeersHeard /\ PrevEmittedKnown)

\* The file names another event of this epoch than the one to build on.
FileDiffers ==
    /\ files.event # None /\ files.event.epoch >= db.epoch
    /\ db.last # files.event

-----------------------------------------------------------------------------
(* The database. *)

Higher(a, b) == IF a > b THEN a ELSE b

\* An own event is saved with its votes; the consensus may make a block of it, and
\* that block may seal the epoch.
Connected(d, e) ==
    [d EXCEPT !.events = @ \cup {e}, !.last = e,
              !.lastEV = Higher(@, e.ev),
              !.lastBV = IF e.bvs = NoBVs THEN @ ELSE Higher(@, LastBlock(e.bvs))]

WithBlock(d) == [d EXCEPT !.blocks = Append(@, d.epoch)]
Sealed(d) == [WithBlock(d) EXCEPT !.epoch = @ + 1, !.last = None]

Genesis ==
    [events |-> {}, epoch |-> 1, last |-> None, lastBV |-> 0, lastEV |-> 0,
     blocks |-> <<>>]

\* OnNewEpoch, at start and after every epoch, calls recountValidators.
recount(p) == IF NetworkStart THEN p \div 6 ELSE p

Init ==
    /\ db = Genesis /\ disk = Genesis
    /\ files = [event |-> None, bvs |-> 0, ev |-> 0]
    /\ em = Idle
    /\ protection = recount(DoublesignProtection)
    /\ net = {} /\ sent = {} /\ created = 0 /\ crashes = 0

-----------------------------------------------------------------------------
(* EmitEvent. *)

\* createEvent up to a signed event.  The LLR pointers lowestBlock and lowestEpoch
\* are as far as the votes of all the validators got; a pointer beyond what there
\* is to vote for also stands for the votes that a small validator skips.
createEvent(lowestBlock, lowestEpoch) ==
    /\ em = Idle
    /\ created < MaxEvents
    /\ isSyncedToEmit
    /\ ~FileDiffers
    /\ created' = created + 1
    /\ em' = [pc |-> "process",
              e |-> [epoch |-> db.epoch, id |-> created',
                     protected |-> protection > 0 /\ (db.last = None \/ db.last.protected),
                     seq |-> IF db.last = None THEN 1 ELSE db.last.seq + 1,
                     parent |-> IF db.last = None THEN 0 ELSE db.last.id,
                     ev |-> addLlrEpochVote(db, files, lowestEpoch),
                     bvs |-> addLlrBlockVotes(db, files, lowestBlock)]]
    /\ UNCHANGED <<db, disk, files, protection, net, sent, crashes>>

\* createEvent finds another event in the file: errlock.Permanent leaves a lock
\* file that every later start refuses.
createEventCorrupted ==
    /\ em = Idle
    /\ isSyncedToEmit
    /\ FileDiffers
    /\ em' = Locked
    /\ UNCHANGED <<db, disk, files, protection, net, sent, created, crashes>>

\* world.Process: the event is connected, and may make a block, seal the epoch (a
\* commit follows) or just have the store commit.  A refusal (service stopped,
\* EVM snapshot not ready) drops the event.
Process ==
    /\ em.pc = "process"
    /\ LET d == Connected(db, em.e)
       IN  \/ /\ db' = d
              /\ em' \in {[em EXCEPT !.pc = "commit"], [em EXCEPT !.pc = "file"]}
              /\ UNCHANGED protection
           \/ /\ db.epoch < MaxEpoch
              /\ db' = Sealed(d)
              /\ protection' = recount(protection)
              /\ em' = [em EXCEPT !.pc = "commit"]
    /\ UNCHANGED <<disk, files, net, sent, created, crashes>>

ProcessFails ==
    /\ em.pc = "process"
    /\ em' = Idle
    /\ UNCHANGED <<db, disk, files, protection, net, sent, created, crashes>>

commitEmitted ==
    /\ em.pc = "commit"
    /\ disk' = db
    /\ em' = [em EXCEPT !.pc = "file"]
    /\ UNCHANGED <<db, files, protection, net, sent, created, crashes>>

writeLastEmittedEventID ==
    /\ em.pc = "file"
    /\ files' = [files EXCEPT !.event = em.e]
    /\ em' = [em EXCEPT !.pc = "evFile"]
    /\ UNCHANGED <<db, disk, protection, net, sent, created, crashes>>

writeLastEmittedEpochVote ==
    /\ em.pc = "evFile"
    /\ files' = [files EXCEPT !.ev = IF em.e.ev # 0 THEN em.e.ev ELSE @]
    /\ em' = [em EXCEPT !.pc = "bvsFile"]
    /\ UNCHANGED <<db, disk, protection, net, sent, created, crashes>>

\* Mutant: the file is written even if the event has no block votes.
writeLastEmittedBlockVotesAlways ==
    /\ em.pc = "bvsFile"
    /\ files' = [files EXCEPT !.bvs = LastBlock(em.e.bvs)]
    /\ em' = [em EXCEPT !.pc = "broadcast"]
    /\ UNCHANGED <<db, disk, protection, net, sent, created, crashes>>

writeLastEmittedBlockVotes ==
    /\ em.pc = "bvsFile"
    /\ files' = [files EXCEPT !.bvs = IF em.e.bvs # NoBVs THEN LastBlock(em.e.bvs) ELSE @]
    /\ em' = [em EXCEPT !.pc = "broadcast"]
    /\ UNCHANGED <<db, disk, protection, net, sent, created, crashes>>

\* A peer can connect an event once it has the parent.
Connectable(e) == e.parent = 0 \/ \E p \in net : p.id = e.parent

\* The announcement may be lost; peers may get the event from the stream later.
Broadcast ==
    /\ em.pc = "broadcast"
    /\ sent' = sent \cup {em.e}
    /\ net' \in {net} \cup (IF Connectable(em.e) THEN {net \cup {em.e}} ELSE {})
    /\ em' = Idle
    /\ UNCHANGED <<db, disk, files, protection, created, crashes>>

-----------------------------------------------------------------------------
(* The rest of the node, and its peers. *)

\* The seeder of the events stream reads the database without engineMu.
seedEvent(e) ==
    /\ em # Locked
    /\ e \in db.events \ net
    /\ Connectable(e)
    /\ net' = net \cup {e}
    /\ UNCHANGED <<db, disk, files, em, protection, sent, created, crashes>>

mayCommit == disk' \in {disk, db'}

\* An own event comes back.  OnEventConnected does not take it for an event of a
\* second instance: it was created before this process started.
connectOwnEvent(e) ==
    /\ em = Idle
    /\ e \in net \ db.events
    /\ e.epoch = db.epoch
    /\ e.parent = 0 \/ \E p \in db.events : p.id = e.parent
    /\ db' = Connected(db, e)
    /\ mayCommit
    /\ UNCHANGED <<files, em, protection, net, sent, created, crashes>>

\* Own votes come back in a stream of votes, without the event.
connectOwnVotes(e) ==
    /\ em = Idle
    /\ e \in net \ db.events
    /\ db' = [Connected(db, e) EXCEPT !.events = db.events, !.last = db.last]
    /\ mayCommit
    /\ UNCHANGED <<files, em, protection, net, sent, created, crashes>>

\* Events of others make a block (the bound leaves room for those that seal).
connectOthers ==
    /\ em = Idle
    /\ Len(db.blocks) + MaxEpoch - db.epoch < MaxBlocks
    /\ db' = WithBlock(db)
    /\ mayCommit
    /\ UNCHANGED <<files, em, protection, net, sent, created, crashes>>

\* They seal the epoch, which is committed.
sealEpoch ==
    /\ em = Idle
    /\ db.epoch < MaxEpoch
    /\ db' = Sealed(db)
    /\ disk' = db'
    /\ protection' = recount(protection)
    /\ UNCHANGED <<files, em, net, sent, created, crashes>>

\* recheckChallenges finds a validator that missed its challenge.
recheckChallenges ==
    /\ em = Idle
    /\ recount(protection) # protection
    /\ protection' = recount(protection)
    /\ UNCHANGED <<db, disk, files, em, net, sent, created, crashes>>

\* The last own event is the last one that ReprocessEpochEvents connects: an own
\* event of the epoch that no other one has as its parent.
Tips(d) ==
    LET S == {e \in d.events : e.epoch = d.epoch}
    IN  {e \in S : \A x \in S : x.parent # e.id}

\* The process dies and starts again.
Crash ==
    /\ em # Locked
    /\ crashes < MaxCrashes
    /\ crashes' = crashes + 1
    /\ \E last \in IF Tips(disk) = {} THEN {None} ELSE Tips(disk) :
           db' = [disk EXCEPT !.last = last]
    /\ protection' = recount(DoublesignProtection)
    /\ em' = Idle
    /\ UNCHANGED <<disk, files, net, sent, created>>

Next ==
    \/ \E b \in 1..(Len(db.blocks) + 1), ep \in 1..(db.epoch + 1) : createEvent(b, ep)
    \/ createEventCorrupted
    \/ Process
    \/ ProcessFails
    \/ commitEmitted
    \/ writeLastEmittedEventID
    \/ writeLastEmittedEpochVote
    \/ writeLastEmittedBlockVotes
    \/ Broadcast
    \/ \E e \in db.events : seedEvent(e)
    \/ \E e \in net : connectOwnEvent(e)
    \/ \E e \in net : connectOwnVotes(e)
    \/ connectOthers
    \/ sealEpoch
    \/ recheckChallenges
    \/ Crash

Spec == Init /\ [][Next]_vars

\* EmitEvent is called again and again and runs to its end; a missing event is
\* asked for until a peer that has it sends it; the validators that are up seal
\* the epoch in the end.
Fairness ==
    /\ WF_vars(\E b \in 1..(Len(db.blocks) + 1), ep \in 1..(db.epoch + 1) : createEvent(b, ep))
    /\ WF_vars(createEventCorrupted)
    /\ WF_vars(Process \/ ProcessFails)
    /\ WF_vars(commitEmitted)
    /\ WF_vars(writeLastEmittedEventID)
    /\ WF_vars(writeLastEmittedEpochVote)
    /\ WF_vars(writeLastEmittedBlockVotes)
    /\ WF_vars(Broadcast)
    /\ SF_vars(\E e \in net : connectOwnEvent(e))
    /\ SF_vars(sealEpoch)

FairSpec == Spec /\ Fairness

-----------------------------------------------------------------------------
(* Properties. *)

Database ==
    [events : SUBSET Event, epoch : Nat, last : Event \cup {None}, lastBV : Nat,
     lastEV : Nat, blocks : Seq(Nat)]
Step == {"process", "commit", "file", "evFile", "bvsFile", "broadcast"}

\* The database, the files and the step of EmitEvent hold values of their types: in
\* particular an event without block votes leaves the number in emittedBvsFile alone.
TypeOK ==
    /\ db \in Database /\ disk \in Database
    /\ files \in [event : Event \cup {None}, bvs : Nat, ev : Nat]
    /\ em \in {Idle, Locked} \cup [pc : Step, e : Event]
    /\ protection \in Nat
    /\ net \in SUBSET Event /\ sent \in SUBSET Event
    /\ created \in 0..MaxEvents /\ crashes \in 0..MaxCrashes

SameNumber(e, f) == e.epoch = f.epoch /\ e.seq = f.seq /\ e # f

\* However often the node dies, and whatever the database forgets, its peers never
\* get two events of the validator with one epoch and one number, unless the
\* protection period was off when one of them, or an event that one of them builds
\* on, was signed: the seeder may have shown an event that neither the database nor
\* the file knows after the crash, but then it comes back before the next one is
\* created.
DoubleSignOnlyUnprotected ==
    \A e, f \in net : SameNumber(e, f) => ~(e.protected /\ f.protected)

\* The ID of an event is written to the file "to avoid doublesigning in future after
\* a crash", and the protection is only relaxed while the network is starting.
NoDoubleSign == ~\E e, f \in net : SameNumber(e, f)

Voted(e) == IF e.bvs = NoBVs THEN {} ELSE e.bvs.start..LastBlock(e.bvs)

\* Two events that were broadcast do not vote for one block or for one epoch,
\* although the database may have lost the first of them: the files remember.
NoRepeatedVote ==
    \A e, f \in sent : e # f =>
        /\ Voted(e) \cap Voted(f) = {}
        /\ e.ev # 0 => e.ev # f.ev

\* A crash never silences the validator: unless it is locked it goes on to sign all
\* its events.  It may have to sit out the epoch of an event that only the file
\* remembers (the last epoch of the model does not end).
EmitsAgain ==
    <>[](\/ em = Locked \/ created = MaxEvents
         \/ /\ files.event # None /\ files.event.epoch = MaxEpoch
            /\ files.event \notin db.events)
=============================================================================
