--------------------------- MODULE EmitterProofs ----------------------------
(***************************************************************************)
(* Proofs about the emitter: what the files remember keeps it from voting  *)
(* twice, and the protection period keeps it from signing twice.           *)
(***************************************************************************)
EXTENDS Emitter, TLAPS, WellFoundedInduction

-----------------------------------------------------------------------------
(* Numbers, votes and types. *)

\* A bounded nonempty set of naturals has a greatest element.
LEMMA MaxOfNaturals ==
    ASSUME NEW S \in SUBSET Nat, S # {}, NEW b \in Nat, \A x \in S : x <= b
    PROVE  Max(S) \in S /\ \A y \in S : y <= Max(S)
<1> DEFINE Less == {p \in Nat \X Nat : p[1] < p[2]}
           T == {n \in Nat : b - n \in S}
<1>1. OpToRel(<, Nat) = Less
  BY Zenon DEF OpToRel
<1>2. IsWellFoundedOn(Less, Nat)
  BY Zenon, <1>1, NatLessThanWellFounded
<1>3. T # {} /\ T \in SUBSET Nat
  <2>1. PICK x \in S : TRUE
    BY Zenon
  <2>2. x \in Nat /\ x <= b
    BY <2>1
  <2>3. b - x \in Nat /\ b - (b - x) = x
    BY <2>2
  <2> QED
    BY <2>1, <2>3
<1>4. \A x, y \in Nat : <<y, x>> \in Less <=> y < x
  BY DEF Less
<1> HIDE DEF Less, T
<1>5. \E t \in T : \A y \in T : ~(<<y, t>> \in Less)
  BY Zenon, <1>2, <1>3, WFMin
<1>6. PICK t \in T : \A y \in T : ~(<<y, t>> \in Less)
  BY <1>5
<1>7. b - t \in S /\ t \in Nat
  BY DEF T
<1>8. ASSUME NEW y \in S PROVE y <= b - t
  <2>1. y \in Nat /\ y <= b
    BY <1>8
  <2>2. b - y \in Nat /\ b - (b - y) = y
    BY <2>1
  <2>3. b - y \in T
    BY <1>8, <2>2 DEF T
  <2>4. ~(b - y < t)
    BY Zenon, <1>4, <1>6, <1>7, <2>2, <2>3
  <2> QED
    BY <1>7, <2>1, <2>4
<1>9. b - t \in S /\ \A y \in S : b - t >= y
  BY <1>7, <1>8
<1>10. Max(S) \in S /\ \A y \in S : Max(S) >= y
  BY Zenon, <1>9 DEF Max
<1> QED
  BY <1>10

\* The greatest of three numbers.
LEMMA MaxOfThree ==
    ASSUME NEW a \in Nat, NEW b \in Nat, NEW c \in Nat
    PROVE  LET m == Max({a, b, c}) IN m \in Nat /\ m >= a /\ m >= b /\ m >= c
<1> DEFINE S == {a, b, c}
<1>1. S \in SUBSET Nat /\ S # {} /\ a + b + c \in Nat /\ \A x \in S : x <= a + b + c
  OBVIOUS
<1> HIDE DEF S
<1>2. Max(S) \in S /\ \A y \in S : y <= Max(S)
  BY Zenon, <1>1, MaxOfNaturals
<1>3. Max(S) \in Nat
  BY <1>1, <1>2
<1> QED
  BY <1>2, <1>3 DEF S

\* addLlrBlockVotes votes for nothing, or for blocks beyond those in the file.
LEMMA NewBlockVotes ==
    ASSUME NEW d, NEW f, NEW lowest \in Nat, d.lastBV \in Nat, f.bvs \in Nat
    PROVE  LET r == addLlrBlockVotes(d, f, lowest)
           IN  r = NoBVs \/ (/\ r \in [start : Nat \ {0}, n : Nat \ {0}]
                             /\ r.start > f.bvs)
<1> DEFINE start == Max({lowest, d.lastBV + 1, f.bvs + 1})
           K == {k \in 0..MaxBlockVotesPerEvent :
                     \A j \in start..(start + k - 1) :
                         j <= Len(d.blocks) /\ d.blocks[j] = d.blocks[start]}
           n == Max(K)
<1>1. start \in Nat /\ start >= f.bvs + 1
  <2>1. d.lastBV + 1 \in Nat /\ f.bvs + 1 \in Nat
    OBVIOUS
  <2> QED
    BY Zenon, <2>1, MaxOfThree
<1> HIDE DEF start
<1>2. K \in SUBSET Nat /\ 0 \in K /\ \A k \in K : k <= MaxBlockVotesPerEvent
  BY <1>1, ConstantsAssumption
<1> HIDE DEF K
<1>3. n \in Nat
  <2>1. n \in K
    BY <1>2, MaxOfNaturals, ConstantsAssumption
  <2> QED
    BY <1>2, <2>1
<1> HIDE DEF n
<1>4. \/ addLlrBlockVotes(d, f, lowest) = NoBVs
      \/ n # 0 /\ addLlrBlockVotes(d, f, lowest) = [start |-> start, n |-> n]
  BY Zenon DEF addLlrBlockVotes, start, K, n
<1> QED
  BY <1>1, <1>3, <1>4

\* addLlrEpochVote votes for nothing, or for an epoch beyond the one in the file.
LEMMA NewEpochVote ==
    ASSUME NEW d, NEW f, NEW lowest \in Nat, d.lastEV \in Nat, f.ev \in Nat
    PROVE  LET r == addLlrEpochVote(d, f, lowest)
           IN  r \in Nat /\ (r # 0 => r > f.ev)
<1> DEFINE target == Max({lowest, d.lastEV + 1, f.ev + 1})
<1>1. target \in Nat /\ target >= f.ev + 1
  <2>1. d.lastEV + 1 \in Nat /\ f.ev + 1 \in Nat
    OBVIOUS
  <2> QED
    BY Zenon, <2>1, MaxOfThree
<1>2. addLlrEpochVote(d, f, lowest) \in {target, 0}
  BY Zenon DEF addLlrEpochVote
<1> HIDE DEF target
<1> QED
  BY <1>1, <1>2

\* The last block of the votes of an event.
LEMMA LastBlockType ==
    ASSUME NEW e \in Event, e.bvs # NoBVs
    PROVE  LastBlock(e.bvs) \in Nat /\ LastBlock(e.bvs) >= e.bvs.start /\ e.bvs.start \in Nat
<1>1. e.bvs \in [start : Nat \ {0}, n : Nat \ {0}]
  BY DEF Event
<1> QED
  BY <1>1 DEF LastBlock

\* What saving an own event, making a block and sealing an epoch leave.
LEMMA ConnectedDb ==
    ASSUME NEW d \in Database, NEW e \in Event
    PROVE  LET r == Connected(d, e)
           IN  /\ r \in Database /\ r.events = d.events \cup {e} /\ r.last = e
               /\ r.epoch = d.epoch
<1> DEFINE ev == Higher(d.lastEV, e.ev)
           bv == IF e.bvs = NoBVs THEN d.lastBV ELSE Higher(d.lastBV, LastBlock(e.bvs))
<1>1. ev \in Nat
  BY DEF Higher, Database, Event
<1>2. bv \in Nat
  BY LastBlockType DEF Higher, Database
<1>3. Connected(d, e) = [d EXCEPT !.events = d.events \cup {e}, !.last = e,
                                  !.lastEV = ev, !.lastBV = bv]
  BY Zenon DEF Connected
<1> HIDE DEF ev, bv
<1>4. Connected(d, e) = [events |-> d.events \cup {e}, epoch |-> d.epoch, last |-> e,
                         lastBV |-> bv, lastEV |-> ev, blocks |-> d.blocks]
  BY <1>3 DEF Database
<1>5. d.events \cup {e} \in SUBSET Event /\ d.epoch \in Nat /\ d.blocks \in Seq(Nat)
  BY DEF Database
<1> HIDE DEF Connected
<1> QED
  BY <1>1, <1>2, <1>4, <1>5 DEF Database

LEMMA BlockDb ==
    ASSUME NEW d \in Database
    PROVE  /\ WithBlock(d) \in Database /\ WithBlock(d).events = d.events
           /\ WithBlock(d).last = d.last /\ WithBlock(d).epoch = d.epoch
           /\ Sealed(d) \in Database /\ Sealed(d).events = d.events
           /\ Sealed(d).last = None /\ Sealed(d).epoch = d.epoch + 1
<1> DEFINE blocks == Append(d.blocks, d.epoch)
<1>1. /\ blocks \in Seq(Nat) /\ d.events \in SUBSET Event /\ d.epoch \in Nat
      /\ d.epoch + 1 \in Nat /\ d.last \in Event \cup {None}
      /\ d.lastBV \in Nat /\ d.lastEV \in Nat
  BY DEF Database
<1> HIDE DEF blocks
<1>2. WithBlock(d) = [events |-> d.events, epoch |-> d.epoch, last |-> d.last,
                      lastBV |-> d.lastBV, lastEV |-> d.lastEV, blocks |-> blocks]
  <2>1. WithBlock(d) = [d EXCEPT !.blocks = blocks]
    BY Zenon DEF WithBlock, blocks
  <2> QED
    BY SMTT(30), <2>1 DEF Database
<1>3. /\ WithBlock(d) \in Database /\ WithBlock(d).events = d.events
      /\ WithBlock(d).last = d.last /\ WithBlock(d).epoch = d.epoch
  BY <1>1, <1>2 DEF Database
<1>4. ASSUME NEW w \in Database, w.epoch = d.epoch, w.events = d.events
      PROVE  LET r == [w EXCEPT !.epoch = d.epoch + 1, !.last = None]
             IN  r \in Database /\ r.events = d.events /\ r.last = None /\ r.epoch = d.epoch + 1
  BY <1>1, <1>4 DEF Database
<1>5. Sealed(d) = [WithBlock(d) EXCEPT !.epoch = d.epoch + 1, !.last = None]
  BY Zenon, <1>3 DEF Sealed
<1> HIDE DEF Sealed, WithBlock
<1> QED
  BY Zenon, <1>3, <1>4, <1>5

\* The protection period is a number.
LEMMA RecountType ==
    ASSUME NEW p \in Nat
    PROVE  recount(p) \in Nat
  BY DEF recount

\* The event that createEvent signs, and its votes.
NewEvent(b, ep) ==
    [epoch |-> db.epoch, id |-> created + 1,
     protected |-> protection > 0 /\ (db.last = None \/ db.last.protected),
     seq |-> IF db.last = None THEN 1 ELSE db.last.seq + 1,
     parent |-> IF db.last = None THEN 0 ELSE db.last.id,
     ev |-> addLlrEpochVote(db, files, ep),
     bvs |-> addLlrBlockVotes(db, files, b)]

LEMMA NewEventType ==
    ASSUME TypeOK, NEW b \in Nat, NEW ep \in Nat
    PROVE  /\ NewEvent(b, ep) \in Event
           /\ NewEvent(b, ep).ev # 0 => NewEvent(b, ep).ev > files.ev
           /\ NewEvent(b, ep).bvs # NoBVs => NewEvent(b, ep).bvs.start > files.bvs
<1> DEFINE ev == addLlrEpochVote(db, files, ep)
           bvs == addLlrBlockVotes(db, files, b)
<1>1. /\ db.lastBV \in Nat /\ db.lastEV \in Nat /\ files.bvs \in Nat /\ files.ev \in Nat
      /\ db.epoch \in Nat /\ db.last \in Event \cup {None} /\ created \in Nat /\ protection \in Nat
  BY DEF TypeOK, Database
<1>2. ev \in Nat /\ (ev # 0 => ev > files.ev)
  BY Zenon, <1>1, NewEpochVote
<1>3. bvs = NoBVs \/ (bvs \in [start : Nat \ {0}, n : Nat \ {0}] /\ bvs.start > files.bvs)
  BY Zenon, <1>1, NewBlockVotes
<1>4. db.last # None => db.last.seq \in Nat /\ db.last.id \in Nat /\ db.last.protected \in BOOLEAN
  BY <1>1 DEF Event
<1>5. (protection > 0 /\ (db.last = None \/ db.last.protected)) \in BOOLEAN
  BY <1>1, <1>4
<1> DEFINE seq == IF db.last = None THEN 1 ELSE db.last.seq + 1
           parent == IF db.last = None THEN 0 ELSE db.last.id
<1>6. seq \in Nat /\ parent \in Nat
  BY <1>4
<1> HIDE DEF ev, bvs, seq, parent
<1>7. NewEvent(b, ep) =
        [epoch |-> db.epoch, id |-> created + 1,
         protected |-> (protection > 0 /\ (db.last = None \/ db.last.protected)),
         seq |-> seq, parent |-> parent, ev |-> ev, bvs |-> bvs]
  BY Zenon DEF NewEvent, ev, bvs, seq, parent
<1> QED
  BY <1>1, <1>2, <1>3, <1>5, <1>6, <1>7 DEF Event

\* The event in hand, and EmitEvent's next step with it.
LEMMA InHand ==
    ASSUME TypeOK, em.pc \in Step
    PROVE  /\ em.e \in Event
           /\ \A p \in Step : LET r == [em EXCEPT !.pc = p]
                              IN  r \in [pc : Step, e : Event] /\ r.pc = p /\ r.e = em.e
<1>1. em \in [pc : Step, e : Event]
  BY DEF TypeOK, Idle, Locked, Step
<1> QED
  BY <1>1

\* Process leaves the event in the database.
LEMMA ProcessDb ==
    ASSUME TypeOK, Process
    PROVE  /\ em.pc = "process" /\ em.e \in Event /\ db' \in Database
           /\ db'.events = db.events \cup {em.e}
           /\ \/ db'.last = em.e /\ db'.epoch = db.epoch /\ protection' = protection
              \/ /\ db'.last = None /\ db'.epoch = db.epoch + 1
                 /\ protection' = recount(protection)
           /\ em' \in [pc : {"commit", "file"}, e : {em.e}]
           /\ UNCHANGED <<disk, files, net, sent, created, crashes>>
<1>1. em.pc = "process" /\ UNCHANGED <<disk, files, net, sent, created, crashes>>
  BY Zenon DEF Process
<1>2. em \in [pc : Step, e : Event]
  BY <1>1 DEF TypeOK, Idle, Locked, Step
<1>3. db \in Database /\ em.e \in Event
  BY <1>2 DEF TypeOK
<1> DEFINE d == Connected(db, em.e)
<1>4. d \in Database /\ d.events = db.events \cup {em.e} /\ d.last = em.e /\ d.epoch = db.epoch
  BY Zenon, <1>3, ConnectedDb
<1>5. /\ Sealed(d) \in Database /\ Sealed(d).events = d.events
      /\ Sealed(d).last = None /\ Sealed(d).epoch = d.epoch + 1
  BY Zenon, <1>4, BlockDb
<1>6. /\ \/ db' = d /\ protection' = protection
         \/ db' = Sealed(d) /\ protection' = recount(protection)
      /\ em' \in {[em EXCEPT !.pc = "commit"], [em EXCEPT !.pc = "file"]}
  BY Zenon DEF Process
<1>7. em' \in [pc : {"commit", "file"}, e : {em.e}]
  BY <1>2, <1>6
<1> HIDE DEF d
<1> QED
  BY Zenon, <1>1, <1>3, <1>4, <1>5, <1>6, <1>7

\* The events of the rest of the node, as far as the own events are concerned.
LEMMA OwnEventDb ==
    ASSUME TypeOK, NEW e \in net, connectOwnEvent(e)
    PROVE  /\ e \in Event /\ db' \in Database /\ db'.events = db.events \cup {e}
           /\ db'.last = e /\ db'.epoch = db.epoch
  BY ZenonT(30), ConnectedDb DEF TypeOK, connectOwnEvent

LEMMA OwnVotesDb ==
    ASSUME TypeOK, NEW e \in net, connectOwnVotes(e)
    PROVE  /\ db' \in Database /\ db'.events = db.events
           /\ db'.last = db.last /\ db'.epoch = db.epoch
<1>1. db \in Database /\ e \in Event
  BY DEF TypeOK
<1>2. Connected(db, e) \in Database /\ Connected(db, e).epoch = db.epoch
  BY Zenon, <1>1, ConnectedDb
<1>3. db' = [Connected(db, e) EXCEPT !.events = db.events, !.last = db.last]
  BY Zenon DEF connectOwnVotes
<1>4. ASSUME NEW c \in Database, c.epoch = db.epoch
      PROVE  LET r == [c EXCEPT !.events = db.events, !.last = db.last]
             IN  r \in Database /\ r.events = db.events /\ r.last = db.last /\ r.epoch = db.epoch
  BY <1>1, <1>4 DEF Database
<1> QED
  BY Zenon, <1>2, <1>3, <1>4

\* The database after a restart.
LEMMA CrashDb ==
    ASSUME TypeOK, Crash
    PROVE  /\ db' \in Database /\ db'.events = disk.events /\ db'.epoch = disk.epoch
           /\ db'.last \in IF Tips(disk) = {} THEN {None} ELSE Tips(disk)
<1>1. PICK last \in IF Tips(disk) = {} THEN {None} ELSE Tips(disk) :
        db' = [disk EXCEPT !.last = last]
  BY Zenon DEF Crash
<1>2. disk \in Database
  BY DEF TypeOK
<1>3. Tips(disk) \subseteq Event
  BY <1>2 DEF Tips, Database
<1>4. last \in Event \cup {None}
  BY <1>3
<1>5. [disk EXCEPT !.last = last] \in Database
      /\ [disk EXCEPT !.last = last].events = disk.events
      /\ [disk EXCEPT !.last = last].epoch = disk.epoch
      /\ [disk EXCEPT !.last = last].last = last
  BY <1>2, <1>4 DEF Database
<1> QED
  BY Zenon, <1>1, <1>5

\* Every step keeps the types.
LEMMA TypeNext ==
    ASSUME TypeOK, [Next]_vars
    PROVE  TypeOK'
<1>1. ASSUME NEW b \in 1..(Len(db.blocks) + 1), NEW ep \in 1..(db.epoch + 1), createEvent(b, ep)
      PROVE  TypeOK'
  <2>1. b \in Nat /\ ep \in Nat
    BY DEF TypeOK, Database
  <2>2. NewEvent(b, ep) \in Event
    BY Zenon, <2>1, NewEventType
  <2>3. em' = [pc |-> "process", e |-> NewEvent(b, ep)] /\ created' \in 0..MaxEvents
    <3>1. created' = created + 1 /\ created < MaxEvents
      BY Zenon, <1>1 DEF createEvent
    <3>2. em' = [pc |-> "process", e |-> NewEvent(b, ep)]
      BY Zenon, <1>1, <3>1 DEF createEvent, NewEvent
    <3> QED
      BY <3>1, <3>2, ConstantsAssumption DEF TypeOK
  <2>4. em' \in [pc : Step, e : Event]
    BY <2>2, <2>3 DEF Step
  <2>5. UNCHANGED <<db, disk, files, protection, net, sent, crashes>>
    BY Zenon, <1>1 DEF createEvent
  <2> QED
    BY Zenon, <2>3, <2>4, <2>5 DEF TypeOK, Database, Idle, Locked
<1>2. CASE createEventCorrupted
  BY Zenon, <1>2 DEF createEventCorrupted, TypeOK, Database, Idle, Locked
<1>3. CASE Process
  <2>1. /\ db' \in Database /\ em.e \in Event
        /\ \/ protection' = protection \/ protection' = recount(protection)
        /\ em' \in [pc : {"commit", "file"}, e : {em.e}]
        /\ UNCHANGED <<disk, files, net, sent, created, crashes>>
    BY Zenon, <1>3, ProcessDb
  <2>2. em' \in [pc : Step, e : Event]
    BY <2>1 DEF Step
  <2>3. protection' \in Nat
    BY Zenon, <2>1, RecountType DEF TypeOK
  <2> QED
    BY Zenon, <2>1, <2>2, <2>3 DEF TypeOK, Database, Idle, Locked
<1>4. CASE ProcessFails
  BY Zenon, <1>4 DEF ProcessFails, TypeOK, Database, Idle, Locked
<1>5. CASE commitEmitted
  <2>1. em.pc \in Step /\ "file" \in Step /\ em' = [em EXCEPT !.pc = "file"]
    BY Zenon, <1>5 DEF commitEmitted, Step
  <2>2. em' \in [pc : Step, e : Event]
    BY Zenon, <2>1, InHand
  <2> QED
    BY Zenon, <1>5, <2>2 DEF commitEmitted, TypeOK, Database, Idle, Locked
<1>6. CASE writeLastEmittedEventID
  <2>1. em.pc \in Step /\ "evFile" \in Step /\ em' = [em EXCEPT !.pc = "evFile"]
    BY Zenon, <1>6 DEF writeLastEmittedEventID, Step
  <2>2. em' \in [pc : Step, e : Event] /\ em.e \in Event
    BY Zenon, <2>1, InHand
  <2>3. files' \in [event : Event \cup {None}, bvs : Nat, ev : Nat]
    BY <1>6, <2>2 DEF writeLastEmittedEventID, TypeOK
  <2> QED
    BY Zenon, <1>6, <2>2, <2>3 DEF writeLastEmittedEventID, TypeOK, Database, Idle, Locked
<1>7. CASE writeLastEmittedEpochVote
  <2>1. em.pc \in Step /\ "bvsFile" \in Step /\ em' = [em EXCEPT !.pc = "bvsFile"]
    BY Zenon, <1>7 DEF writeLastEmittedEpochVote, Step
  <2>2. em' \in [pc : Step, e : Event] /\ em.e \in Event
    BY Zenon, <2>1, InHand
  <2>3. em.e.ev \in Nat
    BY <2>2 DEF Event
  <2>4. files' \in [event : Event \cup {None}, bvs : Nat, ev : Nat]
    BY <1>7, <2>3 DEF writeLastEmittedEpochVote, TypeOK
  <2> QED
    BY Zenon, <1>7, <2>2, <2>4 DEF writeLastEmittedEpochVote, TypeOK, Database, Idle, Locked
<1>8. CASE writeLastEmittedBlockVotes
  <2>1. em.pc \in Step /\ "broadcast" \in Step /\ em' = [em EXCEPT !.pc = "broadcast"]
    BY Zenon, <1>8 DEF writeLastEmittedBlockVotes, Step
  <2>2. em' \in [pc : Step, e : Event] /\ em.e \in Event
    BY Zenon, <2>1, InHand
  <2>3. em.e.bvs # NoBVs => LastBlock(em.e.bvs) \in Nat
    BY Zenon, <2>2, LastBlockType
  <2>4. files' \in [event : Event \cup {None}, bvs : Nat, ev : Nat]
    BY <1>8, <2>3 DEF writeLastEmittedBlockVotes, TypeOK
  <2> QED
    BY Zenon, <1>8, <2>2, <2>4 DEF writeLastEmittedBlockVotes, TypeOK, Database, Idle, Locked
<1>9. CASE Broadcast
  <2>1. em.e \in Event
    BY Zenon, <1>9, InHand DEF Broadcast, Step
  <2>2. net' \in SUBSET Event /\ sent' \in SUBSET Event
    BY <1>9, <2>1 DEF Broadcast, TypeOK
  <2> QED
    BY Zenon, <1>9, <2>2 DEF Broadcast, TypeOK, Database, Idle, Locked
<1>10. ASSUME NEW e \in db.events, seedEvent(e) PROVE TypeOK'
  <2>1. net' \in SUBSET Event
    BY <1>10 DEF seedEvent, TypeOK, Database
  <2> QED
    BY Zenon, <1>10, <2>1 DEF seedEvent, TypeOK, Database, Idle, Locked
<1>11. ASSUME NEW e \in net, connectOwnEvent(e) PROVE TypeOK'
  BY Zenon, <1>11, OwnEventDb DEF connectOwnEvent, mayCommit, TypeOK, Idle, Locked
<1>12. ASSUME NEW e \in net, connectOwnVotes(e) PROVE TypeOK'
  BY Zenon, <1>12, OwnVotesDb DEF connectOwnVotes, mayCommit, TypeOK, Idle, Locked
<1>13. CASE connectOthers
  BY Zenon, <1>13, BlockDb DEF connectOthers, mayCommit, TypeOK, Idle, Locked
<1>14. CASE sealEpoch
  BY Zenon, <1>14, BlockDb, RecountType DEF sealEpoch, TypeOK, Idle, Locked
<1>15. CASE recheckChallenges
  BY Zenon, <1>15, RecountType DEF recheckChallenges, TypeOK, Idle, Locked
<1>16. CASE Crash
  <2>1. crashes' \in 0..MaxCrashes
    BY <1>16, ConstantsAssumption DEF Crash, TypeOK
  <2>2. protection' \in Nat
    BY Zenon, <1>16, RecountType, ConstantsAssumption DEF Crash
  <2> QED
    BY ZenonT(30), <1>16, <2>1, <2>2, CrashDb DEF Crash, TypeOK, Idle, Locked
<1>17. CASE UNCHANGED vars
  BY Zenon, <1>17 DEF vars, TypeOK, Idle, Locked
<1> QED
  BY Zenon, <1>1, <1>2, <1>3, <1>4, <1>5, <1>6, <1>7, <1>8, <1>9, <1>10, <1>11, <1>12, <1>13,
     <1>14, <1>15, <1>16, <1>17 DEF Next

\* The database, the files and EmitEvent keep their types, for any number of
\* epochs, blocks, events and crashes.
THEOREM TypeCorrect == Spec => []TypeOK
<1>1. ASSUME Init PROVE TypeOK
  <2>1. Genesis \in Database
    BY DEF Genesis, Database
  <2>2. recount(DoublesignProtection) \in Nat
    BY RecountType, ConstantsAssumption
  <2> QED
    BY <1>1, <2>1, <2>2, ConstantsAssumption DEF Init, TypeOK
<1> QED
  BY <1>1, TypeNext, PTL DEF Spec

-----------------------------------------------------------------------------
(* No repeated votes. *)

Before(e, f) ==
    /\ Voted(e) \cap Voted(f) = {}
    /\ e.ev # 0 => e.ev # f.ev

\* The votes of e are in the files, or ahead of them.
EvRecorded(e) == e.ev <= files.ev
BvsRecorded(e) == e.bvs # NoBVs => LastBlock(e.bvs) <= files.bvs
EvAhead(e) == e.ev # 0 => e.ev > files.ev
BvsAhead(e) == e.bvs # NoBVs => e.bvs.start > files.bvs

\* The files are as far as the votes that were broadcast, and those of the event
\* in hand are ahead of the files until they are written.
VoteInv ==
    /\ NoRepeatedVote
    /\ \A e \in sent : EvRecorded(e) /\ BvsRecorded(e)
    /\ em.pc \in Step =>
           /\ \A e \in sent : Before(e, em.e)
           /\ IF em.pc \in {"bvsFile", "broadcast"} THEN EvRecorded(em.e) ELSE EvAhead(em.e)
           /\ IF em.pc = "broadcast" THEN BvsRecorded(em.e) ELSE BvsAhead(em.e)

\* What is recorded in the files and what is ahead of them do not meet.
LEMMA AheadBefore ==
    ASSUME TypeOK, NEW e \in Event, NEW f \in Event,
           EvRecorded(e), BvsRecorded(e), EvAhead(f), BvsAhead(f)
    PROVE  Before(e, f)
<1>1. files.ev \in Nat /\ files.bvs \in Nat /\ e.ev \in Nat /\ f.ev \in Nat
  BY DEF TypeOK, Event
<1>2. e.ev # 0 => e.ev # f.ev
  BY <1>1 DEF EvRecorded, EvAhead
<1>3. ASSUME NEW b \in Voted(e) \cap Voted(f) PROVE FALSE
  <2>1. e.bvs # NoBVs /\ f.bvs # NoBVs
    BY <1>3 DEF Voted
  <2>2. b \in e.bvs.start..LastBlock(e.bvs) /\ b \in f.bvs.start..LastBlock(f.bvs)
    BY <1>3, <2>1 DEF Voted
  <2>3. /\ e.bvs.start \in Nat /\ LastBlock(e.bvs) \in Nat
        /\ f.bvs.start \in Nat /\ LastBlock(f.bvs) \in Nat
    BY Zenon, <2>1, LastBlockType
  <2>4. LastBlock(e.bvs) <= files.bvs /\ f.bvs.start > files.bvs
    BY Zenon, <2>1 DEF BvsRecorded, BvsAhead
  <2> QED
    BY <1>1, <2>2, <2>3, <2>4
<1> QED
  BY Zenon, <1>2, <1>3 DEF Before

\* Steps of the others, and those that drop the event in hand.
LEMMA VoteSame ==
    ASSUME VoteInv, UNCHANGED <<sent, files>>, em' = em \/ em'.pc \notin Step
    PROVE  VoteInv'
  BY ZenonT(30) DEF VoteInv, NoRepeatedVote, Voted, LastBlock, Before, EvRecorded, BvsRecorded,
               EvAhead, BvsAhead

\* Steps of EmitEvent between the creation and the first write to a votes file.
LEMMA VoteForward ==
    ASSUME VoteInv, UNCHANGED sent, files'.ev = files.ev, files'.bvs = files.bvs,
           em.pc \in {"process", "commit", "file"}, em'.pc \in {"commit", "file", "evFile"},
           em'.e = em.e
    PROVE  VoteInv'
<1>1. /\ em.pc \in Step /\ em.pc \notin {"bvsFile", "broadcast"} /\ em.pc # "broadcast"
      /\ em'.pc \in Step /\ em'.pc \notin {"bvsFile", "broadcast"} /\ em'.pc # "broadcast"
  BY DEF Step
<1>2. /\ NoRepeatedVote /\ (\A e \in sent : EvRecorded(e) /\ BvsRecorded(e))
      /\ (\A e \in sent : Before(e, em.e)) /\ EvAhead(em.e) /\ BvsAhead(em.e)
  BY Zenon, <1>1 DEF VoteInv
<1>3. NoRepeatedVote' /\ \A e \in sent' : EvRecorded(e)' /\ BvsRecorded(e)'
  BY Zenon, <1>2 DEF NoRepeatedVote, Voted, LastBlock, EvRecorded, BvsRecorded
<1>4. (\A e \in sent' : Before(e, em.e)') /\ EvAhead(em.e)' /\ BvsAhead(em.e)'
  BY ZenonT(30), <1>2 DEF Before, Voted, LastBlock, EvAhead, BvsAhead
<1> QED
  BY Zenon, <1>1, <1>3, <1>4 DEF VoteInv

\* Every step keeps the files as far as the votes.
LEMMA VoteNext ==
    ASSUME TypeOK, TypeOK', VoteInv, [Next]_vars
    PROVE  VoteInv'
<1>1. ASSUME NEW b \in 1..(Len(db.blocks) + 1), NEW ep \in 1..(db.epoch + 1), createEvent(b, ep)
      PROVE  VoteInv'
  <2> DEFINE f == NewEvent(b, ep)
  <2>1. b \in Nat /\ ep \in Nat
    BY DEF TypeOK, Database
  <2>2. f \in Event /\ EvAhead(f) /\ BvsAhead(f)
    BY Zenon, <2>1, NewEventType DEF EvAhead, BvsAhead
  <2>3. em' = [pc |-> "process", e |-> f]
    BY Zenon, <1>1 DEF createEvent, NewEvent
  <2>4. UNCHANGED <<sent, files>>
    BY Zenon, <1>1 DEF createEvent
  <2>5. \A e \in sent : Before(e, f)
    BY Zenon, <2>2, AheadBefore DEF VoteInv, TypeOK
  <2> HIDE DEF f
  <2>6. em'.pc = "process" /\ em'.e = f
    BY <2>3
  <2>7. NoRepeatedVote' /\ \A e \in sent' : EvRecorded(e)' /\ BvsRecorded(e)'
    BY Zenon, <2>4 DEF VoteInv, NoRepeatedVote, Voted, LastBlock, EvRecorded, BvsRecorded
  <2>8. (\A e \in sent' : Before(e, em.e)') /\ EvAhead(em.e)' /\ BvsAhead(em.e)'
    BY ZenonT(30), <2>2, <2>4, <2>5, <2>6 DEF Before, Voted, LastBlock, EvAhead, BvsAhead
  <2> QED
    BY ZenonT(30), <2>6, <2>7, <2>8 DEF VoteInv
<1>2. CASE Process
  <2>1. em' \in [pc : {"commit", "file"}, e : {em.e}]
    BY Zenon, <1>2, ProcessDb
  <2>2. em'.pc \in {"commit", "file", "evFile"} /\ em'.e = em.e
    BY <2>1
  <2> QED
    BY Zenon, <1>2, <2>2, VoteForward DEF Process
<1>3. CASE commitEmitted
  <2>1. em.pc \in Step /\ "file" \in Step
    BY Zenon, <1>3 DEF commitEmitted, Step
  <2>2. em'.pc = "file" /\ em'.e = em.e
    BY Zenon, <1>3, <2>1, InHand DEF commitEmitted
  <2> QED
    BY Zenon, <1>3, <2>2, VoteForward DEF commitEmitted
<1>4. CASE writeLastEmittedEventID
  <2>1. em.pc \in Step /\ "evFile" \in Step
    BY Zenon, <1>4 DEF writeLastEmittedEventID, Step
  <2>2. em'.pc = "evFile" /\ em'.e = em.e
    BY Zenon, <1>4, <2>1, InHand DEF writeLastEmittedEventID
  <2>3. files'.ev = files.ev /\ files'.bvs = files.bvs
    BY <1>4 DEF writeLastEmittedEventID, TypeOK
  <2> QED
    BY ZenonT(30), <1>4, <2>2, <2>3, VoteForward DEF writeLastEmittedEventID
<1>5. CASE writeLastEmittedEpochVote
  <2>1. em.pc = "evFile" /\ em.pc \in Step /\ "bvsFile" \in Step /\ UNCHANGED sent
    BY Zenon, <1>5 DEF writeLastEmittedEpochVote, Step
  <2>2. em'.pc = "bvsFile" /\ em'.e = em.e /\ em.e \in Event
    BY Zenon, <1>5, <2>1, InHand DEF writeLastEmittedEpochVote
  <2>3. /\ files'.bvs = files.bvs /\ files.ev \in Nat
        /\ files'.ev = IF em.e.ev # 0 THEN em.e.ev ELSE files.ev
    BY <1>5 DEF writeLastEmittedEpochVote, TypeOK
  <2>4. em.e.ev \in Nat /\ \A e \in sent : e.ev \in Nat
    BY <2>2 DEF TypeOK, Event
  <2>5. /\ EvAhead(em.e) /\ BvsAhead(em.e) /\ NoRepeatedVote /\ (\A e \in sent : Before(e, em.e))
        /\ \A e \in sent : EvRecorded(e) /\ BvsRecorded(e)
    BY <2>1 DEF VoteInv
  <2>6. EvRecorded(em.e)' /\ \A e \in sent : e.ev <= files'.ev
    BY <2>2, <2>3, <2>4, <2>5 DEF EvAhead, EvRecorded
  <2>7. NoRepeatedVote' /\ \A e \in sent' : EvRecorded(e)' /\ BvsRecorded(e)'
    BY ZenonT(30), <2>1, <2>3, <2>5, <2>6 DEF NoRepeatedVote, Voted, LastBlock, EvRecorded, BvsRecorded
  <2>8. (\A e \in sent' : Before(e, em.e)') /\ BvsAhead(em.e)'
    BY Zenon, <2>1, <2>2, <2>3, <2>5 DEF Before, Voted, LastBlock, BvsAhead
  <2> QED
    BY Zenon, <2>2, <2>6, <2>7, <2>8 DEF VoteInv
<1>6. CASE writeLastEmittedBlockVotes
  <2>1. em.pc = "bvsFile" /\ em.pc \in Step /\ "broadcast" \in Step /\ UNCHANGED sent
    BY Zenon, <1>6 DEF writeLastEmittedBlockVotes, Step
  <2>2. em'.pc = "broadcast" /\ em'.e = em.e /\ em.e \in Event
    BY ZenonT(30), <1>6, <2>1, InHand DEF writeLastEmittedBlockVotes
  <2>3. /\ files'.ev = files.ev /\ files.bvs \in Nat
        /\ files'.bvs = IF em.e.bvs # NoBVs THEN LastBlock(em.e.bvs) ELSE files.bvs
    BY <1>6 DEF writeLastEmittedBlockVotes, TypeOK
  <2>4. \A e \in Event : e.bvs # NoBVs => LastBlock(e.bvs) \in Nat /\ LastBlock(e.bvs) >= e.bvs.start
                                          /\ e.bvs.start \in Nat
    BY Zenon, LastBlockType
  <2>5. /\ EvRecorded(em.e) /\ BvsAhead(em.e) /\ NoRepeatedVote /\ (\A e \in sent : Before(e, em.e))
        /\ \A e \in sent : EvRecorded(e) /\ BvsRecorded(e)
    BY <2>1 DEF VoteInv
  <2>6. files.bvs <= files'.bvs /\ files'.bvs \in Nat
        /\ (em.e.bvs # NoBVs => LastBlock(em.e.bvs) <= files'.bvs)
    BY <2>2, <2>3, <2>4, <2>5 DEF BvsAhead
  <2>7. \A e \in sent : e.bvs # NoBVs => LastBlock(e.bvs) <= files'.bvs
    <3>1. \A e \in sent : e \in Event
      BY DEF TypeOK
    <3>2. \A e \in sent : e.bvs # NoBVs => LastBlock(e.bvs) <= files.bvs /\ LastBlock(e.bvs) \in Nat
      BY Zenon, <2>4, <2>5, <3>1 DEF BvsRecorded
    <3> QED
      BY <2>3, <2>6, <3>2
  <2>8. NoRepeatedVote' /\ \A e \in sent' : EvRecorded(e)' /\ BvsRecorded(e)'
    BY Zenon, <2>1, <2>3, <2>5, <2>7 DEF NoRepeatedVote, Voted, LastBlock, EvRecorded, BvsRecorded
  <2>9. (\A e \in sent' : Before(e, em.e)') /\ EvRecorded(em.e)' /\ BvsRecorded(em.e)'
    BY ZenonT(30), <2>1, <2>2, <2>3, <2>5, <2>6 DEF Before, Voted, LastBlock, EvRecorded, BvsRecorded
  <2> QED
    BY Zenon, <2>2, <2>8, <2>9 DEF VoteInv
<1>7. CASE Broadcast
  <2>1. /\ em.pc = "broadcast" /\ em.pc \in Step /\ sent' = sent \cup {em.e} /\ files' = files
        /\ em' = Idle
    BY Zenon, <1>7 DEF Broadcast, Step
  <2>2. /\ EvRecorded(em.e) /\ BvsRecorded(em.e) /\ NoRepeatedVote
        /\ (\A e \in sent : Before(e, em.e)) /\ \A e \in sent : EvRecorded(e) /\ BvsRecorded(e)
    BY <2>1 DEF VoteInv
  <2>3. \A e \in sent' : EvRecorded(e)' /\ BvsRecorded(e)'
    BY Zenon, <2>1, <2>2 DEF EvRecorded, BvsRecorded
  <2>4. \A e, f \in sent \cup {em.e} : e # f => Before(e, f)
    <3>1. \A e, f : Before(e, f) => Before(f, e)
      BY Zenon DEF Before
    <3> QED
      BY Zenon, <2>2, <3>1 DEF NoRepeatedVote, Before
  <2>5. NoRepeatedVote'
    BY Zenon, <2>1, <2>4 DEF NoRepeatedVote, Before, Voted, LastBlock
  <2>6. em'.pc \notin Step
    BY <2>1 DEF Idle, Step
  <2> QED
    BY Zenon, <2>3, <2>5, <2>6 DEF VoteInv
<1>8. CASE UNCHANGED <<sent, files>> /\ (em' = em \/ em' = Idle \/ em' = Locked)
  <2>1. em' = em \/ em'.pc \notin Step
    BY <1>8 DEF Idle, Locked, Step
  <2> QED
    BY Zenon, <1>8, <2>1, VoteSame
<1> QED
  BY ZenonT(30), <1>1, <1>2, <1>3, <1>4, <1>5, <1>6, <1>7, <1>8
  DEF Next, vars, createEventCorrupted, ProcessFails, seedEvent, connectOwnEvent, connectOwnVotes,
      connectOthers, sealEpoch, recheckChallenges, Crash

\* No two events that EmitEvent broadcasts vote for one block or one epoch, however
\* often the process dies and whatever the database forgets.
THEOREM VotesOnce == Spec => []NoRepeatedVote
<1>1. ASSUME Init PROVE VoteInv
  BY <1>1 DEF Init, VoteInv, NoRepeatedVote, Idle, Step
<1> QED
  BY <1>1, VoteNext, TypeCorrect, PTL DEF Spec, VoteInv

-----------------------------------------------------------------------------
(* No double signing. *)

\* The events that can still reach a peer.
InProcess == IF em.pc = "process" THEN {em.e} ELSE {}
Live == net \cup db.events \cup InProcess

\* e is the first event of its epoch, or follows an event of S.
Follows(e, p) ==
    /\ p.id = e.parent /\ p.epoch = e.epoch /\ e.seq = p.seq + 1
    /\ e.protected => p.protected
Linked(e, S) ==
    /\ e.parent < e.id
    /\ IF e.parent = 0 THEN e.seq = 1 ELSE \E p \in S : Follows(e, p)
LinkedIn(S) == \A e \in S : Linked(e, S)

\* IDs identify events.
Identified(S, n) ==
    /\ \A e \in S : e.id \in 1..n
    /\ \A e, f \in S : e.id = f.id => e = f

\* Numbers do, among the events under protection.
Numbered(S) == \A e, f \in S : SameNumber(e, f) => ~(e.protected /\ f.protected)

\* The event to build on is one that no other builds on, if there is any.
LastOK(d) ==
    IF d.last = None THEN \A e \in d.events : e.epoch # d.epoch
    ELSE /\ d.last \in d.events /\ d.last.epoch = d.epoch
         /\ \A x \in d.events : x.parent # d.last.id
UpTo(d) == \A e \in d.events : e.epoch <= d.epoch

SignInv ==
    /\ Identified(Live, created) /\ Numbered(Live)
    /\ LinkedIn(net) /\ LinkedIn(db.events) /\ LinkedIn(disk.events)
    /\ UpTo(db) /\ UpTo(disk) /\ LastOK(db)
    /\ disk.events \subseteq db.events
    /\ em.pc \in Step \ {"process"} => em.e \in db.events
    /\ em.pc = "process" => /\ em.e \notin db.events /\ em.e.epoch = db.epoch
                            /\ Linked(em.e, db.events)

\* What the sets of events are after a step says whether SignInv holds.
LEMMA SignAfter ==
    ASSUME Identified(Live', created'), Numbered(Live'),
           LinkedIn(net'), LinkedIn(db'.events), LinkedIn(disk'.events),
           UpTo(db'), UpTo(disk'), LastOK(db'), disk'.events \subseteq db'.events,
           em'.pc \in Step \ {"process"} => em'.e \in db'.events,
           em'.pc = "process" => /\ em'.e \notin db'.events /\ em'.e.epoch = db'.epoch
                                 /\ Linked(em'.e, db'.events)
    PROVE  SignInv'
<1>1. Identified(Live, created)' /\ Numbered(Live)'
  BY Zenon DEF Identified, Numbered, SameNumber
<1>2. LinkedIn(net)' /\ LinkedIn(db.events)' /\ LinkedIn(disk.events)'
  BY Zenon DEF LinkedIn, Linked, Follows
<1>3. UpTo(db)' /\ UpTo(disk)' /\ LastOK(db)'
  BY Zenon DEF UpTo, LastOK
<1>4. em'.pc = "process" => Linked(em.e, db.events)'
  BY Zenon DEF Linked, Follows
<1> QED
  BY Zenon, <1>1, <1>2, <1>3, <1>4 DEF SignInv

\* Fewer events, or the same.
LEMMA FewerEvents ==
    ASSUME NEW S, NEW T, T \subseteq S, NEW n, Identified(S, n), Numbered(S)
    PROVE  Identified(T, n) /\ Numbered(T)
  BY Zenon DEF Identified, Numbered

\* A set of events with the parents in it, and one more.
LEMMA OneMore ==
    ASSUME NEW S, NEW e, LinkedIn(S), Linked(e, S)
    PROVE  LinkedIn(S \cup {e})
  BY Zenon DEF LinkedIn, Linked

\* The parent of an event is the same event in all the sets.
LEMMA SameParent ==
    ASSUME NEW n, NEW S, NEW T, NEW U, S \subseteq U, T \subseteq U, Identified(U, n),
           NEW e, Linked(e, S), e.parent = 0 \/ \E p \in T : p.id = e.parent
    PROVE  Linked(e, T)
<1>1. CASE e.parent = 0
  BY Zenon, <1>1 DEF Linked
<1>2. CASE e.parent # 0
  <2>1. PICK p \in T : p.id = e.parent
    BY Zenon, <1>2
  <2>2. PICK q \in S : Follows(e, q)
    BY Zenon, <1>2 DEF Linked
  <2>3. p = q
    BY Zenon, <2>1, <2>2 DEF Follows, Identified
  <2> QED
    BY Zenon, <1>2, <2>2, <2>3 DEF Linked
<1> QED
  BY <1>1, <1>2

\* An event that is not in S has no child in S.
LEMMA NoChild ==
    ASSUME NEW n \in Nat, NEW S, NEW U, S \subseteq U, Identified(U, n), LinkedIn(S),
           NEW e \in U, e \notin S, NEW x \in S
    PROVE  x.parent # e.id
<1> SUFFICES ASSUME x.parent = e.id PROVE FALSE
  OBVIOUS
<1>1. e.id \in 1..n
  BY Zenon DEF Identified
<1>2. e.id # 0
  BY <1>1
<1>3. PICK p \in S : Follows(x, p)
  BY Zenon, <1>2 DEF LinkedIn, Linked
<1>4. p.id = e.id
  BY Zenon, <1>3 DEF Follows
<1> QED
  BY Zenon, <1>3, <1>4 DEF Identified

\* The event that createEvent signs under protection has a number that no event
\* under protection has.
LEMMA NewNumber ==
    ASSUME TypeOK, SignInv, em = Idle, isSyncedToEmit, NEW b \in Nat, NEW ep \in Nat,
           NewEvent(b, ep).protected, NEW g \in Live, g.protected, g.epoch = db.epoch
    PROVE  g.seq # NewEvent(b, ep).seq
<1> DEFINE f == NewEvent(b, ep)
           p == db.last
<1>1. Live = net \cup db.events
  BY DEF Live, InProcess, Idle
<1>2. f.protected <=> protection > 0 /\ (p = None \/ p.protected)
  BY Zenon DEF NewEvent
<1>3. PeersHeard
  BY <1>2 DEF isSyncedToEmit
<1>4. g \in db.events
  <2>1. db.epoch \in Nat
    BY DEF TypeOK, Database
  <2>2. g.epoch >= db.epoch
    BY <2>1
  <2> QED
    BY Zenon, <1>1, <1>3, <2>2 DEF PeersHeard
<1>5. p # None /\ p \in db.events /\ p.epoch = db.epoch /\ \A x \in db.events : x.parent # p.id
  BY Zenon, <1>4 DEF SignInv, LastOK
<1>6. p.protected /\ f.seq = p.seq + 1
  <2>1. f.seq = IF p = None THEN 1 ELSE p.seq + 1
    BY SMTT(30) DEF NewEvent
  <2> QED
    BY ZenonT(30), <1>2, <1>5, <2>1
<1> HIDE DEF f, p
<1>7. g \in Event /\ p \in Event
  BY <1>4, <1>5 DEF TypeOK, Database
<1>8. g.seq \in Nat /\ p.seq \in Nat /\ g.parent \in Nat /\ p.id \in Nat
  BY <1>7 DEF Event
<1> SUFFICES ASSUME g.seq = p.seq + 1 PROVE FALSE
  BY Zenon, <1>6 DEF f
<1>9. g.parent # 0
  <2>1. CASE g.parent = 0
    <3>1. g.seq = 1
      BY Zenon, <1>4, <2>1 DEF SignInv, LinkedIn, Linked
    <3>2. p.seq = 0
      BY <1>8, <3>1
    <3>3. p.parent = 0 \/ \E q \in db.events : Follows(p, q)
      BY Zenon, <1>5 DEF SignInv, LinkedIn, Linked
    <3>4. p.parent = 0 => p.seq = 1
      BY ZenonT(30), <1>5 DEF SignInv, LinkedIn, Linked
    <3>5. \A q \in db.events : q.seq \in Nat
      BY DEF TypeOK, Database, Event
    <3>6. ~\E q \in db.events : Follows(p, q)
      BY <3>2, <3>5 DEF Follows
    <3> QED
      BY <3>2, <3>3, <3>4, <3>6
  <2> QED
    BY <2>1
<1>10. PICK q \in db.events : Follows(g, q)
  BY Zenon, <1>4, <1>9 DEF SignInv, LinkedIn, Linked
<1>11. q.id = g.parent /\ q.epoch = db.epoch /\ q.protected
  BY Zenon, <1>10 DEF Follows
<1>12. q.seq = p.seq
  <2>1. q.seq \in Nat
    BY DEF TypeOK, Database, Event
  <2> QED
    BY SMTT(30), <1>8, <1>10, <2>1 DEF Follows
<1>13. q # p
  BY ZenonT(30), <1>4, <1>5, <1>11
<1>14. q \in Live /\ p \in Live
  BY Zenon, <1>1, <1>5
<1> QED
  BY ZenonT(30), <1>5, <1>6, <1>11, <1>12, <1>13, <1>14 DEF SignInv, Numbered, SameNumber

\* Steps that leave the own events of the database alone.
LEMMA SignSame ==
    ASSUME SignInv, created' = created, db'.events = db.events, db'.epoch = db.epoch,
           db'.last = db.last, disk' \in {disk, db, db'},
           net' \subseteq net \cup db.events, LinkedIn(net'),
           em'.pc = "process" => em' = em,
           em'.pc \in Step \ {"process"} => em'.e \in db.events
    PROVE  SignInv'
<1>1. InProcess' \subseteq InProcess
  BY Zenon DEF InProcess
<1>2. Live' \subseteq Live
  BY Zenon, <1>1 DEF Live
<1>3. Identified(Live', created') /\ Numbered(Live')
  BY Zenon, <1>2, FewerEvents DEF SignInv
<1>4. LinkedIn(db'.events) /\ UpTo(db') /\ LastOK(db')
  BY Zenon DEF SignInv, UpTo, LastOK
<1>5. LinkedIn(disk'.events) /\ UpTo(disk') /\ disk'.events \subseteq db'.events
  BY Zenon, <1>4 DEF SignInv
<1>6. em'.pc = "process" => /\ em'.e \notin db'.events /\ em'.e.epoch = db'.epoch
                            /\ Linked(em'.e, db'.events)
  BY Zenon DEF SignInv
<1> QED
  BY Zenon, <1>3, <1>4, <1>5, <1>6, SignAfter

\* A peer gets an event of the database.
LEMMA NetMore ==
    ASSUME SignInv, NEW e \in db.events, Connectable(e)
    PROVE  LinkedIn(net \cup {e})
<1>1. Linked(e, db.events)
  BY Zenon DEF SignInv, LinkedIn
<1>2. Linked(e, net)
  <2>1. net \subseteq Live /\ db.events \subseteq Live
    BY Zenon DEF Live
  <2> QED
    BY Zenon, <1>1, <2>1, SameParent DEF SignInv, Connectable
<1> QED
  BY Zenon, <1>2, OneMore DEF SignInv

\* The database gets an event of its epoch.
LEMMA SignMore ==
    ASSUME TypeOK, SignInv, NEW e \in Live, e \notin db.events, e \in Event,
           e.epoch = db.epoch, Linked(e, db.events),
           db'.events = db.events \cup {e},
           \/ db'.last = e /\ db'.epoch = db.epoch
           \/ db'.last = None /\ db'.epoch = db.epoch + 1,
           created' = created, net' = net, disk' \in {disk, db'},
           em'.pc # "process", em'.pc \in Step => em'.e = e
    PROVE  SignInv'
<1>1. Live' \subseteq Live
  BY Zenon DEF Live, InProcess
<1>2. Identified(Live', created') /\ Numbered(Live')
  BY Zenon, <1>1, FewerEvents DEF SignInv
<1>3. LinkedIn(db'.events)
  <2>1. LinkedIn(db.events)
    BY Zenon DEF SignInv
  <2>2. LinkedIn(db.events \cup {e})
    BY Zenon, <2>1, OneMore
  <2> QED
    BY Zenon, <2>2
<1>4. db.epoch \in Nat /\ \A x \in db'.events : x.epoch \in Nat
  <2>1. db.epoch \in Nat /\ db.events \subseteq Event
    BY DEF TypeOK, Database
  <2>2. \A x \in Event : x.epoch \in Nat
    BY DEF Event
  <2> QED
    BY ZenonT(30), <2>1, <2>2
<1>5. \A x \in db'.events : x.epoch <= db.epoch
  BY <1>4 DEF SignInv, UpTo
<1>6. UpTo(db')
  BY <1>4, <1>5 DEF UpTo
<1>7. LastOK(db')
  <2>1. CASE db'.last = e /\ db'.epoch = db.epoch
    <3>1. e # None
      BY ZenonT(30), NoneAssumption
    <3>2. created \in Nat /\ db.events \subseteq Live
      BY DEF TypeOK, Live
    <3>3. Identified(Live, created) /\ LinkedIn(db.events)
      BY Zenon DEF SignInv
    <3>4. ASSUME NEW x \in db.events PROVE x.parent # e.id
      <4> HIDE <2>1
      <4> QED
        BY SMTT(30), <3>2, <3>3, NoChild
    <3>5. e.parent # e.id
      <4>1. e.parent \in Nat /\ e.id \in Nat /\ e.parent < e.id
        BY DEF Event, Linked
      <4> QED
        BY <4>1
    <3> QED
      BY ZenonT(30), <2>1, <3>1, <3>4, <3>5 DEF LastOK
  <2>2. CASE db'.last = None /\ db'.epoch = db.epoch + 1
    <3>1. \A x \in db'.events : x.epoch # db'.epoch
      BY <1>4, <1>5, <2>2
    <3> QED
      BY ZenonT(30), <2>2, <3>1 DEF LastOK
  <2> QED
    BY Zenon, <2>1, <2>2
<1>8. LinkedIn(disk'.events) /\ UpTo(disk') /\ disk'.events \subseteq db'.events
  BY Zenon, <1>3, <1>6 DEF SignInv
<1>9. LinkedIn(net')
  BY Zenon DEF SignInv
<1> QED
  BY ZenonT(30), <1>2, <1>3, <1>6, <1>7, <1>8, <1>9, SignAfter

\* createEvent.
LEMMA SignCreate ==
    ASSUME TypeOK, SignInv, NEW b \in Nat, NEW ep \in Nat, createEvent(b, ep)
    PROVE  SignInv'
<1> DEFINE f == NewEvent(b, ep)
<1>1. /\ em = Idle /\ isSyncedToEmit /\ created' = created + 1
      /\ UNCHANGED <<db, disk, net>>
  BY Zenon DEF createEvent
<1>2. em' = [pc |-> "process", e |-> f]
  BY Zenon DEF createEvent, NewEvent
<1>3. f \in Event
  BY ZenonT(30), NewEventType
<1>4. /\ f.id = created + 1 /\ f.epoch = db.epoch
      /\ f.seq = (IF db.last = None THEN 1 ELSE db.last.seq + 1)
      /\ f.parent = (IF db.last = None THEN 0 ELSE db.last.id)
      /\ f.protected => db.last = None \/ db.last.protected
  BY DEF NewEvent
<1>5. \A g \in Live : f.protected /\ g.protected /\ g.epoch = db.epoch => g.seq # f.seq
  BY Zenon, <1>1, NewNumber
<1> HIDE DEF f
<1>6. em'.pc = "process" /\ em'.e = f
  BY <1>2
<1>7. Live' = Live \cup {f}
  <2>1. InProcess = {}
    BY <1>1 DEF InProcess, Idle
  <2>2. InProcess' = {f}
    BY ZenonT(30), <1>6 DEF InProcess
  <2> QED
    BY Zenon, <1>1, <2>1, <2>2 DEF Live
<1>8. created \in Nat /\ \A g \in Live : g.id \in 1..created
  <2>1. created \in Nat
    BY DEF TypeOK
  <2>2. \A g \in Live : g.id \in 1..created
    BY Zenon DEF SignInv, Identified
  <2> QED
    BY Zenon, <2>1, <2>2
<1>9. \A g \in Live : g.id # f.id /\ g.id \in 1..created'
  BY SMTT(30), <1>1, <1>4, <1>8
<1>10. f.id \in 1..created'
  BY <1>1, <1>4, <1>8
<1>11. Identified(Live', created')
  BY Zenon, <1>7, <1>9, <1>10 DEF SignInv, Identified
<1>12. Numbered(Live')
  <2>1. \A g \in Live : f.epoch = g.epoch /\ f.seq = g.seq => ~(f.protected /\ g.protected)
    BY Zenon, <1>4, <1>5
  <2>2. ASSUME NEW g \in Live', NEW h \in Live', SameNumber(g, h)
        PROVE  ~(g.protected /\ h.protected)
    <3>1. g # h /\ g.epoch = h.epoch /\ g.seq = h.seq
      BY Zenon, <2>2 DEF SameNumber
    <3>2. CASE g = f
      <4>1. h \in Live
        BY Zenon, <1>7, <3>1, <3>2
      <4> QED
        BY ZenonT(30), <2>1, <3>1, <3>2, <4>1
    <3>3. CASE h = f
      <4>1. g \in Live
        BY Zenon, <1>7, <3>1, <3>3
      <4> QED
        BY Zenon, <2>1, <3>1, <3>3, <4>1
    <3>4. CASE g # f /\ h # f
      BY Zenon, <1>7, <2>2, <3>4 DEF SignInv, Numbered
    <3> QED
      BY ZenonT(30), <3>2, <3>3, <3>4
  <2> QED
    BY Zenon, <2>2 DEF Numbered
<1>13. Linked(f, db.events)
  <2>1. CASE db.last = None
    <3>1. f.parent < f.id
      BY <1>4, <1>8, <2>1
    <3> QED
      BY ZenonT(30), <1>4, <2>1, <3>1 DEF Linked
  <2>2. CASE db.last # None
    <3>1. db.last \in db.events /\ db.last.epoch = db.epoch
      BY Zenon, <2>2 DEF SignInv, LastOK
    <3>2. db.last.id \in 1..created
      BY Zenon, <1>8, <3>1 DEF Live
    <3>3. f.parent < f.id /\ f.parent # 0
      BY <1>4, <1>8, <2>2, <3>2
    <3>4. Follows(f, db.last)
      BY Zenon, <1>4, <2>2, <3>1 DEF Follows
    <3> QED
      BY Zenon, <3>1, <3>3, <3>4 DEF Linked
  <2> QED
    BY Zenon, <2>1, <2>2
<1>14. f \notin db.events
  BY Zenon, <1>9 DEF Live
<1>15. /\ LinkedIn(net') /\ LinkedIn(db'.events) /\ LinkedIn(disk'.events)
       /\ UpTo(db') /\ UpTo(disk') /\ LastOK(db') /\ disk'.events \subseteq db'.events
  BY Zenon, <1>1 DEF SignInv
<1>16. em'.pc = "process" => /\ em'.e \notin db'.events /\ em'.e.epoch = db'.epoch
                             /\ Linked(em'.e, db'.events)
  BY Zenon, <1>1, <1>4, <1>6, <1>13, <1>14
<1> QED
  BY ZenonT(30), <1>6, <1>11, <1>12, <1>15, <1>16, SignAfter

\* The epoch is sealed.
LEMMA SignSeal ==
    ASSUME TypeOK, SignInv, sealEpoch
    PROVE  SignInv'
<1>1. /\ em = Idle /\ em' = em /\ db' = Sealed(db) /\ disk' = db'
      /\ UNCHANGED <<net, created>>
  BY Zenon DEF sealEpoch
<1>2. db'.events = db.events /\ db'.last = None /\ db'.epoch = db.epoch + 1
  BY Zenon, <1>1, BlockDb DEF TypeOK
<1>3. em'.pc \notin Step
  BY <1>1 DEF Idle, Step
<1>4. "process" \in Step
  BY DEF Step
<1>5. Live' \subseteq Live
  BY Zenon, <1>1, <1>2, <1>3, <1>4 DEF Live, InProcess
<1>6. Identified(Live', created') /\ Numbered(Live')
  BY Zenon, <1>1, <1>5, FewerEvents DEF SignInv
<1>7. db.epoch \in Nat /\ \A x \in db.events : x.epoch \in Nat
  <2>1. db.epoch \in Nat /\ db.events \subseteq Event
    BY DEF TypeOK, Database
  <2>2. \A x \in Event : x.epoch \in Nat
    BY DEF Event
  <2> QED
    BY ZenonT(30), <2>1, <2>2
<1>8. \A x \in db.events : x.epoch <= db.epoch
  BY Zenon DEF SignInv, UpTo
<1>9. \A x \in db'.events : x.epoch <= db'.epoch /\ x.epoch # db'.epoch
  BY <1>2, <1>7, <1>8
<1>10. UpTo(db') /\ LastOK(db')
  BY Zenon, <1>2, <1>9 DEF UpTo, LastOK
<1>11. LinkedIn(net') /\ LinkedIn(db'.events)
  BY Zenon, <1>1, <1>2 DEF SignInv
<1> QED
  BY ZenonT(30), <1>1, <1>3, <1>4, <1>6, <1>10, <1>11, SignAfter

\* Without a tip there is no event of the epoch.
LEMMA NoTip ==
    ASSUME NEW d \in Database, NEW n \in Nat, \A e \in d.events : e.id \in 1..n,
           LinkedIn(d.events), Tips(d) = {}
    PROVE  \A e \in d.events : e.epoch # d.epoch
<1> SUFFICES ASSUME NEW a \in d.events, a.epoch = d.epoch PROVE FALSE
  OBVIOUS
<1> DEFINE S == {e \in d.events : e.epoch = d.epoch}
           I == {e.id : e \in S}
<1>1. I # {} /\ I \in SUBSET Nat /\ \A i \in I : i <= n
  <2>1. a.id \in I
    BY Zenon
  <2>2. \A i \in I : i \in 1..n
    BY Zenon
  <2> HIDE DEF I
  <2> QED
    BY <2>1, <2>2
<1>2. Max(I) \in I /\ \A i \in I : i <= Max(I)
  BY Zenon, <1>1, MaxOfNaturals
<1>3. PICK e \in S : e.id = Max(I)
  BY Zenon, <1>2
<1>4. e \notin Tips(d)
  BY Zenon
<1>5. PICK x \in S : x.parent = e.id
  BY Zenon, <1>4 DEF Tips
<1>6. x.id <= e.id
  BY Zenon, <1>2, <1>3
<1>7. x.parent < x.id /\ x.id \in 1..n /\ e.id \in 1..n
  BY Zenon DEF LinkedIn, Linked
<1> QED
  BY <1>5, <1>6, <1>7

\* The process dies and starts again with what is on disk.
LEMMA SignCrash ==
    ASSUME TypeOK, SignInv, Crash
    PROVE  SignInv'
<1>1. em' = Idle /\ UNCHANGED <<disk, net, created>>
  BY Zenon DEF Crash
<1>2. /\ db'.events = disk.events /\ db'.epoch = disk.epoch
      /\ db'.last \in IF Tips(disk) = {} THEN {None} ELSE Tips(disk)
  BY Zenon, CrashDb
<1>3. em'.pc \notin Step
  BY <1>1 DEF Idle, Step
<1>4. "process" \in Step
  BY DEF Step
<1>5. /\ disk.events \subseteq db.events /\ LinkedIn(disk.events) /\ UpTo(disk) /\ LinkedIn(net)
      /\ Identified(Live, created) /\ Numbered(Live)
  BY Zenon DEF SignInv
<1>6. Live' \subseteq Live
  BY ZenonT(30), <1>1, <1>2, <1>3, <1>4, <1>5 DEF Live, InProcess
<1>7. Identified(Live', created') /\ Numbered(Live')
  BY ZenonT(30), <1>1, <1>5, <1>6, FewerEvents
<1>8. UpTo(db') /\ LinkedIn(db'.events)
  BY Zenon, <1>2, <1>5 DEF UpTo
<1>9. LastOK(db')
  <2>1. disk \in Database /\ created \in Nat
    BY DEF TypeOK
  <2>2. CASE Tips(disk) = {}
    <3>1. \A e \in disk.events : e.id \in 1..created
      BY Zenon, <1>5 DEF Identified, Live
    <3>2. \A e \in disk.events : e.epoch # disk.epoch
      BY ZenonT(30), <1>5, <2>1, <2>2, <3>1, NoTip
    <3> QED
      BY Zenon, <1>2, <2>2, <3>2 DEF LastOK
  <2>3. CASE Tips(disk) # {}
    <3>1. db'.last \in Tips(disk)
      BY Zenon, <1>2, <2>3
    <3>2. /\ db'.last \in disk.events /\ db'.last.epoch = disk.epoch
          /\ \A x \in disk.events : x.epoch = disk.epoch => x.parent # db'.last.id
      BY Zenon, <3>1 DEF Tips
    <3>3. db'.last # None
      BY Zenon, <2>1, <3>2, NoneAssumption DEF Database
    <3>4. ASSUME NEW x \in disk.events, x.parent = db'.last.id PROVE FALSE
      <4>1. db'.last.id \in 1..created
        BY Zenon, <1>5, <3>2 DEF Identified, Live
      <4>2. x.parent # 0
        BY <2>1, <3>4, <4>1
      <4>3. PICK p \in disk.events : Follows(x, p)
        BY Zenon, <1>5, <4>2 DEF LinkedIn, Linked
      <4>4. p = db'.last
        BY ZenonT(30), <1>5, <3>2, <3>4, <4>3 DEF Identified, Live, Follows
      <4> QED
        BY ZenonT(30), <3>2, <3>4, <4>3, <4>4 DEF Follows
    <3> QED
      BY Zenon, <1>2, <3>2, <3>3, <3>4 DEF LastOK
  <2> QED
    BY Zenon, <2>2, <2>3
<1> QED
  BY ZenonT(30), <1>1, <1>2, <1>3, <1>4, <1>5, <1>7, <1>8, <1>9, SignAfter

\* Every step keeps it.
LEMMA SignNext ==
    ASSUME TypeOK, SignInv, [Next]_vars
    PROVE  SignInv'
<1>1. ASSUME NEW b \in 1..(Len(db.blocks) + 1), NEW ep \in 1..(db.epoch + 1), createEvent(b, ep)
      PROVE  SignInv'
  <2>1. b \in Nat /\ ep \in Nat
    BY DEF TypeOK, Database
  <2> QED
    BY ZenonT(30), <1>1, <2>1, SignCreate
<1>2. CASE Process
  <2>1. /\ em.pc = "process" /\ em.e \in Event
        /\ db'.events = db.events \cup {em.e}
        /\ \/ db'.last = em.e /\ db'.epoch = db.epoch
           \/ db'.last = None /\ db'.epoch = db.epoch + 1
        /\ em' \in [pc : {"commit", "file"}, e : {em.e}]
        /\ disk' = disk /\ net' = net /\ created' = created
    BY ZenonT(30), <1>2, ProcessDb
  <2>2. em'.pc # "process" /\ em'.e = em.e
    BY <2>1
  <2>3. em.e \in Live
    BY Zenon, <2>1 DEF Live, InProcess
  <2>4. em.e \notin db.events /\ em.e.epoch = db.epoch /\ Linked(em.e, db.events)
    BY Zenon, <2>1 DEF SignInv
  <2> QED
    BY ZenonT(30), <2>1, <2>2, <2>3, <2>4, SignMore
<1>3. ASSUME NEW e \in net, connectOwnEvent(e) PROVE SignInv'
  <2>1. /\ em = Idle /\ em' = em /\ e \notin db.events /\ e.epoch = db.epoch
        /\ e.parent = 0 \/ \E p \in db.events : p.id = e.parent
        /\ disk' \in {disk, db'} /\ net' = net /\ created' = created
    BY Zenon, <1>3 DEF connectOwnEvent, mayCommit
  <2>2. /\ e \in Event /\ db'.events = db.events \cup {e}
        /\ db'.last = e /\ db'.epoch = db.epoch
    BY Zenon, <1>3, OwnEventDb
  <2>3. em'.pc # "process" /\ em'.pc \notin Step
    BY <2>1 DEF Idle, Step
  <2>4. net \subseteq Live /\ db.events \subseteq Live /\ Identified(Live, created) /\ Linked(e, net)
    BY Zenon DEF Live, SignInv, LinkedIn
  <2>5. Linked(e, db.events)
    BY Zenon, <2>1, <2>4, SameParent
  <2> QED
    BY ZenonT(30), <2>1, <2>2, <2>3, <2>4, <2>5, SignMore
<1>4. CASE sealEpoch
  BY Zenon, <1>4, SignSeal
<1>5. CASE Crash
  BY Zenon, <1>5, SignCrash
<1>6. CASE Broadcast
  <2>1. /\ em.pc = "broadcast" /\ em' = Idle /\ UNCHANGED <<db, disk, created>>
        /\ net' = net \/ (Connectable(em.e) /\ net' = net \cup {em.e})
    BY Zenon, <1>6 DEF Broadcast
  <2>2. em.pc \in Step \ {"process"} /\ em'.pc \notin Step /\ em'.pc # "process"
    BY <2>1 DEF Idle, Step
  <2>3. em.e \in db.events
    BY Zenon, <2>2 DEF SignInv
  <2>4. LinkedIn(net')
    BY Zenon, <2>1, <2>3, NetMore DEF SignInv
  <2> QED
    BY ZenonT(30), <2>1, <2>2, <2>3, <2>4, SignSame
<1>7. ASSUME NEW e \in db.events, seedEvent(e) PROVE SignInv'
  <2>1. /\ Connectable(e) /\ net' = net \cup {e} /\ UNCHANGED <<db, disk, created, em>>
    BY Zenon, <1>7 DEF seedEvent
  <2>2. LinkedIn(net')
    BY Zenon, <2>1, NetMore
  <2>3. em'.pc \in Step \ {"process"} => em'.e \in db.events
    BY Zenon, <2>1 DEF SignInv
  <2> QED
    BY Zenon, <2>1, <2>2, <2>3, SignSame
\* The other steps of EmitEvent.
<1>8. CASE commitEmitted \/ writeLastEmittedEventID \/ writeLastEmittedEpochVote
           \/ writeLastEmittedBlockVotes
  <2>1. /\ em.pc \in {"commit", "file", "evFile", "bvsFile"} /\ UNCHANGED <<db, created, net>>
        /\ disk' \in {disk, db}
        /\ \E p \in {"file", "evFile", "bvsFile", "broadcast"} : em' = [em EXCEPT !.pc = p]
    BY Zenon, <1>8 DEF commitEmitted, writeLastEmittedEventID, writeLastEmittedEpochVote,
                       writeLastEmittedBlockVotes
  <2>2. PICK p \in {"file", "evFile", "bvsFile", "broadcast"} : em' = [em EXCEPT !.pc = p]
    BY Zenon, <2>1
  <2>3. em.pc \in Step \ {"process"} /\ p \in Step /\ p # "process"
    BY <2>1 DEF Step
  <2>4. em'.pc = p /\ em'.e = em.e
    BY ZenonT(30), <2>2, <2>3, InHand
  <2>5. em.e \in db.events /\ LinkedIn(net)
    BY Zenon, <2>3 DEF SignInv
  <2> QED
    BY ZenonT(30), <2>1, <2>3, <2>4, <2>5, SignSame
\* The steps that leave the own events alone.
<1>9. CASE UNCHANGED <<created, net>> /\ (em' = em \/ em' = Idle \/ em' = Locked)
           /\ disk' \in {disk, db'} /\ db'.events = db.events /\ db'.epoch = db.epoch
           /\ db'.last = db.last
  <2>1. Idle.pc \notin Step /\ Locked.pc \notin Step /\ "process" \in Step
    BY DEF Idle, Locked, Step
  <2>2. /\ em'.pc = "process" => em' = em
        /\ em'.pc \in Step \ {"process"} => em'.e \in db.events
    BY Zenon, <1>9, <2>1 DEF SignInv
  <2>3. LinkedIn(net') /\ net' \subseteq net \cup db.events
    BY Zenon, <1>9 DEF SignInv
  <2> QED
    BY ZenonT(30), <1>9, <2>2, <2>3, SignSame
<1>10. ASSUME NEW e \in net, connectOwnVotes(e) PROVE SignInv'
  BY Zenon, <1>9, <1>10, OwnVotesDb DEF connectOwnVotes, mayCommit
<1>11. CASE connectOthers
  BY ZenonT(30), <1>9, <1>11, BlockDb DEF connectOthers, mayCommit, TypeOK
<1>12. CASE createEventCorrupted \/ ProcessFails \/ recheckChallenges \/ UNCHANGED vars
  BY Zenon, <1>9, <1>12 DEF createEventCorrupted, ProcessFails, recheckChallenges, vars
<1> QED
  BY ZenonT(30), <1>1, <1>2, <1>3, <1>4, <1>5, <1>6, <1>7, <1>8, <1>10, <1>11, <1>12 DEF Next

LEMMA SignInvariant == Spec => []SignInv
<1>1. ASSUME Init PROVE SignInv
  <2>1. Genesis.events = {} /\ Genesis.last = None
    BY DEF Genesis
  <2>2. Idle.pc \notin Step /\ "process" \in Step
    BY DEF Idle, Step
  <2>3. Live = {}
    BY Zenon, <1>1, <2>1, <2>2 DEF Init, Live, InProcess
  <2> QED
    BY ZenonT(30), <1>1, <2>1, <2>2, <2>3 DEF Init, SignInv, Identified, Numbered, LinkedIn, UpTo, LastOK
<1> QED
  BY <1>1, SignNext, TypeCorrect, PTL DEF Spec

\* The peers never get two events of the validator with one epoch and one number
\* when both were signed, with the events they build on, under the protection
\* period, for any number of crashes: what isSyncedToEmit waits for is enough.
THEOREM DoubleSignProtected == Spec => []DoubleSignOnlyUnprotected
<1>1. SignInv => DoubleSignOnlyUnprotected
  BY Zenon DEF SignInv, Numbered, Live, DoubleSignOnlyUnprotected
<1> QED
  BY <1>1, SignInvariant, PTL

\* With the network started the protection period is never relaxed.
ProtectedInv == protection > 0 /\ \A e \in Live : e.protected

LEMMA ProtectedNext ==
    ASSUME ~NetworkStart, DoublesignProtection > 0, TypeOK, SignInv, ProtectedInv, [Next]_vars
    PROVE  ProtectedInv'
<1>1. \A p : recount(p) = p
  BY Zenon DEF recount
<1>2. protection' > 0
  <2>1. protection' = protection \/ protection' = DoublesignProtection
    BY ZenonT(30), <1>1 DEF Next, vars, createEvent, createEventCorrupted, Process, ProcessFails,
       commitEmitted, writeLastEmittedEventID, writeLastEmittedEpochVote, writeLastEmittedBlockVotes,
       Broadcast, seedEvent, connectOwnEvent, connectOwnVotes, connectOthers, sealEpoch,
       recheckChallenges, Crash
  <2> QED
    BY Zenon, <2>1 DEF ProtectedInv
<1>3. ASSUME NEW b \in 1..(Len(db.blocks) + 1), NEW ep \in 1..(db.epoch + 1), createEvent(b, ep)
      PROVE  Live' \subseteq Live \cup {em'.e} /\ em'.e.protected
  <2>1. em' = [pc |-> "process", e |-> NewEvent(b, ep)] /\ UNCHANGED <<db, net>>
    BY Zenon, <1>3 DEF createEvent, NewEvent
  <2>2. Live' \subseteq Live \cup {em'.e}
    BY ZenonT(30), <2>1 DEF Live, InProcess
  <2>3. em'.e.protected <=> protection > 0 /\ (db.last = None \/ db.last.protected)
    BY <2>1 DEF NewEvent
  <2>4. db.last # None => db.last \in Live
    BY Zenon DEF SignInv, LastOK, Live
  <2> QED
    BY Zenon, <2>2, <2>3, <2>4 DEF ProtectedInv
<1>4. ASSUME db'.events \subseteq Live, net' \subseteq Live,
             em' = em \/ em'.pc # "process"
      PROVE  Live' \subseteq Live
  BY Zenon, <1>4 DEF Live, InProcess
<1>5. Idle.pc # "process" /\ Locked.pc # "process"
  BY DEF Idle, Locked
<1>6. CASE Process
  <2>1. /\ em.pc = "process" /\ net' = net /\ db'.events = db.events \cup {em.e}
        /\ em' \in [pc : {"commit", "file"}, e : {em.e}]
    BY ZenonT(30), <1>6, ProcessDb
  <2>2. em'.pc # "process"
    BY <2>1
  <2> QED
    BY Zenon, <1>2, <1>4, <2>1, <2>2 DEF Live, InProcess, ProtectedInv
<1>7. ASSUME NEW e \in net, connectOwnEvent(e) PROVE Live' \subseteq Live
  BY ZenonT(30), <1>4, <1>7, OwnEventDb DEF connectOwnEvent, Live
<1>8. ASSUME NEW e \in net, connectOwnVotes(e) PROVE Live' \subseteq Live
  BY Zenon, <1>4, <1>8, OwnVotesDb DEF connectOwnVotes, Live
<1>9. CASE connectOthers \/ sealEpoch
  <2>1. db'.events = db.events /\ UNCHANGED <<net, em>>
    BY Zenon, <1>9, BlockDb DEF connectOthers, sealEpoch, TypeOK
  <2> QED
    BY Zenon, <1>2, <1>4, <2>1 DEF Live, ProtectedInv
<1>10. CASE Crash
  <2>1. db'.events \subseteq db.events /\ net' = net /\ em' = Idle
    BY Zenon, <1>10, CrashDb DEF Crash, SignInv
  <2> QED
    BY ZenonT(30), <1>2, <1>4, <1>5, <2>1 DEF Live, ProtectedInv
<1>11. CASE Broadcast
  <2>1. em.pc = "broadcast" /\ em' = Idle /\ db' = db /\ net' \subseteq net \cup {em.e}
    BY Zenon, <1>11 DEF Broadcast
  <2>2. em.pc \in Step \ {"process"}
    BY <2>1 DEF Step
  <2>3. em.e \in db.events
    BY Zenon, <2>2 DEF SignInv
  <2> QED
    BY ZenonT(30), <1>2, <1>4, <1>5, <2>1, <2>3 DEF Live, ProtectedInv
<1>12. ASSUME NEW e \in db.events, seedEvent(e) PROVE Live' \subseteq Live
  BY Zenon, <1>4, <1>12 DEF seedEvent, Live
<1>13. CASE commitEmitted \/ writeLastEmittedEventID \/ writeLastEmittedEpochVote
            \/ writeLastEmittedBlockVotes
  <2>1. /\ UNCHANGED <<db, net>> /\ em.pc \in {"commit", "file", "evFile", "bvsFile"}
        /\ \E p \in {"file", "evFile", "bvsFile", "broadcast"} : em' = [em EXCEPT !.pc = p]
    BY Zenon, <1>13 DEF commitEmitted, writeLastEmittedEventID, writeLastEmittedEpochVote,
                        writeLastEmittedBlockVotes
  <2>2. PICK p \in {"file", "evFile", "bvsFile", "broadcast"} : em' = [em EXCEPT !.pc = p]
    BY Zenon, <2>1
  <2>3. em.pc \in Step /\ p \in Step /\ p # "process"
    BY <2>1 DEF Step
  <2>4. em'.pc # "process"
    BY Zenon, <2>2, <2>3, InHand
  <2> QED
    BY ZenonT(30), <1>2, <1>4, <2>1, <2>4 DEF Live, ProtectedInv
<1>14. CASE createEventCorrupted \/ ProcessFails \/ recheckChallenges \/ UNCHANGED vars
  <2>1. UNCHANGED <<db, net>> /\ (em' = em \/ em' = Idle \/ em' = Locked)
    BY Zenon, <1>14 DEF createEventCorrupted, ProcessFails, recheckChallenges, vars
  <2> QED
    BY ZenonT(30), <1>2, <1>4, <1>5, <2>1 DEF Live, ProtectedInv
<1>15. ASSUME Live' \subseteq Live PROVE ProtectedInv'
  BY Zenon, <1>2, <1>15 DEF ProtectedInv
<1>16. ASSUME Live' \subseteq Live \cup {em'.e}, em'.e.protected PROVE ProtectedInv'
  BY Zenon, <1>2, <1>16 DEF ProtectedInv
<1> QED
  BY ZenonT(30), <1>3, <1>6, <1>7, <1>8, <1>9, <1>10, <1>11, <1>12, <1>13, <1>14, <1>15, <1>16 DEF Next

\* Once the network has started, where recountValidators leaves the protection period alone,
\* the peers never get two events of the validator with one epoch and one number.
THEOREM StartedNeverDoubleSigns ==
    ASSUME ~NetworkStart, DoublesignProtection > 0
    PROVE  Spec => []NoDoubleSign
<1>1. ASSUME Init PROVE ProtectedInv
  <2>1. protection = DoublesignProtection
    BY Zenon, <1>1 DEF Init, recount
  <2>2. Genesis.events = {} /\ Idle.pc # "process"
    BY DEF Genesis, Idle
  <2> QED
    BY Zenon, <1>1, <2>1, <2>2 DEF Init, ProtectedInv, Live, InProcess
<1>2. TypeOK /\ SignInv /\ ProtectedInv /\ [Next]_vars => ProtectedInv'
  BY Zenon, ProtectedNext
<1>3. SignInv /\ ProtectedInv => NoDoubleSign
  BY Zenon DEF SignInv, Numbered, ProtectedInv, Live, NoDoubleSign
<1> QED
  BY <1>1, <1>2, <1>3, SignInvariant, TypeCorrect, PTL DEF Spec
=============================================================================
