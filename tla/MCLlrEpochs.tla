---------------------------- MODULE MCLlrEpochs ----------------------------
(* Instances of LlrEpochs.  The group changes with every epoch: each has    *)
(* three validators of weight 1, one of them, f, voting for another record. *)
EXTENDS LlrEpochs

CONSTANTS a, b, c, f

\* A record names its epoch, its group and its upgrades.
own == << [n |-> 1, group |-> {a, b, f}, upgrades |-> {}],
          [n |-> 2, group |-> {b, c, f}, upgrades |-> {"Berlin"}],
          [n |-> 3, group |-> {a, c, f}, upgrades |-> {"Berlin", "London"}],
          [n |-> 4, group |-> {a, b, f}, upgrades |-> {"Berlin", "London"}] >>
forged(n) == [n |-> n, group |-> {f}, upgrades |-> {}]

MCOwn == [n \in Epoch |-> own[n]]
MCRecord == {own[n] : n \in Epoch} \cup {forged(n) : n \in Epoch \ {1}}
MCGroup == [r \in MCRecord |-> r.group]
MCW == [r \in MCRecord |-> [S \in SUBSET r.group |-> Cardinality(S)]]
MCUpgrades == [r \in MCRecord |-> r.upgrades]

vote(n, v) == [epoch |-> n, creator |-> v,
               vote |-> IF v = f THEN forged(n) ELSE own[n]]
votes(n) == <<vote(n, f), vote(n, b), vote(n, IF n = 3 THEN c ELSE a)>>
votes4 == <<vote(4, f), vote(4, a), vote(4, c)>>
packVotes(n) == IF n = 4 THEN votes4 ELSE votes(n)

MCEVs == UNION {{packVotes(n)[i] : i \in 1..3} : n \in Epoch \ {1}}
MCPacks == {[idx |-> n, votes |-> packVotes(n), record |-> r] :
                n \in Epoch \ {1}, r \in MCRecord}
MCOwnPacks == {p \in MCPacks : p.record = own[p.idx]}
\* The honest votes of a pack are not enough: others come with events.
MCShortPacks == {[idx |-> n, votes |-> SubSeq(packVotes(n), 1, 2), record |-> r] :
                     n \in {2}, r \in {own[2], forged(2)}} \cup
                {[idx |-> n, votes |-> SubSeq(packVotes(n), 2, 2), record |-> own[n]] :
                     n \in Epoch \ {1, 2}}
MCHonestPacks == {[p EXCEPT !.votes = Tail(@)] : p \in MCOwnPacks}

\* The bound the chain of trust rests on holds of these votes.
ASSUME VotesBounded == FaultyBound

\* Later epochs only add upgrades.
ASSUME UpgradesAdded == UpgradesGrow
============================================================================
