------------------------------ MODULE AnalysisNodes ------------------------------
(* The nodes of the analyses of a map, as the builder keeps them in            *)
(* analysis-definition-nodes-collection.js: each node has an id made of the    *)
(* letter of a layer and a sequence number, and reads at most two other nodes. *)
(* A collection is a function from ids to nodes; a source that is not in its   *)
(* domain is what collection.get answers undefined for.                        *)
EXTENDS Integers, Sequences, FiniteSets, SequencesExt, TLC

CONSTANTS MaxLetter,    \* letters a, b, c... are 1..MaxLetter
          Tables,       \* tables, and queries on them
          NoNode        \* an absent source

\* Ids like b2 are <<2, 2>>; a table read directly has its name, which is the letter of no layer.
TableId(table) == <<0, table>>

Id(letter, sequence) == <<letter, sequence>>
Letter(id) == id[1]
Sequence(id) == id[2]

NextId(id) == Id(Letter(id), Sequence(id) + 1)
PrevId(id) == Id(Letter(id), IF Sequence(id) > 0 THEN Sequence(id) - 1 ELSE 0)
ChangeLetter(id, letter) == Id(letter, Sequence(id))

\* Mutant: counts the letters instead of looking for a free one.
NextLetterByCount(taken) == Cardinality(taken) + 1

\* The first letter that is not taken.
NextLetter(taken) ==
    CHOOSE l \in 1..(MaxLetter + 1) : l \notin taken /\ \A k \in 1..(l - 1) : k \in taken

---------------------------------------------------------------------------------
SourceNode(table) == [what |-> table, prim |-> NoNode, sec |-> NoNode]
IsSourceType(g, id) == g[id].what \in Tables

SourceIds(g, id) == {g[id].prim, g[id].sec}
Sources(g, id) == SourceIds(g, id) \cap DOMAIN g
HasPrimarySource(g, id) == id \in DOMAIN g /\ g[id].prim \in DOMAIN g

\* Everything the node is made of, itself included: what containsNode answers true for.
Contained(g, id) ==
    LET within[n \in 0..Cardinality(DOMAIN g)] ==
          IF n = 0 THEN {id} \cap DOMAIN g
          ELSE LET above == within[n - 1]
               IN above \cup UNION {Sources(g, i) : i \in above}
    IN within[Cardinality(DOMAIN g)]

\* The node and the nodes of its letter below it, one the primary source of the other.
LinkedListBySameLetter(g, id) ==
    LET chain[n \in 0..Cardinality(DOMAIN g)] ==
          IF n = 0 THEN <<id>>
          ELSE LET list == chain[n - 1]
                   prim == g[Last(list)].prim
               IN IF prim \in DOMAIN g /\ Letter(prim) = Letter(id)
                  THEN Append(list, prim) ELSE list
    IN chain[Cardinality(DOMAIN g)]

\* A collection without the models that a handler rejects: those at the positions kept.
Kept(list, positions) ==
    LET kept[n \in 0..Len(list)] ==
          IF n = 0 THEN <<>>
          ELSE IF n \in positions THEN Append(kept[n - 1], list[n]) ELSE kept[n - 1]
    IN kept[Len(list)]

\* collection.add without merge: a node that is there stays as it is.
AddNode(g, id, node) ==
    [i \in DOMAIN g \cup {id} |-> IF i \in DOMAIN g THEN g[i] ELSE node]

RemoveNodes(g, ids) == [i \in DOMAIN g \ ids |-> g[i]]

\* Mutant: second sources do not follow.
ChangePrimarySourceIds(g, old, new) ==
    [i \in DOMAIN g |-> [g[i] EXCEPT !.prim = IF @ = old THEN new ELSE @]]

ChangeSourceIds(g, old, new) ==
    LET to(s) == IF s = old THEN new ELSE s
    IN [i \in DOMAIN g |-> [g[i] EXCEPT !.prim = to(@), !.sec = to(@)]]

\* node.set('id', new), and whoever reads the node follows it.
RenameNode(g, old, new) ==
    LET renamed == [i \in (DOMAIN g \ {old}) \cup {new} |-> IF i = new THEN g[old] ELSE g[i]]
    IN ChangeSourceIds(renamed, old, new)

\* What a node computes, whatever the ids of the nodes it is made of.
Meaning(g, id) ==
    LET means[n \in 0..(Cardinality(DOMAIN g) + 1)] ==
          [i \in DOMAIN g \cup {NoNode, id} |->
              IF n = 0 \/ i \notin DOMAIN g THEN NoNode
              ELSE [what |-> g[i].what,
                    prim |-> IF g[i].prim \in DOMAIN g THEN means[n - 1][g[i].prim] ELSE NoNode,
                    sec |-> IF g[i].sec \in DOMAIN g THEN means[n - 1][g[i].sec] ELSE NoNode]]
    IN means[Cardinality(DOMAIN g)][id]
=================================================================================
