------------------------------- MODULE UserActions -------------------------------
(* What the user of the builder does to the layers of a map and to the         *)
(* analyses and widgets on them: builder/data/user-actions.js, with the        *)
(* collections of layers and of analyses that it changes. An action is what a  *)
(* user does, up to the first request whose answer it waits for; the answer is *)
(* an action of its own.                                                       *)
EXTENDS AnalysisNodes

CONSTANTS Layers,       \* ids of layers
          Widgets,      \* widgets
          Kinds,        \* analyses, with their parameters
          MaxLayers,    \* limits.max_layers
          MaxSequence,  \* bound: the longest list of nodes of one letter
          MaxNodes      \* bound: nodes of a map, when one is added

ASSUME UserActionsAssumption ==
    /\ MaxLayers \in Nat \ {0} /\ MaxLetter \in Nat /\ MaxLetter > MaxLayers
    /\ MaxSequence \in Nat /\ MaxNodes \in Nat /\ Layers # {}
    /\ Tables \cap Kinds = {} /\ NoNode \notin Tables \cup Kinds
    /\ NoNode \notin ((1..MaxLetter) \X Nat) \cup ({0} \X Tables)

VARIABLES nodes,        \* analysisDefinitionNodesCollection
          layers,       \* layerDefinitionsCollection: the data layers, lowest first
          analyses,     \* analysisDefinitionsCollection: the head of each
          widgets,      \* widgetDefinitionsCollection: the node that each reads
          requests      \* requests whose answer has something to do

vars == <<nodes, layers, analyses, widgets, requests>>

Layer(lid, letter, source) == [lid |-> lid, letter |-> letter, source |-> source]
Positions == DOMAIN layers

TakenLetters == {layers[p].letter : p \in Positions}
FreeLayers == Layers \ ({layers[p].lid : p \in Positions} \cup {r.lid : r \in requests})

---------------------------------------------------------------------------------
(* The collections, as functions of their contents. *)

Owns(layer, id) == layer.letter = Letter(id)

Owners(ls, id) == {p \in DOMAIN ls : Owns(ls[p], id)}
FindOwner(ls, id) == Min(Owners(ls, id))

OwnedPrimaryNodes(g, layer) ==
    IF layer.source \in DOMAIN g /\ Owns(layer, layer.source)
    THEN LinkedListBySameLetter(g, layer.source) ELSE <<>>

LayerContains(g, layer, id) == id \in Contained(g, layer.source)

\* The primary source of the last node of its letter: what is below the layer's own nodes.
BelowOwn(g, layer) == g[Last(LinkedListBySameLetter(g, layer.source))].prim

\* Layers that a node can be folded under, those in excluded apart.
ParentLayers(g, ls, id, excluded) ==
    {p \in DOMAIN ls : /\ ls[p].lid \notin excluded
                       /\ Owners(ls, id) # {} => p # FindOwner(ls, id)
                       /\ ls[p].source \in DOMAIN g
                       /\ \/ ls[p].source = id
                          \/ BelowOwn(g, ls[p]) = id}

AnalysesForLayer(as, layer) == {k \in DOMAIN as : Letter(as[k]) = layer.letter}

\* Mutant: a new analysis each time.
SaveNewAnalysis(g, as, layer) ==
    IF layer.source \in DOMAIN g /\ Owns(layer, layer.source)
    THEN Append(as, layer.source) ELSE as

\* saveAnalysisForLayer: the layer's analysis follows its source, or goes when the source is another layer's.
SaveAnalysis(g, as, layer) ==
    LET found == AnalysesForLayer(as, layer)
        first == Min(found)
        owner == layer.source \in DOMAIN g /\ Owns(layer, layer.source)
    IN CASE owner /\ found # {} -> [as EXCEPT ![first] = layer.source]
         [] owner /\ found = {} -> Append(as, layer.source)
         [] ~owner /\ found # {} -> RemoveAt(as, first)
         [] OTHER -> as

\* deleteOrphanedAnalyses: nodes in no layer go, and analyses without their head.
Unorphaned(g, ls) ==
    LET used == UNION {Contained(g, ls[p].source) : p \in DOMAIN ls}
    IN RemoveNodes(g, DOMAIN g \ used)

WithHead(g, as) == Kept(as, {k \in DOMAIN as : as[k] \in DOMAIN g})

\* What the three collections are after an action that ends with deleteOrphanedAnalyses.
EndWithout(g, ls, as) ==
    /\ nodes' = Unorphaned(g, ls)
    /\ layers' = ls
    /\ analyses' = WithHead(Unorphaned(g, ls), as)

---------------------------------------------------------------------------------
(* A map with one layer on a table, opened for the first time or not. *)
UserActionsInit ==
    \E t \in Tables :
        /\ nodes = [i \in {Id(1, 0)} |-> SourceNode(t)]
        /\ layers = <<Layer(CHOOSE l \in Layers : TRUE, 1, Id(1, 0))>>
        /\ analyses \in {<<>>, <<Id(1, 0)>>}
        /\ widgets = <<>>
        /\ requests = {}

(* Analyses of a layer: added on top of its source, edited and deleted through *)
(* the forms of its own nodes, or of its source when that is another layer's.  *)

\* Mutant: always the first id of the letter.
FormIdFirst(layer) == Id(layer.letter, 1)

FormId(layer) ==
    IF Owns(layer, layer.source) THEN NextId(layer.source) ELSE Id(layer.letter, 1)

FormNodes(p) ==
    {i \in {layers[p].source} \cup ToSet(OwnedPrimaryNodes(nodes, layers[p])) :
        HasPrimarySource(nodes, i)}

\* Second sources that a form offers: nodes of some layer, but for the head of this one, and tables.
SourceOptions(p) ==
    {i \in DOMAIN nodes : Owners(layers, i) # {} /\ i # layers[p].source}
        \cup {TableId(t) : t \in Tables}

WithTable(g, id) ==
    IF Letter(id) = 0 THEN AddNode(g, id, SourceNode(id[2])) ELSE g

CreateAnalysisNode(p, kind, sec) ==
    LET id == FormId(layers[p])
        chosen == IF sec = NoNode THEN nodes ELSE WithTable(nodes, sec)
        g == AddNode(chosen, id, [what |-> kind, prim |-> layers[p].source, sec |-> sec])
    IN /\ layers[p].source \in DOMAIN nodes
       /\ layers' = [layers EXCEPT ![p].source = id]
       /\ Sequence(id) <= MaxSequence /\ Cardinality(DOMAIN g) <= MaxNodes
       /\ sec # NoNode => sec \in SourceOptions(p)
       /\ nodes' = g
       /\ analyses' = SaveAnalysis(g, analyses, layers'[p])
       /\ UNCHANGED <<widgets, requests>>

\* saveAnalysis of a node that exists: another second source.
EditAnalysisNode(p, i, sec) ==
    LET g == [WithTable(nodes, sec) EXCEPT ![i].sec = sec]
    IN /\ nodes[i].sec \notin {NoNode, sec} /\ sec # NoNode
       /\ i \in FormNodes(p) /\ Owners(layers, i) # {}
       /\ Cardinality(DOMAIN g) <= MaxNodes
       /\ sec \in SourceOptions(p)
       /\ nodes' = g
       /\ analyses' = SaveAnalysis(g, analyses, layers[FindOwner(layers, i)])
       /\ UNCHANGED <<layers, widgets, requests>>

SaveAnalysisSourceQuery(p, table) ==
    LET id == layers[p].source
    IN /\ id \in DOMAIN nodes /\ IsSourceType(nodes, id)
       /\ nodes[id].what # table
       /\ nodes' = [nodes EXCEPT ![id].what = table]
       /\ analyses' = SaveAnalysis(nodes', analyses, layers[p])
       /\ UNCHANGED <<layers, widgets, requests>>

DeleteAnalysisNode(p, i) ==
    LET owner == FindOwner(layers, i)
        destroyed == {j \in DOMAIN nodes : i \in Contained(nodes, j)}
        g == RemoveNodes(nodes, destroyed)
        folded == [layers EXCEPT ![owner].source = nodes[i].prim]
        ls == Kept(folded, {q \in Positions : q = owner \/ folded[q].source \notin destroyed})
        as == Kept(analyses, {k \in DOMAIN analyses : analyses[k] \notin destroyed})
    IN /\ i \in FormNodes(p)
       /\ Owners(layers, i) # {}
       /\ EndWithout(g, ls, SaveAnalysis(g, as, folded[owner]))
       /\ widgets' = [w \in {v \in DOMAIN widgets : widgets[v] \notin destroyed} |-> widgets[w]]
       /\ UNCHANGED requests

---------------------------------------------------------------------------------
(* Layers. *)

SaveLayer(p) ==
    /\ EndWithout(nodes, layers, SaveAnalysis(nodes, analyses, layers[p]))
    /\ UNCHANGED <<widgets, requests>>

MoveLayer(from, to) ==
    LET ls == InsertAt(RemoveAt(layers, from), to, layers[from])
        save(as, l) == IF l.source \in DOMAIN nodes THEN SaveAnalysis(nodes, as, l) ELSE as
    IN /\ from # to
       /\ layers' = ls
       /\ analyses' = FoldLeft(save, analyses, ls)
       /\ UNCHANGED <<nodes, widgets, requests>>

\* The layer is in the collection when the server has answered, its source node at once.
CreateLayerFromTable(table) ==
    LET letter == NextLetter(TakenLetters)
        lid == CHOOSE l \in FreeLayers : TRUE
    IN /\ Len(layers) + Cardinality({r \in requests : r.kind = "layer"}) < MaxLayers
       /\ FreeLayers # {} /\ Cardinality(DOMAIN nodes) < MaxNodes
       /\ nodes' = AddNode(nodes, Id(letter, 0), SourceNode(table))
       /\ requests' = requests \cup {[kind |-> "layer", lid |-> lid, table |-> table,
                                       letter |-> letter]}
       /\ UNCHANGED <<layers, analyses, widgets>>

LayerCreated(r) ==
    LET save(as, l) == IF AnalysesForLayer(as, l) = {} THEN SaveAnalysis(nodes, as, l) ELSE as
    IN /\ r.kind = "layer"
       /\ layers' = Append(layers, Layer(r.lid, r.letter, Id(r.letter, 0)))
       /\ analyses' = FoldLeft(save, analyses, layers')
       /\ requests' = requests \ {r}
       /\ UNCHANGED <<nodes, widgets>>

---------------------------------------------------------------------------------
(* A node dragged out of its layer becomes a layer. The widgets on the nodes   *)
(* that change their names are destroyed, and created again once the new layer *)
(* has been saved.                                                             *)

DraggableNodes(p) == ToSet(OwnedPrimaryNodes(nodes, layers[p]))
HeadedBy(p, i) == {q \in Positions : layers[q].source = i /\ layers[q].letter = layers[p].letter}

NewLayerOf(letter, source) == Layer(CHOOSE l \in FreeLayers : TRUE, letter, source)

\* Widgets go, and are to be created again on the nodes that again gives them.
Recreate(lid, again) ==
    /\ widgets' = [w \in DOMAIN widgets \ DOMAIN again |-> widgets[w]]
    /\ requests' = requests \cup {[kind |-> "drag", lid |-> lid, widgets |-> again]}

\* Movement 1: the layer that was dragged from keeps its style under a new
\* letter, and a new layer takes its letter and what was below the node.
DragHead(p, i, at) ==
    LET prev == CHOOSE q \in HeadedBy(p, i) : TRUE
        newLetter == NextLetter(TakenLetters)
        renamed == Id(newLetter, 1)
        g == ChangeSourceIds(AddNode(nodes, renamed, nodes[i]), i, renamed)
        newLayer == NewLayerOf(layers[prev].letter, nodes[i].prim)
        affected == {w \in DOMAIN widgets :
                        widgets[w] \in ToSet(OwnedPrimaryNodes(g, layers[prev]))}
        again == [w \in affected |-> IF widgets[w] = i THEN renamed ELSE widgets[w]]
        named == Append(analyses, renamed)
        repointed == [q \in Positions |->
                        IF AnalysesForLayer(named, layers[q]) = {} /\ layers[q].source = i
                        THEN [layers[q] EXCEPT !.source = renamed] ELSE layers[q]]
        without == [repointed EXCEPT ![prev] = newLayer]
        ls == InsertAt(without, at, Layer(layers[prev].lid, newLetter, renamed))
    IN /\ HeadedBy(p, i) # {} /\ HasPrimarySource(nodes, i)
       /\ EndWithout(RemoveNodes(g, {i}), ls, SaveAnalysis(g, named, newLayer))
       /\ Recreate(newLayer.lid, again)

\* Movement 2: one more layer on the same source.
DragSource(p, i, at) ==
    /\ HeadedBy(p, i) # {} /\ ~HasPrimarySource(nodes, i)
    /\ EndWithout(nodes, InsertAt(layers, at, NewLayerOf(NextLetter(TakenLetters), i)), analyses)
    /\ UNCHANGED <<widgets, requests>>

\* Mutant: the widgets of the moved nodes are left as they are.
DragMiddleOnly(p, i, at) ==
    LET newLetter == NextLetter(TakenLetters)
        list == LinkedListBySameLetter(nodes, i)
        newId(old) == ChangeLetter(old, newLetter)
        moveNode(g, old) == ChangeSourceIds(AddNode(g, newId(old), g[old]), old, newId(old))
        g == FoldLeft(moveNode, nodes, list)
        newLayer == NewLayerOf(newLetter, newId(i))
    IN /\ HeadedBy(p, i) = {}
       /\ EndWithout(RemoveNodes(g, {i}), InsertAt(layers, at, newLayer),
                     SaveAnalysis(g, analyses, newLayer))
       /\ UNCHANGED <<widgets, requests>>

\* Movement 3: the node and those of its letter below it change to the letter of a new layer.
DragMiddle(p, i, at) ==
    LET newLetter == NextLetter(TakenLetters)
        list == LinkedListBySameLetter(nodes, i)
        newId(old) == ChangeLetter(old, newLetter)
        moveNode(g, old) == ChangeSourceIds(AddNode(g, newId(old), g[old]), old, newId(old))
        g == FoldLeft(moveNode, nodes, list)
        newLayer == NewLayerOf(newLetter, newId(i))
        affected == {w \in DOMAIN widgets : widgets[w] \in ToSet(list)}
    IN /\ HeadedBy(p, i) = {}
       /\ EndWithout(RemoveNodes(g, {i}), InsertAt(layers, at, newLayer),
                     SaveAnalysis(g, analyses, newLayer))
       /\ Recreate(newLayer.lid, [w \in affected |-> newId(widgets[w])])

CreateLayerForAnalysisNode(p, i, at) ==
    /\ Len(layers) < MaxLayers
    /\ FreeLayers # {}
    /\ i \in DraggableNodes(p)
    /\ \/ DragHead(p, i, at)
       \/ DragSource(p, i, at)
       \/ DragMiddle(p, i, at)

---------------------------------------------------------------------------------
(* A layer deleted: its nodes go, with the layers that are made of them, up to *)
(* the first that another layer stands on; that one and those below it are     *)
(* folded under that layer, and take its letter.                               *)

CanBeFolded(p) ==
    \E q \in Positions \ {p} :
        layers[q].source = layers[p].source \/ BelowOwn(nodes, layers[q]) = layers[p].source

AllLayersDependOn(p) ==
    LET own == ToSet(OwnedPrimaryNodes(nodes, layers[p]))
    IN /\ own # {}
       /\ \A q \in Positions \ {p} : own \cap Contained(nodes, layers[q].source) # {}

\* With a layer whose source is gone the test throws, and nothing is deleted.
CanBeDeletedByUser(p) ==
    /\ Len(layers) > 1
    /\ \A q \in Positions : layers[q].source \in DOMAIN nodes
    /\ CanBeFolded(p) \/ ~AllLayersDependOn(p)

\* The ids that a list of nodes takes under a letter, from its first node down.
FoldedIds(g, list, letter) ==
    LET highest == IF Len(list) <= Sequence(list[1]) THEN Sequence(list[1]) ELSE Len(list)
        start == IF IsSourceType(g, Last(list)) THEN highest ELSE highest + 1
        ids[n \in DOMAIN list] == PrevId(IF n = 1 THEN Id(letter, start) ELSE ids[n - 1])
    IN ids

\* moveNodeToParentLayer: one more node of the list renamed, in all that is kept.
Renamed(state, old, new) ==
    LET to(source) == IF source = old THEN new ELSE source
    IN [g |-> RenameNode(state.g, old, new),
        ls |-> [q \in DOMAIN state.ls |-> [state.ls[q] EXCEPT !.source = to(@)]],
        as |-> state.as,
        ws |-> [w \in DOMAIN state.ws |-> to(state.ws[w])]]

OwnNodes(p) == OwnedPrimaryNodes(nodes, layers[p])
Highest(p, n) == {OwnNodes(p)[k] : k \in 1..n}
BuiltOn(p, n) == {q \in Positions : Contained(nodes, layers[q].source) \cap Highest(p, n) # {}}

\* Layers that may take the own node of p under the n highest.
Parents(p, n) ==
    ParentLayers(nodes, layers, OwnNodes(p)[n + 1], {layers[q].lid : q \in BuiltOn(p, n)})

\* What is left when the layer goes with its n highest nodes: its own row goes last.
Without(p, n) ==
    LET gone == BuiltOn(p, n) \cup {p}
        lost == {Min(AnalysesForLayer(analyses, layers[q])) :
                    q \in {m \in gone : AnalysesForLayer(analyses, layers[m]) # {}}}
        kept == {w \in DOMAIN widgets : Contained(nodes, widgets[w]) \cap Highest(p, n) = {}}
    IN [g |-> RemoveNodes(nodes, Highest(p, n)),
        ls |-> Kept(layers, Positions \ gone),
        as |-> Kept(analyses, DOMAIN analyses \ lost),
        ws |-> Restrict(widgets, kept)]

DeleteWhole(p) ==
    \E rest \in {Without(p, Len(OwnNodes(p)))} :
        /\ \A n \in 0..(Len(OwnNodes(p)) - 1) : Parents(p, n) = {}
        /\ EndWithout(rest.g, rest.ls, rest.as)
        /\ widgets' = rest.ws

\* Mutant: the ids are given from the last node up.
FoldUnderFromLast(p, n, parent) ==
    \E list \in {OwnNodes(parent) \o LinkedListBySameLetter(nodes, OwnNodes(p)[n + 1])} :
    \E ids \in {FoldedIds(nodes, list, layers[parent].letter)} :
    \E moved \in {FoldLeft(LAMBDA st, k : Renamed(st, list[k], ids[k]), Without(p, n),
                           [k \in DOMAIN list |-> Len(list) + 1 - k])} :
    \E q \in DOMAIN moved.ls :
        /\ moved.ls[q].lid = layers[parent].lid
        /\ \E ls \in {[moved.ls EXCEPT ![q].source = ids[1]]} :
             EndWithout(moved.g, ls, SaveAnalysis(moved.g, moved.as, ls[q]))
        /\ widgets' = moved.ws

FoldUnder(p, n, parent) ==
    \E list \in {OwnNodes(parent) \o LinkedListBySameLetter(nodes, OwnNodes(p)[n + 1])} :
    \E ids \in {FoldedIds(nodes, list, layers[parent].letter)} :
    \E moved \in {FoldLeft(LAMBDA st, k : Renamed(st, list[k], ids[k]), Without(p, n),
                           [k \in DOMAIN list |-> k])} :
    \E q \in DOMAIN moved.ls :
        /\ moved.ls[q].lid = layers[parent].lid
        /\ \E ls \in {[moved.ls EXCEPT ![q].source = ids[1]]} :
             EndWithout(moved.g, ls, SaveAnalysis(moved.g, moved.as, ls[q]))
        /\ widgets' = moved.ws

DeleteLayer(p) ==
    /\ CanBeDeletedByUser(p)
    /\ \/ DeleteWhole(p)
       \/ \E n \in 0..(Len(OwnNodes(p)) - 1) :
            /\ \A m \in 0..(n - 1) : Parents(p, m) = {}
            /\ Parents(p, n) # {}
            /\ FoldUnder(p, n, Min(Parents(p, n)))
    /\ UNCHANGED requests

---------------------------------------------------------------------------------
(* Widgets, and the answers of the server. *)

\* Which widget reads which node, those that are about to be created again included.
Reads ==
    {<<w, widgets[w]>> : w \in DOMAIN widgets}
      \cup {<<r.w, r.source>> : r \in {q \in requests : q.kind = "widget"}}
      \cup UNION {{<<w, r.widgets[w]>> : w \in DOMAIN r.widgets} :
                   r \in {q \in requests : q.kind = "drag"}}

AddWidget(w, i) ==
    LET owner == layers[FindOwner(layers, i)]
    IN /\ w \notin {read[1] : read \in Reads}
       /\ Owners(layers, i) # {}
       /\ analyses' = SaveAnalysis(nodes, analyses, owner)
       /\ requests' = requests \cup {[kind |-> "widget", lid |-> owner.lid, w |-> w,
                                       source |-> i]}
       /\ UNCHANGED <<nodes, layers, widgets>>

\* The new layer of a drag has been saved: each widget is created again.
DragSaved(r) ==
    /\ r.kind = "drag"
    /\ requests' = (requests \ {r}) \cup
                       {[kind |-> "widget", lid |-> r.lid, w |-> w,
                         source |-> r.widgets[w]] : w \in DOMAIN r.widgets}
    /\ UNCHANGED <<nodes, layers, analyses, widgets>>

WidgetCreated(r) ==
    /\ r.kind = "widget"
    /\ widgets' = [w \in DOMAIN widgets \cup {r.w} |-> IF w = r.w THEN r.source ELSE widgets[w]]
    /\ requests' = requests \ {r}
    /\ UNCHANGED <<nodes, layers, analyses>>

\* An error is notified and that is all.
Refused(r) ==
    /\ requests' = requests \ {r}
    /\ UNCHANGED <<nodes, layers, analyses, widgets>>

Answer(r) == LayerCreated(r) \/ DragSaved(r) \/ WidgetCreated(r) \/ Refused(r)

---------------------------------------------------------------------------------
Seconds == {NoNode} \cup DOMAIN nodes \cup {TableId(t) : t \in Tables}

Analyse ==
    \E p \in Positions :
        \/ \E kind \in Kinds : \E sec \in Seconds : CreateAnalysisNode(p, kind, sec)
        \/ \E i \in DOMAIN nodes, sec \in Seconds : EditAnalysisNode(p, i, sec)
        \/ \E table \in Tables : SaveAnalysisSourceQuery(p, table)
        \/ \E i \in FormNodes(p) : DeleteAnalysisNode(p, i)

Rearrange ==
    \E p \in Positions :
        \/ SaveLayer(p)
        \/ \E to \in Positions : MoveLayer(p, to)
        \/ \E i \in DraggableNodes(p), at \in 1..(Len(layers) + 1) : CreateLayerForAnalysisNode(p, i, at)
        \/ DeleteLayer(p)

Next ==
    \/ Analyse
    \/ Rearrange
    \/ \E table \in Tables : CreateLayerFromTable(table)
    \/ \E w \in Widgets, i \in DOMAIN nodes : AddWidget(w, i)
    \/ \E r \in requests : Answer(r)

Spec == UserActionsInit /\ [][Next]_vars

(* A careful user waits for the answer before the next action, does not choose *)
(* as second source of an analysis a node that is made of it, does not drag    *)
(* from the middle of a layer what another layer shows, does not delete nodes  *)
(* when a layer that goes with them has a node that others read, and after a   *)
(* layer that was refused makes the map drop its source before adding another. *)
(* What Spec does to the others is told in README, Deviations. The user        *)
(* of FoldSpec also deletes a layer when the one that takes its nodes shows a  *)
(* third layer's node: then the code folds them under the wrong layer.         *)

Independent(i, sec) == i \notin Contained(nodes, sec)

\* No layer that could not be created has left its source node.
LetterIsFresh == \A i \in DOMAIN nodes : Letter(i) # NextLetter(TakenLetters)

OnlyHere(p, i) ==
    \A q \in Positions \ {p} :
        layers[p].source = i \/ layers[q].source \notin ToSet(LinkedListBySameLetter(nodes, i))

\* When some nodes go, a layer that goes with them leaves a node of its own to another layer or to a widget.
Strands(gone, going) ==
    LET kept == UNION {Contained(nodes, layers[q].source) : q \in Positions \ going}
        read == {widgets[w] : w \in DOMAIN widgets}
    IN \E p \in going, j \in kept \cup read :
         Owns(layers[p], j) /\ Contained(nodes, j) \cap gone = {}

NodeGoesAlone(i) ==
    ~Strands({i}, {p \in Positions \ {FindOwner(layers, i)} : LayerContains(nodes, layers[p], i)})

LayerGoesAlone(p) ==
    \A n \in 0..Len(OwnNodes(p)) :
        (\A m \in 0..(n - 1) : Parents(p, m) = {}) => ~Strands(Highest(p, n), BuiltOn(p, n) \ {p})

\* Nodes are folded under a layer whose head is its own, or which shows the highest of them.
FoldsUnderItsHead(p) ==
    \A n \in 0..(Len(OwnNodes(p)) - 1) :
        Parents(p, n) # {} =>
            LET parent == layers[Min(Parents(p, n))]
            IN Owns(parent, parent.source) \/ parent.source = OwnNodes(p)[n + 1]

CarefulAnalyse ==
    \E p \in Positions :
        \/ \E kind \in Kinds : \E sec \in Seconds : CreateAnalysisNode(p, kind, sec)
        \/ \E i \in DOMAIN nodes, sec \in Seconds :
              EditAnalysisNode(p, i, sec) /\ Independent(i, sec)
        \/ \E table \in Tables : SaveAnalysisSourceQuery(p, table)
        \/ \E i \in FormNodes(p) : DeleteAnalysisNode(p, i) /\ NodeGoesAlone(i)

CarefulRearrange(anyFold) ==
    \E p \in Positions :
        \/ SaveLayer(p)
        \/ \E to \in Positions : MoveLayer(p, to)
        \/ \E i \in DraggableNodes(p) :
              /\ LetterIsFresh /\ OnlyHere(p, i)
              /\ \E at \in 1..(Len(layers) + 1) : CreateLayerForAnalysisNode(p, i, at)
        \/ DeleteLayer(p) /\ LayerGoesAlone(p) /\ (anyFold \/ FoldsUnderItsHead(p))

CarefulNext(anyFold) ==
    \/ requests = {} /\ CarefulAnalyse
    \/ requests = {} /\ CarefulRearrange(anyFold)
    \/ /\ requests = {} /\ LetterIsFresh
       /\ \E table \in Tables : CreateLayerFromTable(table)
    \/ requests = {} /\ \E w \in Widgets, i \in DOMAIN nodes : AddWidget(w, i)
    \/ \E r \in requests : Answer(r)

CarefulSpec == UserActionsInit /\ [][CarefulNext(FALSE)]_vars
FoldSpec == UserActionsInit /\ [][CarefulNext(TRUE)]_vars

---------------------------------------------------------------------------------
(* Properties. *)

\* The collections hold what they are made for, and two layers never have one letter,
\* although letters are taken again when layers go and are exchanged when a head is
\* dragged: findOwnerOfAnalysisNode would take the first.
TypeOK ==
    /\ \A i \in DOMAIN nodes : nodes[i].what \in Tables \cup Kinds
    /\ Len(layers) \in 1..MaxLayers
    /\ \A p \in Positions : layers[p].lid \in Layers /\ layers[p].letter \in 1..MaxLetter
    /\ DOMAIN widgets \subseteq Widgets
    /\ \A p, q \in Positions : p # q => layers[p].letter # layers[q].letter

\* Whatever is dragged, deleted and folded, no layer, analysis or saved analysis
\* has a source that is no longer there: user-actions.js changes who reads a node
\* in every place that renames or destroys it.
SourcesExist ==
    /\ \A p \in Positions : layers[p].source \in DOMAIN nodes
    /\ \A i \in DOMAIN nodes : SourceIds(nodes, i) \ {NoNode} \subseteq DOMAIN nodes
    /\ \A k \in DOMAIN analyses : analyses[k] \in DOMAIN nodes

\* What is saved on the server: at most one analysis for a layer on a node of its own,
\* with the layer's source as its head, and none for a layer on another layer's node.
AnalysesOfLayers ==
    /\ \A k, j \in DOMAIN analyses : k # j => Letter(analyses[k]) # Letter(analyses[j])
    /\ \A k \in DOMAIN analyses : \E p \in Positions :
         layers[p].source = analyses[k] /\ Owns(layers[p], analyses[k])

\* No widget, created or about to be created again after a drag, reads a node that is gone.
WidgetsRead == \A read \in Reads : read[2] \in DOMAIN nodes

LayersKept ==
    \A p \in Positions, q \in DOMAIN layers' :
        layers[p].lid = layers'[q].lid =>
            Meaning(nodes', layers'[q].source) = Meaning(nodes, layers[p].source)
ReadsKept ==
    \A old \in Reads, new \in Reads' :
        old[1] = new[1] => Meaning(nodes', new[2]) = Meaning(nodes, old[2])

\* Moving, dragging and deleting layers, and all the renaming of nodes that it takes,
\* leaves what each remaining layer and widget shows as it was: only the user who
\* adds, edits or deletes an analysis changes it.
MeaningKept == [][(LayersKept /\ ReadsKept) \/ Analyse]_vars

\* The same for the layers that are left when one is deleted.
DeletionKeeps == [][LayersKept \/ Len(layers') >= Len(layers) \/ Analyse]_vars

\* An analysis that is added on a layer is on top of what the layer showed, with the
\* second source that was chosen: no id that is taken already is given to it.
AddedAsAsked ==
    [][\A p \in Positions, kind \in Kinds : \A sec \in Seconds :
        CreateAnalysisNode(p, kind, sec) =>
            Meaning(nodes', layers'[p].source) =
                [what |-> kind, prim |-> Meaning(nodes, layers[p].source),
                 sec |-> Meaning(nodes', sec)]]_vars
=================================================================================
