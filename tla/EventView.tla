------------------------------- MODULE EventView -------------------------------
(***************************************************************************)
(* The page of the explorer that draws the hashgraph (hashgraph.js).       *)
(*                                                                         *)
(* A node reports each event as it connects it, and again when a witness   *)
(* gets a vote, its round is decided or an epoch takes it in (Monitor.d);  *)
(* the shell passes the report on to the web socket of the page            *)
(* (tagionshell.d); the page keeps what it was told and draws circles,     *)
(* edges to the parents, rings and labels with the Konva library.  Between *)
(* two reports the user clicks events, which highlights their ancestors,   *)
(* or clears the page.                                                     *)
(*                                                                         *)
(* Simplifications:                                                        *)
(*  - a report is a record of the fields that are present; fields that are *)
(*    only printed are left out, as is strongly_seeing, which stops the    *)
(*    highlighting at a witness but is no longer reported;                 *)
(*  - ids are given to events in the order they are connected; only the    *)
(*    first event of a chain is grounded, and no event is reported again   *)
(*    after its parents were dropped from the hashgraph;                   *)
(*  - Konva is external: findOne finds the shape with an id, find returns  *)
(*    an array (Konva 9), of which destroy is not a method;                *)
(*  - heights count the steps of 70 pixels above the first row; the line   *)
(*    and the arrow of an edge, drawn and removed together, are one;       *)
(*  - the mark of a node in markInsteadOfDelete, which nothing sets, is    *)
(*    left out, and so are scrolling, zooming, resizing, the colour under  *)
(*    the pointer and the circle of setHighlightedEventNode, which touch   *)
(*    nothing else.                                                        *)
(***************************************************************************)
EXTENDS Integers, Sequences, FiniteSets

CONSTANTS
    MaxEvents,      \* bound: events connected in one life of the node
    Chain,          \* the nodes whose chains of events are drawn
    MaxExtra,       \* bound: later reports and restarts of the node
    Witness,        \* the events that are witnesses, which the hashgraph decides
    Later,          \* what a later report may tell of an event
    Grounded,       \* the id of the parents of a grounded event, uint.max
    None            \* no event, undefined

Event == 1 .. MaxEvents

Parent == {"mother", "father"}

ASSUME EventAssumption == {MaxEvents, MaxExtra} \subseteq Nat /\ Witness \subseteq Event
ASSUME LaterAssumption ==
    \A m \in Later : DOMAIN m \subseteq {"witness", "famous", "round", "remove"}
ASSUME IdAssumption == Grounded \notin Event /\ None \notin Event /\ Grounded # None

VARIABLES
    events,     \* the node: the events connected in its present life
    extra,      \* bounded: later reports and restarts
    subscribed, \* the page has told the shell to send reports
    paused,
    lookup,     \* the events that the page knows
    data,       \* per event: the fields reported of it
    circles,    \* per event that is drawn: the height and the colour of its circle
    edges,      \* the edges drawn, with the parent at the other end
    lit,        \* the edges, named by child and side, that are highlighted
    rings,      \* per event: its rings and its label
    selected,   \* selectedNode: the event or None, whether its data are those that the
                \* page knows, and, once the page was reset, its data then
    threw,      \* the last handler ended in an exception
    disturbed   \* when the page had events or a selection, a removal was reported, or
                \* the node restarted, or the page heard of an event after it had of
                \* one that is later; and it was not cleared since with nothing
                \* selected

stage == <<circles, edges, lit, rings>>
known == <<lookup, data>>
node == <<events, extra>>
vars == <<node, subscribed, paused, known, stage, selected, threw,
          disturbed>>

Colour == {"plain", "primary", "child"}

NoSelection == [id |-> None, live |-> FALSE, data |-> <<>>]

NoRings == [witness |-> FALSE, famous |-> "none", label |-> FALSE]

(***************************************************************************)
(* Konva and JavaScript                                                    *)
(***************************************************************************)
\* stage.findOne of the circle of an event
OnStage(e) == e \in DOMAIN circles

\* Object.assign(old, new)
Assign(old, new) ==
    [f \in DOMAIN old \cup DOMAIN new |-> IF f \in DOMAIN new THEN new[f] ELSE old[f]]

\* The field is there and not false.
Truthy(d, f) == f \in DOMAIN d /\ d[f] # FALSE

(***************************************************************************)
(* Drawing                                                                 *)
(***************************************************************************)
\* The sides on which the parent in d is on the stage.
SidesOnStage(d) == {p \in Parent \cap DOMAIN d : OnStage(d[p])}

\* Seeded fault: the circle goes above the mother only.
HeightOverMother(d) ==
    IF "mother" \in SidesOnStage(d) THEN 1 + circles[d.mother].height ELSE 1

\* The circle goes one row above the higher parent on the stage.
HeightOf(d) ==
    LET below == {circles[d[p]].height : p \in SidesOnStage(d)}
    IN  IF below = {} THEN 1
        ELSE 1 + CHOOSE h \in below : \A k \in below : k <= h

\* Seeded fault: an event with two parents is connected to its mother only.
EdgeOf(e, d) ==
    {[child |-> e, side |-> p, parent |-> d[p]] :
        p \in {q \in SidesOnStage(d) : q = "mother" \/ "mother" \notin SidesOnStage(d)}}

\* Seeded fault: edges go to all parents that are reported.
EdgesToAll(e, d) ==
    {[child |-> e, side |-> p, parent |-> d[p]] : p \in Parent \cap DOMAIN d}

\* Edges to the parents that are on the stage.
EdgesOf(e, d) ==
    {[child |-> e, side |-> p, parent |-> d[p]] : p \in SidesOnStage(d)}

\* The ring of a witness follows what is known of the event, d.
MakeNodeWitness(ring, d) == [ring EXCEPT !.witness = Truthy(d, "witness")]

\* So does that of a famous one, which changes its colour when it is drawn again.
MakeNodeFamous(ring, d) ==
    [ring EXCEPT !.famous =
        IF Truthy(d, "famous") THEN IF @ = "none" THEN "#0021c9" ELSE "#5ac900"
        ELSE IF "famous" \in DOMAIN d THEN "#2F80ED"
        ELSE "none"]

\* Only a round that is reported as an object has a number to write, and only the
\* report m at hand is looked at.
SetNodeRound(ring, m) ==
    [ring EXCEPT !.label = @ \/ ("round" \in DOMAIN m /\ m.round = "object")]

\* Seeded fault: rings follow the report, not what is known.
RingsForReport(ring, d, m) == SetNodeRound(MakeNodeFamous(MakeNodeWitness(ring, m), m), m)

RingsFor(ring, d, m) == SetNodeRound(MakeNodeFamous(MakeNodeWitness(ring, d), d), m)

--------------------------------------------------------------------------------
(***************************************************************************)
(* A report arrives: setEventNode.                                         *)
(***************************************************************************)
\* An event that is not known is drawn if the report has a mother.
CreateEventNode(e, m) ==
    /\ e \notin lookup
    /\ "mother" \in DOMAIN m
    /\ lookup' = lookup \cup {e}
    /\ data' = [data EXCEPT ![e] = m]
    /\ circles' = [x \in DOMAIN circles \cup {e} |->
                       IF x = e THEN [height |-> HeightOf(m), colour |-> "plain"]
                       ELSE circles[x]]
    /\ edges' = edges \cup EdgesOf(e, m)
    /\ rings' = [rings EXCEPT ![e] = RingsFor(@, m, m)]
    /\ threw' = FALSE
    /\ UNCHANGED lit

\* An event that is known is updated.  If the report says that it is removed, its
\* edges go, and then the handler throws at its rings: neither the circle nor what
\* is known of the event goes.
UpdateEventNode(e, m) ==
    /\ e \in lookup
    /\ data' = [data EXCEPT ![e] = Assign(@, m)]
    /\ rings' = [rings EXCEPT ![e] = RingsFor(@, Assign(data[e], m), m)]
    /\ IF "remove" \in DOMAIN m
       THEN /\ edges' = {x \in edges : x.child # e}
            /\ lit' = {x \in lit : x.child # e}
            /\ threw' = TRUE
       ELSE /\ threw' = FALSE
            /\ UNCHANGED <<edges, lit>>
    /\ UNCHANGED <<lookup, circles>>

\* A report on an event that is not known, without a mother.
IgnoreEvent(e, m) ==
    /\ e \notin lookup
    /\ "mother" \notin DOMAIN m
    /\ threw' = FALSE
    /\ UNCHANGED <<known, stage>>

Listens == subscribed /\ ~paused

SetEventNode(e, m) ==
    /\ \/ /\ Listens
          /\ CreateEventNode(e, m) \/ UpdateEventNode(e, m) \/ IgnoreEvent(e, m)
       \/ /\ ~Listens
          /\ threw' = FALSE
          /\ UNCHANGED <<known, stage>>
    /\ UNCHANGED <<subscribed, paused, selected>>

--------------------------------------------------------------------------------
(***************************************************************************)
(* Clicks                                                                  *)
(***************************************************************************)
\* Sides on which the page knows the parent of e, when d[e] is what is known of e.
KnownSides(d, e) == {p \in Parent \cap DOMAIN d[e] : d[e][p] \in lookup}

\* Events that contain, with an event, its known parents.
ClosedUnderParents(d, S) == \A x \in S : \A p \in KnownSides(d, x) : d[x][p] \in S

\* What _selectEventNode reaches from e: e and its known ancestors.
Ancestry(d, e) ==
    {a \in lookup : \A S \in SUBSET lookup :
        e \in S /\ ClosedUnderParents(d, S) => a \in S}

HasEdge(e, p) == \E x \in edges : x.child = e /\ x.side = p

\* The edges to known parents of the events of S, named by child and side.
KnownEdges(d, S) == UNION {{[child |-> e, side |-> p] : p \in KnownSides(d, e)} : e \in S}

\* Those of them that are not on the stage: at the first the traversal throws.
Missing(d, S) == {y \in KnownEdges(d, S) : ~HasEdge(y.child, y.side)}

\* What the traversal from e does when it is called with the data d: it gets to
\* nodes and sides, all of them or, when it throws, some with a missing one.
Traversals(d, e) ==
    LET all == Ancestry(d, e)
    IN  IF ~OnStage(e) THEN {[nodes |-> {}, sides |-> {}, throws |-> FALSE]}
        ELSE IF Missing(d, all) = {}
        THEN {[nodes |-> all, sides |-> KnownEdges(d, all), throws |-> FALSE]}
        ELSE UNION {{[nodes |-> S, sides |-> U, throws |-> TRUE] :
                        U \in SUBSET (KnownEdges(d, S) \ Missing(d, S))} :
                    S \in {T \in SUBSET all : e \in T /\ Missing(d, T) # {}}}

\* Circles after the highlighting is taken back from S.
TakenBack(cs, S) ==
    [x \in DOMAIN cs |-> IF x \in S THEN [cs[x] EXCEPT !.colour = "plain"] ELSE cs[x]]

\* Circles after the selection of e has highlighted S.
HighlightedFrom(cs, e, S) ==
    [x \in DOMAIN cs |->
        IF x \in S THEN [cs[x] EXCEPT !.colour = IF x = e THEN "primary" ELSE "child"]
        ELSE cs[x]]

\* Seeded fault: only the circle of selectedNode is looked at.
DeselectionsOfOne ==
    IF ~OnStage(selected.id)
    THEN {[nodes |-> {}, sides |-> {}, throws |-> FALSE]}
    ELSE {[nodes |-> {selected.id}, sides |-> KnownEdges(data, {selected.id}),
           throws |-> FALSE]}

\* The traversals that take the highlighting of selectedNode back.
Deselections ==
    Traversals(IF selected.live THEN data ELSE [data EXCEPT ![selected.id] = selected.data],
               selected.id)

Deselect(t) ==
    [circles |-> TakenBack(circles, t.nodes), lit |-> lit \ t.sides]

\* The click on a circle takes the highlighting of the selected event back and
\* highlights the ancestors of this one.  If the first throws, the second and the
\* change of the selection do not happen.
Click(e) ==
    /\ OnStage(e)
    /\ \E t \in Deselections :
        IF t.throws
        THEN /\ circles' = Deselect(t).circles
             /\ lit' = Deselect(t).lit
             /\ threw' = TRUE
             /\ UNCHANGED selected
        ELSE \E u \in Traversals(data, e) :
             /\ circles' = HighlightedFrom(Deselect(t).circles, e, u.nodes)
             /\ lit' = Deselect(t).lit \cup u.sides
             /\ selected' = [id |-> e, live |-> TRUE, data |-> <<>>]
             /\ threw' = u.throws
    /\ UNCHANGED <<node, subscribed, paused, known, edges, rings, disturbed>>

\* A double click takes the highlighting back.
DoubleClick ==
    /\ \E t \in Deselections :
        /\ circles' = Deselect(t).circles
        /\ lit' = Deselect(t).lit
        /\ threw' = t.throws
        /\ selected' = IF t.throws THEN selected ELSE NoSelection
    /\ UNCHANGED <<node, subscribed, paused, known, edges, rings, disturbed>>

--------------------------------------------------------------------------------
(***************************************************************************)
(* Clearing                                                                *)
(***************************************************************************)
\* _reset: everything goes but the selection, which keeps its data.
Reset ==
    /\ lookup' = {}
    /\ data' = [e \in Event |-> <<>>]
    /\ circles' = [e \in {} |-> None]
    /\ edges' = {}
    /\ lit' = {}
    /\ rings' = [e \in Event |-> NoRings]
    /\ threw' = FALSE
    /\ disturbed' = (disturbed /\ selected.id # None)
    /\ selected' = IF selected.live
                   THEN [selected EXCEPT !.live = FALSE, !.data = data[selected.id]]
                   ELSE selected

\* The button Clear of the page.
Clear ==
    /\ Reset
    /\ UNCHANGED <<node, subscribed, paused>>

Pause ==
    /\ ~paused
    /\ paused' = TRUE
    /\ threw' = FALSE
    /\ UNCHANGED <<node, subscribed, known, stage, selected, disturbed>>

\* The reports that came during the pause are lost; the page starts anew.
Resume ==
    /\ paused' = FALSE
    /\ Reset
    /\ UNCHANGED <<node, subscribed>>

--------------------------------------------------------------------------------
(***************************************************************************)
(* The node, the shell and the connection                                  *)
(***************************************************************************)
\* The events of chain n.
ChainOf(n) == {k \in 1 .. Len(events) : events[k].node = n}

\* The events of other chains that have no son yet.
Fathers(n) ==
    {k \in 1 .. Len(events) \ ChainOf(n) : \A j \in 1 .. Len(events) : events[j].father # k}

\* The parents that an event of chain n can have.  The first one is an Eva, which has
\* none, or grounded.
ParentsOf(n) ==
    IF ChainOf(n) = {}
    THEN {[mother |-> p, father |-> p] : p \in {None, Grounded}}
    ELSE [mother : {k \in ChainOf(n) : \A j \in ChainOf(n) : j <= k},
          father : Fathers(n) \cup {None}]

\* EventView: the fields that are initialised.
Report(e, event) ==
    LET fields == {"node"} \cup {p \in Parent : event[p] # None}
                           \cup (IF e \in Witness THEN {"witness"} ELSE {})
    IN  [f \in fields |-> IF f = "witness" THEN TRUE ELSE event[f]]

\* A node of the network makes an event, which this node connects and reports.
ConnectEvent(n) ==
    LET e == Len(events) + 1
    IN  /\ e <= MaxEvents
        /\ \E p \in ParentsOf(n) :
            LET event == [node |-> n, mother |-> p.mother, father |-> p.father]
            IN  /\ events' = Append(events, event)
                /\ SetEventNode(e, Report(e, event))
        /\ UNCHANGED <<extra, disturbed>>

\* Another report on an event that is connected.
ReportLater(e, m) ==
    /\ e <= Len(events)
    /\ extra < MaxExtra
    /\ extra' = extra + 1
    /\ SetEventNode(e, m)
    /\ disturbed' = \/ disturbed
                    \/ Listens /\ e \in lookup /\ "remove" \in DOMAIN m
                    \/ Listens /\ e \notin lookup /\ "mother" \in DOMAIN m
                               /\ \E k \in lookup : k > e
    /\ UNCHANGED events

\* The same report once more.
ReportAgain(e) == e <= Len(events) /\ ReportLater(e, Report(e, events[e]))

\* The node starts anew, and counts its events from one again.
RestartNode ==
    /\ events # <<>>
    /\ extra < MaxExtra
    /\ extra' = extra + 1
    /\ events' = <<>>
    /\ threw' = FALSE
    /\ disturbed' = (disturbed \/ lookup # {} \/ selected.id # None)
    /\ UNCHANGED <<subscribed, paused, known, stage, selected>>

\* The web socket is open and the page subscribes; it is never opened again.
Subscribe ==
    /\ ~subscribed
    /\ subscribed' = TRUE
    /\ threw' = FALSE
    /\ UNCHANGED <<node, paused, known, stage, selected, disturbed>>

Init ==
    /\ events = <<>>
    /\ extra = 0
    /\ subscribed = FALSE
    /\ paused = FALSE
    /\ lookup = {}
    /\ data = [e \in Event |-> <<>>]
    /\ circles = [e \in {} |-> None]
    /\ edges = {}
    /\ lit = {}
    /\ rings = [e \in Event |-> NoRings]
    /\ selected = NoSelection
    /\ threw = FALSE
    /\ disturbed = FALSE

Next ==
    \/ \E n \in Chain : ConnectEvent(n)
    \/ \E e \in Event : ReportAgain(e) \/ \E m \in Later : ReportLater(e, m)
    \/ \E e \in Event : Click(e)
    \/ DoubleClick \/ Clear \/ Pause \/ Resume
    \/ RestartNode \/ Subscribe

Spec == Init /\ [][Next]_vars

--------------------------------------------------------------------------------
(***************************************************************************)
(* Properties                                                              *)
(***************************************************************************)
\* The types of the fields of the page.
ViewTypeOK ==
    /\ events \in Seq([node : Chain, mother : Event \cup {Grounded, None},
                       father : Event \cup {Grounded, None}])
    /\ Len(events) <= MaxEvents /\ extra \in 0 .. MaxExtra
    /\ {subscribed, paused, threw, disturbed, selected.live} \subseteq BOOLEAN
    /\ lookup \subseteq Event
    /\ circles \in [lookup -> [height : 1 .. MaxEvents, colour : Colour]]
    /\ DOMAIN data = Event
    /\ \A e \in Event : DOMAIN data[e] \subseteq
                            Parent \cup {"node", "witness", "famous", "round", "remove"}
    /\ rings \in [Event -> [witness : BOOLEAN, label : BOOLEAN,
                            famous : {"none", "#0021c9", "#5ac900", "#2F80ED"}]]
    /\ edges \subseteq [child : Event, side : Parent, parent : Event]
    /\ lit \subseteq [child : Event, side : Parent]
    /\ DOMAIN selected = {"id", "live", "data"}
    /\ selected.id \in Event \cup {None} /\ (selected.live => selected.id \in Event)

\* The data d name the parents that event e has at the node.
ParentsAsConnected(d, e) ==
    \A p \in Parent :
        /\ p \in DOMAIN d <=> events[e][p] # None
        /\ p \in DOMAIN d => d[p] = events[e][p]

\* Edges are drawn to the parents that are known.
EdgesAsReported ==
    edges = UNION {{[child |-> e, side |-> p, parent |-> data[e][p]] :
                       p \in KnownSides(data, e)} : e \in lookup}

\* A ring is drawn for a witness and for fame.
RingAsReported(ring, d) ==
    /\ ring.witness <=> Truthy(d, "witness")
    /\ ring.famous = "none" <=> "famous" \notin DOMAIN d
    /\ ring.famous = "#2F80ED" <=> "famous" \in DOMAIN d /\ d.famous = FALSE

RingsAsReported == \A e \in lookup : RingAsReported(rings[e], data[e])

\* What makes the drawing and the selection right: events know only parents that are
\* earlier, so that none is reached by an edge of an event drawn before; and what the
\* page knows, and has selected, are events of the node with their parents.
ViewInvariant ==
    /\ \A k \in 1 .. Len(events) : \A p \in Parent :
          events[k][p] \in (1 .. k - 1) \cup {Grounded, None}
    /\ \A e \in lookup : circles[e].height <= Cardinality(lookup)
    /\ RingsAsReported
    /\ ~disturbed =>
          /\ lookup \subseteq 1 .. Len(events)
          /\ \A e \in lookup : ParentsAsConnected(data[e], e)
          /\ EdgesAsReported
          /\ selected.live => selected.id \in lookup
          /\ ~selected.live /\ selected.id # None =>
                /\ selected.id \in 1 .. Len(events)
                /\ ParentsAsConnected(selected.data, selected.id)

Highlighted == {e \in DOMAIN circles : circles[e].colour \in {"primary", "child"}}

\* Each click takes back all that the last one highlighted, whatever was drawn in
\* between: what is highlighted is the selected event with its ancestors and the
\* edges between them, or, after the page was cleared, nothing.
SelectionIsAncestry ==
    ~disturbed =>
        IF ~selected.live
        THEN Highlighted = {} /\ lit = {}
        ELSE /\ selected.id \in lookup
             /\ Highlighted = Ancestry(data, selected.id)
             /\ {e \in Highlighted : circles[e].colour = "primary"} = {selected.id}
             /\ lit = KnownEdges(data, Highlighted)

\* No handler throws unless an event was removed or first heard of after a later one,
\* or the node restarted, while the page had events or a selection; and clearing the
\* page puts that right if nothing is selected.
ThrowsOnlyDisturbed == threw => disturbed

\* What is drawn is what was reported: circles for the events known, edges to the
\* parents known, rings for witnesses and fame.
DrawnAsReported ==
    ~disturbed => DOMAIN circles = lookup /\ EdgesAsReported /\ RingsAsReported

\* An event is drawn above its parents, and two events of a chain are drawn in one
\* place only if the page missed an event between them.
OnePlaceEach ==
    ~disturbed =>
        /\ \A x \in edges : circles[x.child].height > circles[x.parent].height
        /\ \A e, f \in lookup :
              e < f /\ data[e].node = data[f].node /\ circles[e].height = circles[f].height
              => \E k \in e .. f : k \in ChainOf(data[e].node) \ lookup
================================================================================
