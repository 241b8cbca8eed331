---------------------------- MODULE EventViewProofs ----------------------------
(***************************************************************************)
(* Theorems about the explorer's drawing of the hashgraph (EventView).     *)
(*                                                                         *)
(* ViewTypeOK and ViewInvariant together are inductive.  From them follow  *)
(* DrawnAsReported at once, ThrowsOnlyDisturbed because a traversal only   *)
(* throws at an edge that is missing, and SelectionIsAncestry because an   *)
(* event that is drawn later is no ancestor of one drawn before.           *)
(* OnePlaceEach needs that the chains of the node have no forks            *)
(* (PlaceInvariant).                                                       *)
(***************************************************************************)
EXTENDS EventView, FiniteSetTheorems, TLAPS

(***************************************************************************)
(* Reports                                                                 *)
(***************************************************************************)
\* The fields that a report can have.
Fields == Parent \cup {"node", "witness", "famous", "round", "remove"}

\* What the report of an event says of its chain and its parents is what the node knows.
LEMMA ReportNamesParents ==
    ASSUME NEW e, NEW event
    PROVE  /\ DOMAIN Report(e, event) \subseteq Fields
           /\ "remove" \notin DOMAIN Report(e, event)
           /\ "node" \in DOMAIN Report(e, event) /\ Report(e, event).node = event.node
           /\ \A p \in Parent :
                 /\ p \in DOMAIN Report(e, event) <=> event[p] # None
                 /\ p \in DOMAIN Report(e, event) => Report(e, event)[p] = event[p]
  BY DEF Report, Parent, Fields

\* A field of an updated event is that of the report, if the report has it, and the
\* field that was known otherwise.
LEMMA AssignFields ==
    ASSUME NEW old, NEW new
    PROVE  /\ DOMAIN Assign(old, new) = DOMAIN old \cup DOMAIN new
           /\ \A f \in DOMAIN new : Assign(old, new)[f] = new[f]
           /\ \A f \in DOMAIN old \ DOMAIN new : Assign(old, new)[f] = old[f]
  BY DEF Assign

(***************************************************************************)
(* Drawing                                                                 *)
(***************************************************************************)
\* The circle of a new event is above those of its parents, by one row above the higher one.
LEMMA HeightOfNew ==
    ASSUME NEW m, NEW n \in Nat,
           \A p \in SidesOnStage(m) : circles[m[p]].height \in 1 .. n
    PROVE  /\ HeightOf(m) \in 1 .. n + 1
           /\ \A p \in SidesOnStage(m) : HeightOf(m) > circles[m[p]].height
<1> DEFINE below == {circles[m[p]].height : p \in SidesOnStage(m)}
<1>1. CASE below = {}
  <2>1. \A p \in SidesOnStage(m) : circles[m[p]].height \in below
    OBVIOUS
  <2>2. HeightOf(m) = 1
    BY <1>1 DEF HeightOf
  <2>3. SidesOnStage(m) = {}
    BY <1>1, <2>1
  <2> QED BY ONLY <2>2, <2>3, n \in Nat
<1>2. CASE below # {}
  <2>1. \E h \in below : \A k \in below : k <= h
    <3>1. PICK p \in SidesOnStage(m) : TRUE
      BY <1>2
    <3>2. CASE \A q \in SidesOnStage(m) : circles[m[q]].height <= circles[m[p]].height
      BY <3>1, <3>2
    <3>3. CASE \E q \in SidesOnStage(m) : ~(circles[m[q]].height <= circles[m[p]].height)
      <4>1. PICK q \in SidesOnStage(m) : ~(circles[m[q]].height <= circles[m[p]].height)
        BY <3>3
      <4>2. \A r \in SidesOnStage(m) : r = p \/ r = q
        BY <3>1, <4>1 DEF SidesOnStage, Parent
      <4>3. \A r \in SidesOnStage(m) : circles[m[r]].height <= circles[m[q]].height
        BY <3>1, <4>1, <4>2
      <4> QED BY <4>1, <4>3
    <3> QED BY <3>2, <3>3
  <2> DEFINE top == CHOOSE h \in below : \A k \in below : k <= h
  <2>2. top \in 1 .. n /\ \A k \in below : k <= top
    BY <2>1
  <2>3. HeightOf(m) = 1 + top
    BY <1>2 DEF HeightOf
  <2>4. \A p \in SidesOnStage(m) : circles[m[p]].height <= top
    BY <2>2
  <2> HIDE DEF top
  <2> QED BY <2>2, <2>3, <2>4
<1> QED BY <1>1, <1>2

\* The rings of an event follow from what is known of it.
LEMMA RingsFollowData ==
    ASSUME NEW d, NEW m, NEW ring \in [witness : BOOLEAN, label : BOOLEAN,
                            famous : {"none", "#0021c9", "#5ac900", "#2F80ED"}]
    PROVE  /\ RingsFor(ring, d, m) \in [witness : BOOLEAN, label : BOOLEAN,
                            famous : {"none", "#0021c9", "#5ac900", "#2F80ED"}]
           /\ RingAsReported(RingsFor(ring, d, m), d)
<1> DEFINE t == Truthy(d, "witness")
           w == MakeNodeWitness(ring, d)
           f == MakeNodeFamous(w, d)
           l == f.label \/ ("round" \in DOMAIN m /\ m.round = "object")
           r == SetNodeRound(f, m)
<1>1. t \in BOOLEAN /\ l \in BOOLEAN
  BY DEF Truthy
<1>2. w = [ring EXCEPT !.witness = t]
  BY DEF MakeNodeWitness
<1>3. w = [witness |-> t, label |-> ring.label, famous |-> ring.famous]
  <2> HIDE DEF t, w
  <2> QED BY <1>1, <1>2
<1>4. /\ f = [witness |-> t, label |-> ring.label, famous |-> f.famous]
      /\ f.famous \in {"none", "#0021c9", "#5ac900", "#2F80ED"}
      /\ f.famous = "none" <=> "famous" \notin DOMAIN d
      /\ f.famous = "#2F80ED" <=> "famous" \in DOMAIN d /\ d.famous = FALSE
  <2> DEFINE c == IF Truthy(d, "famous")
                  THEN IF w.famous = "none" THEN "#0021c9" ELSE "#5ac900"
                  ELSE IF "famous" \in DOMAIN d THEN "#2F80ED" ELSE "none"
  <2>1. f = [w EXCEPT !.famous = c]
    BY DEF MakeNodeFamous
  <2>2. f = [witness |-> t, label |-> ring.label, famous |-> c]
    <3> HIDE DEF t, w, f, c
    <3> QED BY <1>1, <1>3, <2>1
  <2>3. /\ c \in {"none", "#0021c9", "#5ac900", "#2F80ED"}
        /\ c = "none" <=> "famous" \notin DOMAIN d
        /\ c = "#2F80ED" <=> "famous" \in DOMAIN d /\ d.famous = FALSE
    <3>1. CASE Truthy(d, "famous")
      <4>1. "famous" \in DOMAIN d /\ d.famous # FALSE
        BY <3>1 DEF Truthy
      <4>2. c \in {"#0021c9", "#5ac900"}
        BY <3>1
      <4> HIDE DEF c
      <4> QED BY <4>1, <4>2
    <3>2. CASE ~Truthy(d, "famous")
      <4>1. "famous" \in DOMAIN d => d.famous = FALSE
        BY <3>2 DEF Truthy
      <4>2. c = IF "famous" \in DOMAIN d THEN "#2F80ED" ELSE "none"
        BY <3>2
      <4> HIDE DEF c
      <4> QED BY <4>1, <4>2
    <3> QED BY <3>1, <3>2
  <2> HIDE DEF t, w, f, c
  <2> QED BY <2>2, <2>3
<1>5. r = [f EXCEPT !.label = l]
  BY DEF SetNodeRound
<1>6. r = [witness |-> t, label |-> l, famous |-> f.famous]
  <2> HIDE DEF t, w, f, l, r
  <2> QED BY <1>1, <1>4, <1>5
<1>7. RingsFor(ring, d, m) = r
  BY DEF RingsFor
<1>8. r.witness = t /\ r.famous = f.famous
  BY <1>6
<1>9. r \in [witness : BOOLEAN, label : BOOLEAN,
             famous : {"none", "#0021c9", "#5ac900", "#2F80ED"}]
  <2> HIDE DEF t, w, f, l, r
  <2> QED BY <1>1, <1>4, <1>6
<1>10. RingAsReported(r, d)
  <2> HIDE DEF w, f, l, r
  <2> QED BY <1>4, <1>8 DEF RingAsReported
<1> HIDE DEF w, f, l, r
<1> QED BY <1>7, <1>9, <1>10

(***************************************************************************)
(* A report, as the node sends it                                          *)
(***************************************************************************)
\* What makes a report m of event e one that the page can follow.
Followed(e, m) ==
    /\ ~disturbed
    /\ \A k \in 1 .. Len(events) : events'[k] = events[k]
    /\ Len(events) <= Len(events')
    /\ e \in 1 .. Len(events')
    /\ \/ Parent \cap DOMAIN m = {}
       \/ \A p \in Parent :
             /\ p \in DOMAIN m <=> events'[e][p] # None
             /\ p \in DOMAIN m => m[p] = events'[e][p]
    /\ "mother" \in DOMAIN m => "node" \in DOMAIN m
    /\ "node" \in DOMAIN m => m.node = events'[e].node
    /\ Listens /\ e \notin lookup /\ "mother" \in DOMAIN m => \A k \in lookup : k < e
    /\ Listens /\ e \in lookup => "remove" \notin DOMAIN m

\* The types of the fields that the node changes, and of a report.
NodeStep(m) ==
    /\ events' \in Seq([node : Chain, mother : Event \cup {Grounded, None},
                        father : Event \cup {Grounded, None}])
    /\ Len(events') <= MaxEvents
    /\ extra' \in 0 .. MaxExtra
    /\ disturbed' \in BOOLEAN
    /\ DOMAIN m \subseteq Fields
    /\ \A k \in 1 .. Len(events') : \A p \in Parent :
          events'[k][p] \in (1 .. k - 1) \cup {Grounded, None}

\* An event is drawn with the right types, and in the order in which it was connected.
LEMMA CreateTypes ==
    ASSUME ViewTypeOK, ViewInvariant, NEW e \in Event, NEW m, NodeStep(m),
           CreateEventNode(e, m), UNCHANGED <<subscribed, paused, selected>>
    PROVE  /\ ViewTypeOK'
           /\ \A x \in lookup' : circles'[x].height <= Cardinality(lookup')
           /\ RingsAsReported'
<1>0. MaxEvents \in Nat /\ IsFiniteSet(Event) /\ Cardinality(Event) = MaxEvents
  BY EventAssumption, FS_Interval DEF Event
<1>1. /\ lookup \subseteq Event /\ lookup' = lookup \cup {e} /\ lookup' \subseteq Event
      /\ IsFiniteSet(lookup) /\ IsFiniteSet(lookup')
      /\ Cardinality(lookup) \in Nat
      /\ Cardinality(lookup') = Cardinality(lookup) + 1
      /\ Cardinality(lookup') <= MaxEvents
  <2>1. lookup \subseteq Event /\ lookup' = lookup \cup {e} /\ lookup' \subseteq Event /\ e \notin lookup
    BY DEF ViewTypeOK, CreateEventNode
  <2> QED BY <1>0, <2>1, FS_Subset, FS_AddElement, FS_CardinalityType
<1>2. HeightOf(m) \in 1 .. Cardinality(lookup')
  <2>1. \A p \in SidesOnStage(m) : circles[m[p]].height \in 1 .. Cardinality(lookup)
    BY <1>1 DEF SidesOnStage, OnStage, ViewTypeOK, ViewInvariant
  <2> QED BY <2>1, <1>1, HeightOfNew
<1>3. circles' = [x \in lookup' |-> IF x = e THEN [height |-> HeightOf(m), colour |-> "plain"]
                                    ELSE circles[x]]
  BY <1>1 DEF CreateEventNode, ViewTypeOK
<1>4. circles' \in [lookup' -> [height : 1 .. MaxEvents, colour : Colour]]
  BY <1>0, <1>1, <1>2, <1>3 DEF ViewTypeOK, Colour
<1>5. \A x \in lookup' : circles'[x].height <= Cardinality(lookup')
  BY <1>1, <1>2, <1>3 DEF ViewInvariant, ViewTypeOK
<1>6. /\ DOMAIN data' = Event
      /\ \A x \in Event : DOMAIN data'[x] \subseteq Fields
  BY DEF CreateEventNode, ViewTypeOK, NodeStep, Fields
<1>7. /\ rings' \in [Event -> [witness : BOOLEAN, label : BOOLEAN,
                               famous : {"none", "#0021c9", "#5ac900", "#2F80ED"}]]
      /\ rings'[e] = RingsFor(rings[e], m, m)
      /\ \A x \in lookup : rings'[x] = rings[x]
  BY RingsFollowData, <1>1 DEF CreateEventNode, ViewTypeOK
<1>8. RingsAsReported'
  <2>1. RingAsReported(rings'[e], m)
    BY <1>7, RingsFollowData DEF ViewTypeOK
  <2>2. data'[e] = m /\ \A x \in lookup : data'[x] = data[x]
    BY <1>1 DEF CreateEventNode, ViewTypeOK
  <2> QED BY <1>1, <1>7, <2>1, <2>2 DEF RingsAsReported, ViewInvariant
<1>9. edges' \subseteq [child : Event, side : Parent, parent : Event]
  BY <1>1 DEF CreateEventNode, ViewTypeOK, EdgesOf, SidesOnStage, OnStage
<1> QED
  BY <1>1, <1>4, <1>5, <1>6, <1>7, <1>8, <1>9
  DEF ViewTypeOK, NodeStep, CreateEventNode, Fields

\* What the page shows when nothing disturbed it: the last part of ViewInvariant.
Agrees ==
    /\ lookup \subseteq 1 .. Len(events)
    /\ \A e \in lookup : ParentsAsConnected(data[e], e)
    /\ EdgesAsReported
    /\ selected.live => selected.id \in lookup
    /\ ~selected.live /\ selected.id # None =>
          /\ selected.id \in 1 .. Len(events)
          /\ ParentsAsConnected(selected.data, selected.id)

\* The edges that are reported, one by one.
IsEdge(z, L, d) ==
    \E x \in L : \E p \in Parent :
        p \in DOMAIN d[x] /\ d[x][p] \in L /\ z = [child |-> x, side |-> p, parent |-> d[x][p]]

\* EdgesAsReported, edge by edge.
LEMMA EdgeByEdge ==
    ASSUME NEW L, NEW d, NEW E
    PROVE  E = UNION {{[child |-> e, side |-> p, parent |-> d[e][p]] :
                          p \in {q \in Parent \cap DOMAIN d[e] : d[e][q] \in L}} : e \in L}
           <=> \A z : z \in E <=> IsEdge(z, L, d)
<1> DEFINE R == UNION {{[child |-> e, side |-> p, parent |-> d[e][p]] :
                          p \in {q \in Parent \cap DOMAIN d[e] : d[e][q] \in L}} : e \in L}
<1>1. ASSUME NEW z PROVE z \in R <=> IsEdge(z, L, d)
  <2>1. ASSUME z \in R PROVE IsEdge(z, L, d)
    BY <2>1 DEF IsEdge
  <2>2. ASSUME IsEdge(z, L, d) PROVE z \in R
    <3>1. PICK x \in L : \E p \in Parent :
                p \in DOMAIN d[x] /\ d[x][p] \in L
                /\ z = [child |-> x, side |-> p, parent |-> d[x][p]]
      BY <2>2 DEF IsEdge
    <3>2. z \in {[child |-> x, side |-> p, parent |-> d[x][p]] :
                    p \in {q \in Parent \cap DOMAIN d[x] : d[x][q] \in L}}
      BY <3>1
    <3> QED BY <3>2
  <2> QED BY <2>1, <2>2
<1> HIDE DEF R
<1>2. E = R <=> \A z : z \in E <=> IsEdge(z, L, d)
  BY <1>1
<1> QED BY <1>2 DEF R

\* An event that is later than all known events is a parent of none.
LEMMA LaterIsNoParent ==
    ASSUME ViewTypeOK, ViewInvariant, ~disturbed, NEW e \in Event, \A k \in lookup : k < e
    PROVE  \A x \in lookup : \A p \in Parent : p \in DOMAIN data[x] => data[x][p] # e
<1> SUFFICES ASSUME NEW x \in lookup, NEW p \in Parent, p \in DOMAIN data[x],
                    data[x][p] = e
             PROVE  FALSE
  OBVIOUS
<1>1. events[x][p] = e /\ x \in 1 .. Len(events)
  BY DEF ViewInvariant, ParentsAsConnected
<1>2. events[x][p] \in (1 .. x - 1) \cup {Grounded, None}
  BY <1>1 DEF ViewInvariant
<1>3. x < e /\ e # Grounded /\ e # None
  BY IdAssumption
<1> QED BY <1>1, <1>2, <1>3

\* An event that is drawn after all that are later than its parents gets the edges that
\* it should have, and no event drawn before lacks an edge to it.
LEMMA CreateAgrees ==
    ASSUME ViewTypeOK, ViewInvariant, NEW e \in Event, NEW m, NodeStep(m),
           Followed(e, m), Listens, CreateEventNode(e, m), UNCHANGED selected
    PROVE  Agrees'
<1>1. /\ Agrees /\ e \notin lookup /\ lookup' = lookup \cup {e}
      /\ data'[e] = m /\ \A x \in lookup : data'[x] = data[x]
      /\ "mother" \in DOMAIN m
      /\ \A k \in lookup : k < e
      /\ e \in 1 .. Len(events') /\ lookup \subseteq 1 .. Len(events')
      /\ Len(events) \in Nat /\ Len(events') \in Nat
      /\ \A x \in lookup : events'[x] = events[x]
  BY DEF ViewTypeOK, ViewInvariant, Agrees, Followed, CreateEventNode, NodeStep
<1>2. \A x \in lookup' : ParentsAsConnected(data[x], x)'
  <2>1. \A p \in Parent :
            /\ p \in DOMAIN m <=> events'[e][p] # None
            /\ p \in DOMAIN m => m[p] = events'[e][p]
    BY <1>1 DEF Followed, Parent
  <2> QED BY <1>1, <2>1 DEF Agrees, ParentsAsConnected
<1>3. EdgesAsReported'
  <2>1. \A x \in lookup : \A p \in Parent : p \in DOMAIN data[x] => data[x][p] # e
    BY <1>1, LaterIsNoParent DEF Followed
  <2>2. \A p \in Parent : p \in DOMAIN m => m[p] # e
    <3>1. \A p \in Parent : p \in DOMAIN m =>
              m[p] \in (1 .. e - 1) \cup {Grounded, None}
      BY <1>1 DEF Followed, NodeStep
    <3> QED BY <1>1, <3>1, IdAssumption DEF Event
  <2>3. EdgesOf(e, m) = {[child |-> e, side |-> p, parent |-> m[p]] :
                             p \in {q \in Parent \cap DOMAIN m : m[q] \in lookup}}
    BY DEF EdgesOf, SidesOnStage, OnStage, ViewTypeOK
  <2>4. \A z : z \in edges <=> IsEdge(z, lookup, data)
    BY <1>1, EdgeByEdge DEF Agrees, EdgesAsReported, KnownSides
  <2>5. edges' = edges \cup EdgesOf(e, m)
    BY DEF CreateEventNode
  <2>6. \A z : z \in edges' <=> IsEdge(z, lookup', data')
    <3>1. ASSUME NEW z PROVE IsEdge(z, lookup, data) => IsEdge(z, lookup', data')
      BY <1>1 DEF IsEdge
    <3>2. ASSUME NEW z \in EdgesOf(e, m) PROVE IsEdge(z, lookup', data')
      <4>1. PICK p \in Parent : /\ p \in DOMAIN m /\ m[p] \in lookup
                                /\ z = [child |-> e, side |-> p, parent |-> m[p]]
        BY <2>3
      <4> QED BY <1>1, <4>1 DEF IsEdge
    <3>3. ASSUME NEW z, IsEdge(z, lookup', data')
          PROVE  IsEdge(z, lookup, data) \/ z \in EdgesOf(e, m)
      <4>1. PICK x \in lookup', p \in Parent :
                /\ p \in DOMAIN data'[x] /\ data'[x][p] \in lookup'
                /\ z = [child |-> x, side |-> p, parent |-> data'[x][p]]
        BY <3>3 DEF IsEdge
      <4>2. CASE x = e
        BY <1>1, <2>2, <2>3, <4>1, <4>2
      <4>3. CASE x \in lookup
        BY <1>1, <2>1, <4>1, <4>3 DEF IsEdge
      <4> QED BY <1>1, <4>2, <4>3
    <3> QED BY <2>4, <2>5, <3>1, <3>2, <3>3
  <2> QED BY <2>6, EdgeByEdge DEF EdgesAsReported, KnownSides
<1>4. /\ selected'.live => selected'.id \in lookup'
      /\ ~selected'.live /\ selected'.id # None =>
            /\ selected'.id \in 1 .. Len(events')
            /\ ParentsAsConnected(selected.data, selected.id)'
  BY <1>1 DEF Agrees, ParentsAsConnected, Followed
<1> QED BY <1>1, <1>2, <1>3, <1>4 DEF Agrees

\* An update changes rings with the data, and takes edges away at most.
LEMMA UpdateTypes ==
    ASSUME ViewTypeOK, ViewInvariant, NEW e \in Event, NEW m, NodeStep(m),
           UpdateEventNode(e, m), UNCHANGED <<subscribed, paused, selected>>
    PROVE  /\ ViewTypeOK'
           /\ \A x \in lookup' : circles'[x].height <= Cardinality(lookup')
           /\ RingsAsReported'
<1>1. /\ lookup' = lookup /\ circles' = circles /\ e \in lookup
      /\ data'[e] = Assign(data[e], m)
      /\ \A x \in Event \ {e} : data'[x] = data[x]
      /\ DOMAIN data' = Event
  BY DEF UpdateEventNode, ViewTypeOK
<1>2. \A x \in Event : DOMAIN data'[x] \subseteq Fields
  <2>1. DOMAIN data'[e] = DOMAIN data[e] \cup DOMAIN m
    BY <1>1, AssignFields
  <2> QED BY <1>1, <2>1 DEF ViewTypeOK, NodeStep, Fields
<1>3. /\ rings' \in [Event -> [witness : BOOLEAN, label : BOOLEAN,
                               famous : {"none", "#0021c9", "#5ac900", "#2F80ED"}]]
      /\ rings'[e] = RingsFor(rings[e], Assign(data[e], m), m)
      /\ \A x \in Event \ {e} : rings'[x] = rings[x]
  BY RingsFollowData DEF UpdateEventNode, ViewTypeOK
<1>4. RingsAsReported'
  <2>1. RingAsReported(rings'[e], data'[e])
    BY <1>1, <1>3, RingsFollowData DEF ViewTypeOK
  <2> QED BY <1>1, <1>3, <2>1 DEF RingsAsReported, ViewInvariant, ViewTypeOK
<1>5. /\ edges' \subseteq [child : Event, side : Parent, parent : Event]
      /\ lit' \subseteq [child : Event, side : Parent]
      /\ threw' \in BOOLEAN
  BY DEF UpdateEventNode, ViewTypeOK
<1>6. \A x \in lookup' : circles'[x].height <= Cardinality(lookup')
  BY <1>1 DEF ViewInvariant
<1> QED
  BY <1>1, <1>2, <1>3, <1>4, <1>5, <1>6 DEF ViewTypeOK, NodeStep, Fields

\* An update leaves the parents of the event as they are.
LEMMA UpdateKeepsParents ==
    ASSUME ViewTypeOK, ViewInvariant, NEW e \in Event, NEW m, NodeStep(m),
           Followed(e, m), UpdateEventNode(e, m)
    PROVE  \A x \in lookup : \A p \in Parent :
               /\ p \in DOMAIN data'[x] <=> p \in DOMAIN data[x]
               /\ p \in DOMAIN data[x] => data'[x][p] = data[x][p]
<1>1. /\ e \in lookup /\ lookup \subseteq Event /\ lookup \subseteq 1 .. Len(events)
      /\ data'[e] = Assign(data[e], m)
      /\ \A x \in Event \ {e} : data'[x] = data[x]
  BY DEF UpdateEventNode, ViewTypeOK, Followed, ViewInvariant
<1>2. \A p \in Parent : p \in DOMAIN m =>
          p \in DOMAIN data[e] /\ data[e][p] = m[p]
  <2>1. events'[e] = events[e] /\ ParentsAsConnected(data[e], e)
    BY <1>1 DEF Followed, ViewInvariant
  <2> QED BY <2>1 DEF Followed, ParentsAsConnected
<1>3. \A p \in Parent :
          /\ p \in DOMAIN data'[e] <=> p \in DOMAIN data[e]
          /\ p \in DOMAIN data[e] => data'[e][p] = data[e][p]
  <2>1. /\ DOMAIN data'[e] = DOMAIN data[e] \cup DOMAIN m
        /\ \A f \in DOMAIN m : data'[e][f] = m[f]
        /\ \A f \in DOMAIN data[e] \ DOMAIN m : data'[e][f] = data[e][f]
    <3> DEFINE new == Assign(data[e], m)
    <3>1. /\ DOMAIN new = DOMAIN data[e] \cup DOMAIN m
          /\ \A f \in DOMAIN m : new[f] = m[f]
          /\ \A f \in DOMAIN data[e] \ DOMAIN m : new[f] = data[e][f]
      BY ONLY AssignFields
    <3> HIDE DEF new
    <3>2. data'[e] = new
      BY <1>1 DEF new
    <3> QED BY ONLY <3>1, <3>2
  <2> QED BY <1>2, <2>1
<1> QED BY <1>1, <1>3

\* So the page agrees with the node when it has known data of the same parents.
LEMMA SameParentsAgree ==
    ASSUME Agrees, lookup' = lookup, edges' = edges, selected' = selected,
           Len(events) \in Nat, Len(events') \in Nat, Len(events) <= Len(events'),
           \A k \in 1 .. Len(events) : events'[k] = events[k],
           \A x \in lookup : \A p \in Parent :
               /\ p \in DOMAIN data'[x] <=> p \in DOMAIN data[x]
               /\ p \in DOMAIN data[x] => data'[x][p] = data[x][p]
    PROVE  Agrees'
<1>1. \A x \in lookup' : ParentsAsConnected(data[x], x)'
  BY DEF Agrees, ParentsAsConnected
<1>2. EdgesAsReported'
  <2>1. \A z : z \in edges <=> IsEdge(z, lookup, data)
    BY EdgeByEdge DEF Agrees, EdgesAsReported, KnownSides
  <2>2. \A z : IsEdge(z, lookup, data) <=> IsEdge(z, lookup', data')
    BY DEF IsEdge
  <2>3. \A z : z \in edges' <=> IsEdge(z, lookup', data')
    BY <2>1, <2>2
  <2>4. edges' = UNION {{[child |-> x, side |-> p, parent |-> data'[x][p]] :
                            p \in {q \in Parent \cap DOMAIN data'[x] : data'[x][q] \in lookup'}}
                        : x \in lookup'}
    BY ONLY <2>3, EdgeByEdge
  <2> QED BY ONLY <2>4 DEF EdgesAsReported, KnownSides
<1>3. /\ selected'.live => selected'.id \in lookup'
      /\ ~selected'.live /\ selected'.id # None =>
            /\ selected'.id \in 1 .. Len(events')
            /\ ParentsAsConnected(selected.data, selected.id)'
  BY DEF Agrees, ParentsAsConnected
<1>4. lookup' \subseteq 1 .. Len(events')
  BY DEF Agrees
<1> QED BY <1>1, <1>2, <1>3, <1>4 DEF Agrees

--------------------------------------------------------------------------------
(***************************************************************************)
(* The page keeps its invariant when a report arrives, and throws only if  *)
(* it cannot follow it.                                                    *)
(***************************************************************************)
LEMMA SetEventNodeKeepsInvariant ==
    ASSUME ViewTypeOK, ViewInvariant, NEW e \in Event, NEW m, NodeStep(m),
           SetEventNode(e, m), ~disturbed' => Followed(e, m)
    PROVE  ViewTypeOK' /\ ViewInvariant' /\ (threw' => disturbed')
<1>1. UNCHANGED <<subscribed, paused, selected>>
  BY DEF SetEventNode
<1>2. CASE Listens /\ CreateEventNode(e, m)
  <2>1. ~disturbed' => Agrees'
    BY <1>1, <1>2, CreateAgrees
  <2> QED
    BY <1>1, <1>2, <2>1, CreateTypes DEF ViewInvariant, Agrees, NodeStep, CreateEventNode
<1>3. CASE Listens /\ UpdateEventNode(e, m)
  <2>1. ASSUME ~disturbed' PROVE "remove" \notin DOMAIN m /\ edges' = edges /\ ~threw'
    BY <1>3, <2>1 DEF Followed, UpdateEventNode
  <2>2. ASSUME ~disturbed' PROVE Agrees'
    <3>1. /\ Agrees /\ lookup' = lookup
          /\ Len(events) \in Nat /\ Len(events') \in Nat
          /\ Len(events) <= Len(events')
          /\ \A k \in 1 .. Len(events) : events'[k] = events[k]
      BY <1>3, <2>2
      DEF Agrees, ViewInvariant, UpdateEventNode, ViewTypeOK, NodeStep, Followed
    <3> QED BY <1>1, <1>3, <2>1, <2>2, <3>1, UpdateKeepsParents, SameParentsAgree
  <2> QED
    BY <1>1, <1>3, <2>1, <2>2, UpdateTypes DEF ViewInvariant, Agrees, NodeStep
<1>4. CASE threw' = FALSE /\ UNCHANGED <<known, stage>>
  <2>1. ViewTypeOK'
    BY <1>1, <1>4 DEF ViewTypeOK, NodeStep, known, stage, OnStage
  <2>2. ASSUME ~disturbed' PROVE Agrees'
    <3>1. /\ Agrees /\ Len(events) \in Nat /\ Len(events') \in Nat
          /\ Len(events) <= Len(events')
          /\ \A k \in 1 .. Len(events) : events'[k] = events[k]
      BY <2>2 DEF Agrees, ViewInvariant, ViewTypeOK, NodeStep, Followed
    <3> QED BY <1>1, <1>4, <3>1, SameParentsAgree DEF known, stage
  <2>3. /\ RingsAsReported'
        /\ \A x \in lookup' : circles'[x].height <= Cardinality(lookup')
    BY <1>4 DEF ViewInvariant, RingsAsReported, known, stage
  <2> QED BY <1>4, <2>1, <2>2, <2>3 DEF ViewInvariant, Agrees, NodeStep
<1> QED BY <1>2, <1>3, <1>4 DEF SetEventNode, IgnoreEvent

(***************************************************************************)
(* The reports of the node                                                 *)
(***************************************************************************)
\* A new event is later than all that the page knows.
LEMMA ConnectIsFollowed ==
    ASSUME ViewTypeOK, ViewInvariant, NEW n \in Chain, ConnectEvent(n)
    PROVE  \E e \in Event : \E m : /\ NodeStep(m) /\ SetEventNode(e, m)
                                   /\ ~disturbed' => Followed(e, m)
<1> DEFINE e == Len(events) + 1
<1>1. /\ Len(events) \in Nat /\ e \in Event /\ e \in Nat
      /\ \A k \in 1 .. Len(events) : k \in Event
  BY EventAssumption DEF ViewTypeOK, ConnectEvent, Event
<1>2. PICK p \in ParentsOf(n) :
        LET event == [node |-> n, mother |-> p.mother, father |-> p.father]
        IN  events' = Append(events, event) /\ SetEventNode(e, Report(e, event))
  BY DEF ConnectEvent
<1> DEFINE event == [node |-> n, mother |-> p.mother, father |-> p.father]
           m == Report(e, event)
<1>3. /\ event.mother \in (1 .. Len(events)) \cup {Grounded, None}
      /\ event.father \in (1 .. Len(events)) \cup {Grounded, None}
  BY DEF ParentsOf, ChainOf, Fathers
<1>4. \A q \in Parent : event[q] \in (1 .. Len(events)) \cup {Grounded, None}
  BY <1>3 DEF Parent
<1>5. event \in [node : Chain, mother : Event \cup {Grounded, None},
                 father : Event \cup {Grounded, None}]
  BY <1>1, <1>3
<1> HIDE DEF event
<1>6. /\ events' = Append(events, event)
      /\ events' \in Seq([node : Chain, mother : Event \cup {Grounded, None},
                          father : Event \cup {Grounded, None}])
      /\ Len(events') = e
      /\ \A k \in 1 .. Len(events) : events'[k] = events[k]
      /\ events'[e] = event
  BY <1>1, <1>2, <1>5 DEF ViewTypeOK, event
<1>7. NodeStep(m)
  <2>1. ASSUME NEW k \in 1 .. Len(events'), NEW q \in Parent
        PROVE  events'[k][q] \in (1 .. k - 1) \cup {Grounded, None}
    <3>1. CASE k = e
      BY <1>1, <1>4, <1>6, <3>1
    <3>2. CASE k \in 1 .. Len(events)
      BY <1>6, <3>2 DEF ViewInvariant
    <3> QED BY <1>1, <1>6, <3>1, <3>2
  <2>2. DOMAIN m \subseteq Fields
    BY ReportNamesParents
  <2>3. Len(events') <= MaxEvents
    BY <1>1, <1>6, EventAssumption DEF Event
  <2> QED BY <1>6, <2>1, <2>2, <2>3 DEF NodeStep, ConnectEvent, ViewTypeOK
<1>8. ~disturbed' => Followed(e, m)
  <2> SUFFICES ASSUME ~disturbed PROVE Followed(e, m)
    BY DEF ConnectEvent
  <2>1. \A q \in Parent :
            /\ q \in DOMAIN m <=> events'[e][q] # None
            /\ q \in DOMAIN m => m[q] = events'[e][q]
    BY <1>6, ReportNamesParents
  <2>2. "node" \in DOMAIN m /\ m.node = events'[e].node
    BY <1>6, ReportNamesParents
  <2>3. lookup \subseteq 1 .. Len(events) /\ "remove" \notin DOMAIN m
    BY ReportNamesParents DEF ViewInvariant
  <2>4. \A k \in lookup : k < e
    BY <1>1, <2>3
  <2>5. e \in 1 .. Len(events') /\ Len(events) <= Len(events')
    BY <1>1, <1>6
  <2> HIDE DEF e, m
  <2> QED BY <1>6, <2>1, <2>2, <2>3, <2>4, <2>5 DEF Followed
<1>9. SetEventNode(e, m)
  BY <1>2 DEF event
<1> QED BY <1>1, <1>7, <1>8, <1>9

\* A later report is followed unless it is one that disturbs.
LEMMA LaterIsFollowed ==
    ASSUME ViewTypeOK, ViewInvariant, NEW e \in Event, NEW m, ReportLater(e, m),
           m \in Later \/ m = Report(e, events[e])
    PROVE  /\ NodeStep(m) /\ SetEventNode(e, m)
           /\ ~disturbed' => Followed(e, m)
<1>1. /\ events' = events /\ e <= Len(events) /\ Len(events) \in Nat /\ e \in 1 .. Len(events)
      /\ extra' \in 0 .. MaxExtra /\ SetEventNode(e, m)
  BY EventAssumption DEF ReportLater, ViewTypeOK, Event
<1>2. DOMAIN m \subseteq Fields
  BY ReportNamesParents, LaterAssumption DEF Fields
<1>3. disturbed' \in BOOLEAN
  BY DEF ReportLater, ViewTypeOK
<1>4. NodeStep(m)
  BY <1>1, <1>2, <1>3 DEF NodeStep, ViewTypeOK, ViewInvariant
<1>5. \/ Parent \cap DOMAIN m = {}
      \/ \A p \in Parent :
            /\ p \in DOMAIN m <=> events'[e][p] # None
            /\ p \in DOMAIN m => m[p] = events'[e][p]
  <2>1. CASE m \in Later
    BY <2>1, LaterAssumption DEF Parent
  <2>2. CASE m = Report(e, events[e])
    BY <1>1, <2>2, ReportNamesParents
  <2> QED BY <2>1, <2>2
<1>6. /\ "mother" \in DOMAIN m => "node" \in DOMAIN m
      /\ "node" \in DOMAIN m => m.node = events'[e].node
  BY <1>1, ReportNamesParents, LaterAssumption
<1>7. ASSUME ~disturbed' PROVE Followed(e, m)
  <2>1. /\ ~disturbed
        /\ Listens /\ e \in lookup => "remove" \notin DOMAIN m
        /\ Listens /\ e \notin lookup /\ "mother" \in DOMAIN m => \A k \in lookup : ~(k > e)
    BY <1>7 DEF ReportLater
  <2>2. lookup \subseteq 1 .. Len(events)
    BY <2>1 DEF ViewInvariant
  <2>3. Listens /\ e \notin lookup /\ "mother" \in DOMAIN m => \A k \in lookup : k < e
    BY <1>1, <2>1, <2>2
  <2> QED BY <1>1, <1>5, <1>6, <2>1, <2>3 DEF Followed
<1> QED BY <1>1, <1>4, <1>7

--------------------------------------------------------------------------------
(***************************************************************************)
(* Clicks                                                                  *)
(***************************************************************************)
\* Data that name the same parents as the page knows, as the data of a selection do.
SameParents(d) ==
    \A x \in lookup : \A p \in Parent :
        /\ p \in DOMAIN d[x] <=> p \in DOMAIN data[x]
        /\ p \in DOMAIN d[x] => d[x][p] = data[x][p]

\* A traversal gets to known events and to edges between them.
LEMMA TraversalTypes ==
    ASSUME ViewTypeOK, NEW d, NEW e, NEW t \in Traversals(d, e)
    PROVE  t.sides \subseteq [child : Event, side : Parent] /\ t.throws \in BOOLEAN
<1>1. \A S : S \subseteq lookup => KnownEdges(d, S) \subseteq [child : Event, side : Parent]
  BY DEF KnownEdges, KnownSides, ViewTypeOK
<1>2. Ancestry(d, e) \subseteq lookup
  BY DEF Ancestry
<1>3. CASE ~OnStage(e)
  <2>1. t = [nodes |-> {}, sides |-> {}, throws |-> FALSE]
    BY <1>3 DEF Traversals
  <2> QED BY ONLY <2>1
<1>4. CASE OnStage(e) /\ Missing(d, Ancestry(d, e)) = {}
  <2>1. t = [nodes |-> Ancestry(d, e), sides |-> KnownEdges(d, Ancestry(d, e)),
             throws |-> FALSE]
    BY <1>4 DEF Traversals
  <2>2. t.sides = KnownEdges(d, Ancestry(d, e)) /\ t.throws = FALSE
    BY ONLY <2>1
  <2> QED BY <1>1, <1>2, <2>2
<1>5. CASE OnStage(e) /\ Missing(d, Ancestry(d, e)) # {}
  <2>1. \E S \in SUBSET Ancestry(d, e) : \E U \in SUBSET KnownEdges(d, S) :
            t = [nodes |-> S, sides |-> U, throws |-> TRUE]
    BY <1>5 DEF Traversals
  <2> QED BY <1>1, <1>2, <2>1
<1> QED BY <1>3, <1>4, <1>5

\* While nothing disturbed the page, no traversal misses an edge.
LEMMA TraversalIsComplete ==
    ASSUME ViewTypeOK, ViewInvariant, ~disturbed, NEW d, SameParents(d),
           NEW e, NEW t \in Traversals(d, e)
    PROVE  t = IF OnStage(e)
               THEN [nodes |-> Ancestry(d, e), sides |-> KnownEdges(d, Ancestry(d, e)),
                     throws |-> FALSE]
               ELSE [nodes |-> {}, sides |-> {}, throws |-> FALSE]
<1>1. Missing(d, Ancestry(d, e)) = {}
  <2> SUFFICES ASSUME NEW y \in KnownEdges(d, Ancestry(d, e))
               PROVE  HasEdge(y.child, y.side)
    BY DEF Missing
  <2>1. PICK x \in Ancestry(d, e) : \E p \in KnownSides(d, x) :
            y = [child |-> x, side |-> p]
    BY DEF KnownEdges
  <2>2. PICK p \in KnownSides(d, x) : y = [child |-> x, side |-> p]
    BY <2>1
  <2>3. /\ x \in lookup /\ p \in Parent /\ p \in DOMAIN data[x]
        /\ data[x][p] \in lookup
    BY <2>2 DEF Ancestry, KnownSides, SameParents
  <2>4. \A z : z \in edges <=> IsEdge(z, lookup, data)
    BY EdgeByEdge DEF ViewInvariant, EdgesAsReported, KnownSides
  <2>5. [child |-> x, side |-> p, parent |-> data[x][p]] \in edges
    BY <2>3, <2>4 DEF IsEdge
  <2> QED BY <2>2, <2>5 DEF HasEdge
<1> QED BY <1>1 DEF Traversals

\* The circles that the page can have.
Circles == [lookup -> [height : 1 .. MaxEvents, colour : Colour]]

\* Colouring changes nothing but colours.
LEMMA TakingBackKeepsHeights ==
    ASSUME NEW cs \in Circles, NEW S
    PROVE  /\ TakenBack(cs, S) \in Circles
           /\ \A x \in lookup :
                 /\ TakenBack(cs, S)[x].height = cs[x].height
                 /\ TakenBack(cs, S)[x].colour =
                       IF x \notin S THEN cs[x].colour ELSE "plain"
  BY DEF TakenBack, HighlightedFrom, Colour, Circles

\* Nor does highlighting change heights.
LEMMA HighlightingKeepsHeights ==
    ASSUME NEW cs \in Circles, NEW e, NEW S
    PROVE  /\ HighlightedFrom(cs, e, S) \in Circles
           /\ \A x \in lookup :
                 /\ HighlightedFrom(cs, e, S)[x].height = cs[x].height
                 /\ HighlightedFrom(cs, e, S)[x].colour =
                       IF x \notin S THEN cs[x].colour
                       ELSE IF x = e THEN "primary" ELSE "child"
  BY DEF TakenBack, HighlightedFrom, Colour, Circles

\* The data by which the highlighting of the selected event is taken back.
SelectedData ==
    IF selected.live THEN data ELSE [data EXCEPT ![selected.id] = selected.data]

\* The data of the selected event name the parents that the page knows of it.
LEMMA SelectedHasSameParents ==
    ASSUME ViewTypeOK, ViewInvariant, ~disturbed
    PROVE  SameParents(SelectedData)
<1>1. CASE selected.live
  BY <1>1 DEF SameParents, SelectedData
<1>2. CASE ~selected.live /\ selected.id = None
  BY <1>2, IdAssumption DEF SameParents, SelectedData, ViewTypeOK
<1>3. CASE ~selected.live /\ selected.id # None
  <2>1. SelectedData = [data EXCEPT ![selected.id] = selected.data]
    BY <1>3 DEF SelectedData
  <2>2. /\ selected.id \in Event /\ lookup \subseteq Event /\ DOMAIN data = Event
        /\ ParentsAsConnected(selected.data, selected.id)
        /\ \A x \in lookup : ParentsAsConnected(data[x], x)
    BY <1>3 DEF ViewTypeOK, ViewInvariant
  <2>3. \A x \in lookup : SelectedData[x] = IF x = selected.id THEN selected.data ELSE data[x]
    BY <2>1, <2>2
  <2> QED BY <2>2, <2>3 DEF SameParents, ParentsAsConnected
<1> QED BY <1>1, <1>2, <1>3

\* What a click or a double click does to the page, in general and undisturbed.
LEMMA ClickSteps ==
    ASSUME ViewTypeOK, ViewInvariant, NEW e \in Event, Click(e)
    PROVE  /\ circles' \in Circles
           /\ \A x \in lookup : circles'[x].height = circles[x].height
           /\ lit' \subseteq [child : Event, side : Parent]
           /\ threw' \in BOOLEAN
           /\ e \in lookup
           /\ selected' = selected \/ selected' = [id |-> e, live |-> TRUE, data |-> <<>>]
           /\ ~disturbed => /\ ~threw'
                            /\ selected' = [id |-> e, live |-> TRUE, data |-> <<>>]
<1>0. circles \in Circles /\ e \in lookup
      /\ lit \subseteq [child : Event, side : Parent]
  BY DEF ViewTypeOK, Click, OnStage, Circles
<1>1. PICK t \in Deselections :
        IF t.throws
        THEN /\ circles' = Deselect(t).circles
             /\ lit' = Deselect(t).lit
             /\ threw' = TRUE
             /\ UNCHANGED selected
        ELSE \E u \in Traversals(data, e) :
             /\ circles' = HighlightedFrom(Deselect(t).circles, e, u.nodes)
             /\ lit' = Deselect(t).lit \cup u.sides
             /\ selected' = [id |-> e, live |-> TRUE, data |-> <<>>]
             /\ threw' = u.throws
  BY DEF Click
<1>2. /\ Deselect(t).circles = TakenBack(circles, t.nodes)
      /\ Deselect(t).lit = lit \ t.sides
  BY DEF Deselect
<1>3. /\ Deselect(t).circles \in Circles
      /\ \A x \in lookup : Deselect(t).circles[x].height = circles[x].height
  <2> DEFINE cs == TakenBack(circles, t.nodes)
  <2>1. /\ cs \in Circles
        /\ \A x \in lookup : cs[x].height = circles[x].height
    BY ONLY <1>0, TakingBackKeepsHeights
  <2> QED BY <1>2, <2>1
<1>4. CASE t.throws
  <2>1. disturbed
    <3> SUFFICES ASSUME ~disturbed PROVE FALSE
      OBVIOUS
    <3>1. t \in Traversals(SelectedData, selected.id)
      BY DEF Deselections, SelectedData
    <3> QED BY <1>4, <3>1, SelectedHasSameParents, TraversalIsComplete
  <2> QED BY <1>0, <1>1, <1>2, <1>3, <1>4, <2>1
<1>5. CASE ~t.throws
  <2>1. PICK u \in Traversals(data, e) :
             /\ circles' = HighlightedFrom(Deselect(t).circles, e, u.nodes)
             /\ lit' = Deselect(t).lit \cup u.sides
             /\ selected' = [id |-> e, live |-> TRUE, data |-> <<>>]
             /\ threw' = u.throws
    BY <1>1, <1>5
  <2>2. /\ circles' \in Circles
        /\ \A x \in lookup : circles'[x].height = circles[x].height
    <3> DEFINE cs == Deselect(t).circles
               ds == HighlightedFrom(cs, e, u.nodes)
    <3> HIDE DEF cs
    <3>1. cs \in Circles
      BY <1>3 DEF cs
    <3>2. /\ ds \in Circles
          /\ \A x \in lookup : ds[x].height = cs[x].height
      BY ONLY <3>1, HighlightingKeepsHeights
    <3> HIDE DEF ds
    <3>3. circles' = ds
      BY <2>1 DEF cs, ds
    <3> QED BY <1>3, <3>2, <3>3 DEF cs, ds
  <2>3. lit' \subseteq [child : Event, side : Parent] /\ threw' \in BOOLEAN
    BY <1>0, <1>2, <2>1, TraversalTypes
  <2>4. ASSUME ~disturbed PROVE ~threw'
    <3>1. SameParents(data)
      BY DEF SameParents
    <3> QED BY <2>1, <2>4, <3>1, TraversalIsComplete
  <2> QED BY <1>0, <2>1, <2>2, <2>3, <2>4
<1> QED BY <1>4, <1>5

\* A double click does the same without the second traversal.
LEMMA DoubleClickSteps ==
    ASSUME ViewTypeOK, ViewInvariant, DoubleClick
    PROVE  /\ circles' \in Circles
           /\ \A x \in lookup : circles'[x].height = circles[x].height
           /\ lit' \subseteq [child : Event, side : Parent]
           /\ threw' \in BOOLEAN
           /\ selected' = selected \/ selected' = NoSelection
           /\ ~disturbed => ~threw' /\ selected' = NoSelection
<1>1. PICK t \in Deselections :
        /\ circles' = TakenBack(circles, t.nodes)
        /\ lit' = lit \ t.sides
        /\ threw' = t.throws
        /\ selected' = IF t.throws THEN selected ELSE NoSelection
  BY DEF DoubleClick, Deselect
<1>2. t \in Traversals(SelectedData, selected.id)
  BY DEF Deselections, SelectedData
<1>3. circles \in Circles
  BY DEF ViewTypeOK, Circles
<1>4. /\ TakenBack(circles, t.nodes) \in Circles
      /\ \A x \in lookup : TakenBack(circles, t.nodes)[x].height = circles[x].height
  BY ONLY <1>3, TakingBackKeepsHeights
<1>5. t.throws \in BOOLEAN
  BY <1>2, TraversalTypes
<1>6. ~disturbed => ~t.throws
  BY <1>2, SelectedHasSameParents, TraversalIsComplete
<1> QED BY <1>1, <1>4, <1>5, <1>6 DEF ViewTypeOK

\* When only circles, highlighting and the selection change, the rest holds as before.
LEMMA SelectionKeepsInvariant ==
    ASSUME ViewTypeOK, ViewInvariant,
           UNCHANGED <<node, subscribed, paused, known, edges, rings, disturbed>>,
           circles' \in Circles,
           \A x \in lookup : circles'[x].height = circles[x].height,
           lit' \subseteq [child : Event, side : Parent], threw' \in BOOLEAN,
           \/ selected' = selected
           \/ selected' = NoSelection
           \/ \E e \in lookup : selected' = [id |-> e, live |-> TRUE, data |-> <<>>]
    PROVE  ViewTypeOK' /\ ViewInvariant'
<1>1. /\ DOMAIN selected' = {"id", "live", "data"}
      /\ selected'.id \in Event \cup {None}
      /\ selected'.live \in BOOLEAN
      /\ selected'.live => selected'.id \in Event
  <2>1. CASE selected' = selected
    BY <2>1 DEF ViewTypeOK
  <2>2. CASE selected' = NoSelection
    BY <2>2 DEF NoSelection
  <2>3. CASE \E e \in lookup : selected' = [id |-> e, live |-> TRUE, data |-> <<>>]
    BY <2>3 DEF ViewTypeOK
  <2> QED BY <2>1, <2>2, <2>3
<1>2. ViewTypeOK'
  BY <1>1 DEF ViewTypeOK, node, known, Circles
<1>3. EdgesAsReported => EdgesAsReported'
  BY DEF EdgesAsReported, KnownSides, known
<1>4. RingsAsReported'
  BY DEF ViewInvariant, RingsAsReported, known
<1>5. ASSUME ~disturbed
      PROVE  /\ selected'.live => selected'.id \in lookup'
             /\ ~selected'.live /\ selected'.id # None =>
                   /\ selected'.id \in 1 .. Len(events')
                   /\ ParentsAsConnected(selected.data, selected.id)'
  <2>1. CASE selected' = selected
    BY <1>5, <2>1 DEF ViewInvariant, ParentsAsConnected, node, known
  <2>2. CASE selected' = NoSelection
    BY <2>2 DEF NoSelection
  <2>3. CASE \E e \in lookup : selected' = [id |-> e, live |-> TRUE, data |-> <<>>]
    BY <2>3 DEF known
  <2> QED BY <2>1, <2>2, <2>3
<1>6. ~disturbed' => \A x \in lookup' : ParentsAsConnected(data[x], x)'
  BY DEF ViewInvariant, ParentsAsConnected, node, known
<1> QED BY <1>2, <1>3, <1>4, <1>5, <1>6 DEF ViewInvariant, node, known

--------------------------------------------------------------------------------
(***************************************************************************)
(* Clearing, and what the node does besides reports                        *)
(***************************************************************************)
\* Clearing empties the page, and leaves of the selection what the page knew.
LEMMA ResetKeepsInvariant ==
    ASSUME ViewTypeOK, ViewInvariant, Reset, UNCHANGED node,
           subscribed' = subscribed, paused' \in BOOLEAN
    PROVE  ViewTypeOK' /\ ViewInvariant' /\ ~threw'
<1>1. /\ lookup' = {} /\ edges' = {} /\ lit' = {} /\ threw' = FALSE
      /\ circles' = [e \in {} |-> None]
      /\ data' = [e \in Event |-> <<>>]
      /\ rings' = [e \in Event |-> NoRings]
      /\ events' = events /\ extra' = extra
      /\ disturbed' = (disturbed /\ selected.id # None)
  BY DEF Reset, node
<1>2. /\ DOMAIN selected' = {"id", "live", "data"}
      /\ selected'.id = selected.id
      /\ selected'.live = FALSE
      /\ selected'.data = IF selected.live THEN data[selected.id] ELSE selected.data
  BY DEF Reset, ViewTypeOK
<1>3. disturbed' \in BOOLEAN
  BY <1>1 DEF ViewTypeOK
<1>4. rings' \in [Event -> [witness : BOOLEAN, label : BOOLEAN,
                            famous : {"none", "#0021c9", "#5ac900", "#2F80ED"}]]
  BY <1>1 DEF NoRings
<1>5. /\ DOMAIN data' = Event
      /\ \A e \in Event : DOMAIN data'[e] = {}
  BY <1>1
<1>6. circles' \in [lookup' -> [height : 1 .. MaxEvents, colour : Colour]]
  BY <1>1
<1>7. ViewTypeOK'
  BY <1>1, <1>2, <1>3, <1>4, <1>5, <1>6 DEF ViewTypeOK
<1>8. EdgesAsReported' /\ RingsAsReported'
  BY <1>1 DEF EdgesAsReported, RingsAsReported
<1>9. ASSUME ~disturbed', selected'.id # None
      PROVE  /\ selected'.id \in 1 .. Len(events')
             /\ ParentsAsConnected(selected.data, selected.id)'
  <2>1. ~disturbed
    BY <1>1, <1>2, <1>9
  <2>2. CASE selected.live
    BY <1>1, <1>2, <2>1, <2>2 DEF ViewInvariant, ParentsAsConnected
  <2>3. CASE ~selected.live
    BY <1>1, <1>2, <1>9, <2>1, <2>3 DEF ViewInvariant, ParentsAsConnected
  <2> QED BY <2>2, <2>3
<1> QED BY <1>1, <1>2, <1>7, <1>8, <1>9 DEF ViewInvariant

\* A restart of the node leaves the page as it is, and disturbs it unless it is empty.
LEMMA RestartKeepsInvariant ==
    ASSUME ViewTypeOK, ViewInvariant, RestartNode
    PROVE  ViewTypeOK' /\ ViewInvariant' /\ ~threw'
<1>1. /\ events' = <<>> /\ extra' \in 0 .. MaxExtra /\ threw' = FALSE
      /\ disturbed' = (disturbed \/ lookup # {} \/ selected.id # None)
      /\ UNCHANGED <<subscribed, paused, lookup, data, circles, edges, lit, rings, selected>>
  BY EventAssumption DEF RestartNode, ViewTypeOK, known, stage
<1>2. disturbed' \in BOOLEAN
  BY <1>1 DEF ViewTypeOK
<1>3. Len(events') = 0 /\ 0 <= MaxEvents
  BY <1>1, EventAssumption
<1>4. ViewTypeOK'
  <2>1. events' \in Seq([node : Chain, mother : Event \cup {Grounded, None},
                         father : Event \cup {Grounded, None}])
    BY <1>1
  <2>2. circles' \in [lookup' -> [height : 1 .. MaxEvents, colour : Colour]]
    BY <1>1 DEF ViewTypeOK
  <2>3. rings' \in [Event -> [witness : BOOLEAN, label : BOOLEAN,
                              famous : {"none", "#0021c9", "#5ac900", "#2F80ED"}]]
    BY <1>1 DEF ViewTypeOK
  <2> QED BY <1>1, <1>2, <1>3, <2>1, <2>2, <2>3 DEF ViewTypeOK
<1>5. RingsAsReported'
  BY <1>1 DEF ViewInvariant, RingsAsReported
<1>6. ASSUME ~disturbed' PROVE lookup' = {} /\ ~selected'.live /\ selected'.id = None
                               /\ EdgesAsReported'
  <2>1. ~disturbed /\ lookup = {} /\ selected.id = None
    BY <1>1, <1>6
  <2>2. edges = {}
    BY <2>1 DEF ViewInvariant, EdgesAsReported
  <2> QED BY <1>1, <2>1, <2>2, IdAssumption DEF ViewTypeOK, EdgesAsReported
<1> QED BY <1>1, <1>3, <1>4, <1>5, <1>6 DEF ViewInvariant

--------------------------------------------------------------------------------
(***************************************************************************)
(* The invariant is inductive                                              *)
(***************************************************************************)
IInv == ViewTypeOK /\ ViewInvariant

\* The page is empty at first, and nothing was thrown.
LEMMA InitInvariant == Init => IInv /\ ~threw
<1> SUFFICES ASSUME Init PROVE IInv /\ ~threw
  OBVIOUS
<1>1. /\ lookup = {} /\ edges = {} /\ circles = [e \in {} |-> None]
      /\ events = <<>> /\ Len(events) = 0 /\ MaxEvents \in Nat /\ extra \in 0 .. MaxExtra
  BY EventAssumption DEF Init
<1>2. circles \in [lookup -> [height : 1 .. MaxEvents, colour : Colour]]
  BY <1>1
<1>3. rings \in [Event -> [witness : BOOLEAN, label : BOOLEAN,
                           famous : {"none", "#0021c9", "#5ac900", "#2F80ED"}]]
  BY DEF Init, NoRings
<1>4. events \in Seq([node : Chain, mother : Event \cup {Grounded, None},
                      father : Event \cup {Grounded, None}])
  BY <1>1
<1>5. /\ DOMAIN selected = {"id", "live", "data"} /\ selected.id = None
      /\ selected.live = FALSE
  BY DEF Init, NoSelection
<1>6. ViewTypeOK
  <2>1. DOMAIN data = Event /\ \A e \in Event : DOMAIN data[e] = {}
    BY DEF Init
  <2>2. /\ subscribed = FALSE /\ paused = FALSE /\ threw = FALSE /\ disturbed = FALSE
        /\ lit = {}
    BY DEF Init
  <2>3. /\ {subscribed, paused, threw, disturbed, selected.live} \subseteq BOOLEAN
        /\ selected.live => selected.id \in Event
    BY ONLY <1>5, <2>2
  <2>4. \A e \in Event : DOMAIN data[e] \subseteq
                            Parent \cup {"node", "witness", "famous", "round", "remove"}
    BY ONLY <2>1
  <2>5. /\ edges \subseteq [child : Event, side : Parent, parent : Event]
        /\ lit \subseteq [child : Event, side : Parent]
        /\ lookup \subseteq Event /\ Len(events) <= MaxEvents
    BY ONLY <1>1, <2>2
  <2> QED BY ONLY <1>1, <1>2, <1>3, <1>4, <1>5, <2>1, <2>3, <2>4, <2>5 DEF ViewTypeOK
<1>7. EdgesAsReported /\ RingsAsReported
  BY <1>1 DEF EdgesAsReported, RingsAsReported
<1> QED BY <1>1, <1>5, <1>6, <1>7 DEF IInv, ViewInvariant, Init

\* The inductive step: the invariant is kept, and a step that throws leaves the page
\* disturbed.
LEMMA NextInvariant ==
    ASSUME IInv, threw => disturbed, [Next]_vars
    PROVE  IInv' /\ (threw' => disturbed')
<1> USE DEF IInv
<1>1. ASSUME NEW n \in Chain, ConnectEvent(n)
      PROVE  IInv' /\ (threw' => disturbed')
  <2>1. PICK e, m : /\ e \in Event /\ NodeStep(m) /\ SetEventNode(e, m)
                    /\ ~disturbed' => Followed(e, m)
    BY <1>1, ConnectIsFollowed
  <2> QED BY <2>1, SetEventNodeKeepsInvariant
<1>2. ASSUME NEW e \in Event, ReportAgain(e)
      PROVE  IInv' /\ (threw' => disturbed')
  <2>1. ReportLater(e, Report(e, events[e]))
    BY <1>2 DEF ReportAgain
  <2> QED BY <2>1, LaterIsFollowed, SetEventNodeKeepsInvariant
<1>3. ASSUME NEW e \in Event, NEW m \in Later, ReportLater(e, m)
      PROVE  IInv' /\ (threw' => disturbed')
  BY <1>3, LaterIsFollowed, SetEventNodeKeepsInvariant
<1>4. ASSUME NEW e \in Event, Click(e)
      PROVE  IInv' /\ (threw' => disturbed')
  <2>1. UNCHANGED <<node, subscribed, paused, known, edges, rings, disturbed>>
    BY <1>4 DEF Click
  <2>2. IInv'
    BY <1>4, <2>1, ClickSteps, SelectionKeepsInvariant
  <2>3. ~disturbed => ~threw'
    BY <1>4, ClickSteps
  <2> QED BY <2>1, <2>2, <2>3
<1>5. ASSUME DoubleClick PROVE IInv' /\ (threw' => disturbed')
  <2>1. UNCHANGED <<node, subscribed, paused, known, edges, rings, disturbed>>
    BY <1>5 DEF DoubleClick
  <2>2. IInv'
    BY <1>5, <2>1, DoubleClickSteps, SelectionKeepsInvariant
  <2>3. ~disturbed => ~threw'
    BY <1>5, DoubleClickSteps
  <2> QED BY <2>1, <2>2, <2>3
<1>6. ASSUME Clear \/ Resume PROVE IInv' /\ (threw' => disturbed')
  <2>1. Reset /\ UNCHANGED node /\ subscribed' = subscribed /\ paused' \in BOOLEAN
    BY <1>6 DEF Clear, Resume, ViewTypeOK
  <2> QED BY <2>1, ResetKeepsInvariant
<1>7. ASSUME Pause \/ Subscribe PROVE IInv' /\ (threw' => disturbed')
  <2>1. /\ UNCHANGED <<node, known, stage, selected, disturbed>>
        /\ subscribed' \in BOOLEAN /\ paused' \in BOOLEAN /\ threw' = FALSE
    BY <1>7 DEF Pause, Subscribe, ViewTypeOK
  <2>2. ViewTypeOK'
    BY <2>1 DEF ViewTypeOK, node, known, stage
  <2>3. ViewInvariant'
    BY <2>1
    DEF ViewInvariant, node, known, stage, EdgesAsReported, RingsAsReported, KnownSides,
        ParentsAsConnected
  <2> QED BY <2>1, <2>2, <2>3
<1>8. ASSUME RestartNode PROVE IInv' /\ (threw' => disturbed')
  BY <1>8, RestartKeepsInvariant
<1>9. ASSUME UNCHANGED vars PROVE IInv' /\ (threw' => disturbed')
  BY <1>9
  DEF vars, ViewTypeOK, ViewInvariant, node, known, stage, EdgesAsReported,
      RingsAsReported, KnownSides, ParentsAsConnected
<1> QED BY <1>1, <1>2, <1>3, <1>4, <1>5, <1>6, <1>7, <1>8, <1>9 DEF Next

\* The types of the page and of the node's events hold in every state.
THEOREM ViewTypesHold == Spec => []ViewTypeOK
<1>1. Init => IInv /\ (threw => disturbed)
  BY InitInvariant
<1>2. IInv /\ (threw => disturbed) /\ [Next]_vars => IInv' /\ (threw' => disturbed')
  BY NextInvariant
<1> QED BY <1>1, <1>2, PTL DEF Spec, IInv

\* The inductive invariant holds in every state.
THEOREM ViewInvariantHolds == Spec => []ViewInvariant
<1>1. Init => IInv /\ (threw => disturbed)
  BY InitInvariant
<1>2. IInv /\ (threw => disturbed) /\ [Next]_vars => IInv' /\ (threw' => disturbed')
  BY NextInvariant
<1> QED BY <1>1, <1>2, PTL DEF Spec, IInv

\* No handler of the page throws unless it was disturbed.
THEOREM ThrowsOnlyWhenDisturbed == Spec => []ThrowsOnlyDisturbed
<1>1. Init => IInv /\ (threw => disturbed)
  BY InitInvariant
<1>2. IInv /\ (threw => disturbed) /\ [Next]_vars => IInv' /\ (threw' => disturbed')
  BY NextInvariant
<1> QED BY <1>1, <1>2, PTL DEF Spec, ThrowsOnlyDisturbed

\* What is drawn is what was reported.
THEOREM DrawingAgrees == Spec => []DrawnAsReported
<1>1. ViewTypeOK /\ ViewInvariant => DrawnAsReported
  BY DEF ViewTypeOK, ViewInvariant, DrawnAsReported
<1> QED BY <1>1, ViewTypesHold, ViewInvariantHolds, PTL

--------------------------------------------------------------------------------
(***************************************************************************)
(* The selection                                                           *)
(***************************************************************************)
\* Sides, ancestors and edges, for given known events and data.
Sides(L, d, x) == {p \in Parent \cap DOMAIN d[x] : d[x][p] \in L}

Closed(L, d, S) == \A x \in S : \A p \in Sides(L, d, x) : d[x][p] \in S

Reach(L, d, e) == {a \in L : \A S \in SUBSET L : e \in S /\ Closed(L, d, S) => a \in S}

EdgesFrom(L, d, S) == UNION {{[child |-> x, side |-> p] : p \in Sides(L, d, x)} : x \in S}

\* Ancestry and KnownEdges are the same as Reach and EdgesFrom for what is known now.
LEMMA Unfolded ==
    /\ \A d, e : Ancestry(d, e) = Reach(lookup, d, e)
    /\ \A d, S : KnownEdges(d, S) = EdgesFrom(lookup, d, S)
  BY DEF Ancestry, Reach, ClosedUnderParents, Closed, KnownEdges, EdgesFrom, KnownSides, Sides

\* An event is reached from itself, and only known events are reached.
LEMMA ReachContains ==
    ASSUME NEW L, NEW d, NEW e \in L
    PROVE  e \in Reach(L, d, e) /\ Reach(L, d, e) \subseteq L
  BY DEF Reach

\* Events that are known later, and are parents of none that was known, change neither
\* the ancestors of a known event nor the edges between them.
LEMMA LaterEventsKeepAncestry ==
    ASSUME NEW L, NEW M, L \subseteq M, NEW d, NEW c, NEW e \in L,
           \A x \in L : Sides(M, c, x) = Sides(L, d, x),
           \A x \in L : \A p \in Sides(L, d, x) : c[x][p] = d[x][p]
    PROVE  /\ Reach(M, c, e) = Reach(L, d, e)
           /\ \A S \in SUBSET L : EdgesFrom(M, c, S) = EdgesFrom(L, d, S)
<1>1. \A S \in SUBSET L : Closed(M, c, S) <=> Closed(L, d, S)
  BY DEF Closed
<1>2. \A x \in L : \A p \in Sides(L, d, x) : d[x][p] \in L
  BY DEF Sides
<1>3. Closed(L, d, L)
  BY <1>2 DEF Closed
<1>4. Reach(M, c, e) \subseteq Reach(L, d, e)
  <2> SUFFICES ASSUME NEW a \in Reach(M, c, e) PROVE a \in Reach(L, d, e)
    OBVIOUS
  <2>1. \A S \in SUBSET M : e \in S /\ Closed(M, c, S) => a \in S
    BY DEF Reach
  <2>2. \A S \in SUBSET L : e \in S /\ Closed(L, d, S) => a \in S
    BY <1>1, <2>1
  <2>3. a \in L
    BY <1>3, <2>2
  <2> QED BY <2>2, <2>3 DEF Reach
<1>5. Reach(L, d, e) \subseteq Reach(M, c, e)
  <2> SUFFICES ASSUME NEW a \in Reach(L, d, e),
                      NEW S \in SUBSET M, e \in S, Closed(M, c, S)
               PROVE  a \in S
    BY DEF Reach
  <2>1. Closed(L, d, S \cap L)
    BY <1>2 DEF Closed
  <2> QED BY <2>1 DEF Reach
<1>6. \A S \in SUBSET L : EdgesFrom(M, c, S) = EdgesFrom(L, d, S)
  BY DEF EdgesFrom
<1> QED BY <1>4, <1>5, <1>6

\* What SelectionIsAncestry says when nothing disturbed the page.
Selection ==
    IF ~selected.live THEN Highlighted = {} /\ lit = {}
    ELSE /\ selected.id \in lookup
         /\ Highlighted = Ancestry(data, selected.id)
         /\ {e \in Highlighted : circles[e].colour = "primary"} = {selected.id}
         /\ lit = KnownEdges(data, Highlighted)

\* Reports and events drawn later leave the selection right.
LEMMA DrawingKeepsSelection ==
    ASSUME Selection, selected' = selected, lit' = lit, lookup \subseteq lookup',
           Highlighted' = Highlighted,
           \A x \in lookup : circles'[x] = circles[x],
           \A x \in lookup : Sides(lookup', data', x) = Sides(lookup, data, x),
           \A x \in lookup : \A p \in Sides(lookup, data, x) : data'[x][p] = data[x][p]
    PROVE  Selection'
<1>1. CASE ~selected.live
  BY <1>1 DEF Selection
<1>2. CASE selected.live
  <2>1. /\ selected.id \in lookup
        /\ Highlighted = Reach(lookup, data, selected.id)
        /\ {e \in Highlighted : circles[e].colour = "primary"} = {selected.id}
        /\ lit = EdgesFrom(lookup, data, Highlighted)
    BY <1>2, Unfolded DEF Selection
  <2>2. Highlighted \subseteq lookup
    BY <2>1, ReachContains
  <2>3. /\ Reach(lookup', data', selected.id) = Reach(lookup, data, selected.id)
        /\ EdgesFrom(lookup', data', Highlighted) = EdgesFrom(lookup, data, Highlighted)
    <3> DEFINE L == lookup   M == lookup'   d == data   c == data'   H == Highlighted
               i == selected.id
    <3>1. /\ L \subseteq M /\ i \in L /\ H \in SUBSET L
          /\ \A x \in L : Sides(M, c, x) = Sides(L, d, x)
          /\ \A x \in L : \A p \in Sides(L, d, x) : c[x][p] = d[x][p]
      BY <2>1, <2>2
    <3> HIDE DEF L, M, d, c, H, i
    <3>2. /\ Reach(M, c, i) = Reach(L, d, i)
          /\ \A S \in SUBSET L : EdgesFrom(M, c, S) = EdgesFrom(L, d, S)
      BY ONLY <3>1, LaterEventsKeepAncestry
    <3>3. EdgesFrom(M, c, H) = EdgesFrom(L, d, H)
      BY <3>1, <3>2
    <3> QED BY <3>2, <3>3 DEF L, M, d, c, H, i
  <2>4. {e \in Highlighted' : circles'[e].colour = "primary"} = {selected.id}
    BY <2>1, <2>2
  <2>5. /\ Ancestry(data, selected.id)' = Reach(lookup', data', selected'.id)
        /\ KnownEdges(data, Highlighted)' = EdgesFrom(lookup', data', Highlighted')
    BY DEF Ancestry, Reach, ClosedUnderParents, Closed, KnownEdges, EdgesFrom, KnownSides,
           Sides
  <2> QED BY <1>2, <2>1, <2>3, <2>4, <2>5 DEF Selection
<1> QED BY <1>1, <1>2

\* A report that is followed leaves the selection right.
LEMMA ReportKeepsSelection ==
    ASSUME ViewTypeOK, ViewInvariant, Selection, NEW e \in Event, NEW m, NodeStep(m),
           SetEventNode(e, m), Followed(e, m)
    PROVE  Selection'
<1>1. selected' = selected /\ ~disturbed /\ lookup \subseteq Event
  BY DEF SetEventNode, Followed, ViewTypeOK
<1>2. CASE Listens /\ CreateEventNode(e, m)
  <2>1. /\ lookup' = lookup \cup {e} /\ e \notin lookup /\ lit' = lit
        /\ \A x \in lookup : data'[x] = data[x]
        /\ DOMAIN circles = lookup
        /\ DOMAIN circles' = lookup'
        /\ \A x \in lookup : circles'[x] = circles[x]
        /\ circles'[e].colour = "plain"
    BY <1>1, <1>2 DEF CreateEventNode, ViewTypeOK
  <2>2. Highlighted' = Highlighted
    BY <2>1 DEF Highlighted
  <2>3. \A k \in lookup : k < e
    BY <1>2 DEF Followed, CreateEventNode
  <2>4. \A x \in lookup : \A p \in Parent : p \in DOMAIN data[x] => data[x][p] # e
    BY <1>1, <2>3, LaterIsNoParent
  <2>5. \A x \in lookup : Sides(lookup', data', x) = Sides(lookup, data, x)
    BY <2>1, <2>4 DEF Sides
  <2> QED BY <1>1, <2>1, <2>2, <2>5, DrawingKeepsSelection
<1>3. CASE Listens /\ UpdateEventNode(e, m)
  <2>1. lookup' = lookup /\ circles' = circles /\ lit' = lit
    BY <1>3 DEF Followed, UpdateEventNode
  <2>2. Highlighted' = Highlighted
    BY <2>1 DEF Highlighted
  <2>3. \A x \in lookup : \A p \in Parent :
            /\ p \in DOMAIN data'[x] <=> p \in DOMAIN data[x]
            /\ p \in DOMAIN data[x] => data'[x][p] = data[x][p]
    BY <1>3, UpdateKeepsParents
  <2>4. \A x \in lookup : Sides(lookup', data', x) = Sides(lookup, data, x)
    BY <2>1, <2>3 DEF Sides
  <2>5. \A x \in lookup : \A p \in Sides(lookup, data, x) : data'[x][p] = data[x][p]
    BY <2>3 DEF Sides
  <2> QED BY <1>1, <2>1, <2>2, <2>4, <2>5, DrawingKeepsSelection
<1>4. CASE UNCHANGED <<known, stage>>
  <2>1. /\ lookup' = lookup /\ data' = data /\ circles' = circles /\ lit' = lit
    BY <1>4 DEF known, stage
  <2>2. Highlighted' = Highlighted
    BY <2>1 DEF Highlighted
  <2> QED BY <1>1, <2>1, <2>2, DrawingKeepsSelection
<1> QED BY <1>2, <1>3, <1>4 DEF SetEventNode, IgnoreEvent

\* Undisturbed, the highlighting that was there is taken back whole.
LEMMA AllTakenBack ==
    ASSUME ViewTypeOK, ViewInvariant, Selection, ~disturbed, NEW t \in Deselections
    PROVE  /\ ~t.throws
           /\ TakenBack(circles, t.nodes) \in Circles
           /\ \A x \in lookup : TakenBack(circles, t.nodes)[x].colour = "plain"
           /\ lit \ t.sides = {}
<1>1. t \in Traversals(SelectedData, selected.id)
  BY DEF Deselections, SelectedData
<1>2. t = IF OnStage(selected.id)
          THEN [nodes |-> Ancestry(SelectedData, selected.id),
                sides |-> KnownEdges(SelectedData, Ancestry(SelectedData, selected.id)),
                throws |-> FALSE]
          ELSE [nodes |-> {}, sides |-> {}, throws |-> FALSE]
  BY <1>1, SelectedHasSameParents, TraversalIsComplete
<1>3. Highlighted \subseteq t.nodes /\ lit \subseteq t.sides
  <2>1. CASE ~selected.live
    BY <2>1 DEF Selection
  <2>2. CASE selected.live
    <3>1. OnStage(selected.id) /\ SelectedData = data
      BY <2>2 DEF Selection, OnStage, SelectedData, ViewTypeOK
    <3> QED BY <1>2, <2>2, <3>1 DEF Selection
  <2> QED BY <2>1, <2>2
<1>4. circles \in Circles
  BY DEF Circles, ViewTypeOK
<1>5. /\ TakenBack(circles, t.nodes) \in Circles
      /\ \A x \in lookup : TakenBack(circles, t.nodes)[x].colour =
                               IF x \notin t.nodes THEN circles[x].colour ELSE "plain"
  BY ONLY <1>4, TakingBackKeepsHeights
<1>6. \A x \in lookup : x \notin t.nodes => circles[x].colour = "plain"
  BY <1>3, <1>4 DEF Highlighted, Circles, Colour
<1>7. ~t.throws
  BY <1>2
<1> QED BY <1>3, <1>5, <1>6, <1>7

\* Undisturbed, a click leaves just the clicked event's ancestry highlighted.
LEMMA ClickSelects ==
    ASSUME ViewTypeOK, ViewInvariant, Selection, ~disturbed, NEW e \in Event, Click(e)
    PROVE  Selection'
<1>1. PICK t \in Deselections : \E u \in Traversals(data, e) :
             /\ circles' = HighlightedFrom(TakenBack(circles, t.nodes), e, u.nodes)
             /\ lit' = (lit \ t.sides) \cup u.sides
             /\ selected' = [id |-> e, live |-> TRUE, data |-> <<>>]
  BY AllTakenBack DEF Click, Deselect
<1>2. PICK u \in Traversals(data, e) :
             /\ circles' = HighlightedFrom(TakenBack(circles, t.nodes), e, u.nodes)
             /\ lit' = (lit \ t.sides) \cup u.sides
             /\ selected' = [id |-> e, live |-> TRUE, data |-> <<>>]
  BY <1>1
<1>3. e \in lookup /\ OnStage(e) /\ lookup' = lookup /\ data' = data
  BY DEF Click, OnStage, ViewTypeOK, known
<1>4. u.nodes = Ancestry(data, e) /\ u.sides = KnownEdges(data, u.nodes)
  <2>1. SameParents(data)
    BY DEF SameParents
  <2> QED BY <1>3, <2>1, TraversalIsComplete
<1>5. e \in u.nodes /\ u.nodes \subseteq lookup
  BY <1>3, <1>4, Unfolded, ReachContains
<1> DEFINE cs == TakenBack(circles, t.nodes)
<1>6. cs \in Circles /\ \A x \in lookup : cs[x].colour = "plain"
  BY AllTakenBack
<1> HIDE DEF cs
<1>7. /\ circles' \in Circles
      /\ \A x \in lookup : circles'[x].colour =
             IF x \notin u.nodes THEN cs[x].colour ELSE IF x = e THEN "primary" ELSE "child"
  <2> DEFINE S == u.nodes
             ds == HighlightedFrom(cs, e, S)
  <2> HIDE DEF S
  <2>1. /\ ds \in Circles
        /\ \A x \in lookup : ds[x].colour =
             IF x \notin S THEN cs[x].colour ELSE IF x = e THEN "primary" ELSE "child"
    BY ONLY <1>6, HighlightingKeepsHeights
  <2>2. circles' = ds
    BY <1>2 DEF cs, S
  <2> QED BY <2>1, <2>2 DEF S
<1>8. Highlighted' = u.nodes
  <2>1. DOMAIN circles' = lookup
    BY <1>7 DEF Circles
  <2> QED BY <1>5, <1>6, <1>7, <2>1 DEF Highlighted
<1>9. {x \in Highlighted' : circles'[x].colour = "primary"} = {e}
  BY <1>5, <1>7, <1>8
<1>10. lit' = u.sides
  BY <1>2, AllTakenBack
<1>11. /\ Ancestry(data, e)' = Ancestry(data, e)
       /\ KnownEdges(data, Highlighted)' = KnownEdges(data, Highlighted')
  BY <1>3 DEF Ancestry, ClosedUnderParents, KnownEdges, KnownSides
<1>12. selected'.live /\ selected'.id = e
  BY <1>2
<1> QED BY <1>3, <1>4, <1>8, <1>9, <1>10, <1>11, <1>12 DEF Selection

\* Undisturbed, a double click leaves nothing highlighted.
LEMMA DoubleClickSelectsNothing ==
    ASSUME ViewTypeOK, ViewInvariant, Selection, ~disturbed, DoubleClick
    PROVE  Selection'
<1>1. PICK t \in Deselections : /\ circles' = TakenBack(circles, t.nodes)
                                /\ lit' = lit \ t.sides
                                /\ selected' = NoSelection
  BY AllTakenBack DEF DoubleClick, Deselect
<1>2. /\ circles' \in Circles /\ lit' = {}
      /\ \A x \in lookup : circles'[x].colour = "plain"
  BY <1>1, AllTakenBack
<1>3. Highlighted' = {}
  BY <1>2 DEF Highlighted, Circles
<1> QED BY <1>1, <1>2, <1>3 DEF Selection, NoSelection

\* Every step leaves the selection right while nothing disturbed the page.
LEMMA NextSelection ==
    ASSUME IInv, SelectionIsAncestry, [Next]_vars
    PROVE  SelectionIsAncestry'
<1> USE DEF IInv
<1>0. /\ SelectionIsAncestry <=> (~disturbed => Selection)
      /\ SelectionIsAncestry' <=> (~disturbed' => Selection')
  BY DEF SelectionIsAncestry, Selection
<1> SUFFICES ASSUME ~disturbed' PROVE Selection'
  BY <1>0
<1>1. ASSUME NEW n \in Chain, ConnectEvent(n) PROVE Selection'
  <2>1. PICK e, m : e \in Event /\ NodeStep(m) /\ SetEventNode(e, m) /\ Followed(e, m)
    BY <1>1, ConnectIsFollowed
  <2> QED BY <1>0, <2>1, ReportKeepsSelection DEF Followed
<1>2. ASSUME NEW e \in Event, ReportAgain(e) PROVE Selection'
  <2>1. ReportLater(e, Report(e, events[e]))
    BY <1>2 DEF ReportAgain
  <2>2. /\ NodeStep(Report(e, events[e])) /\ SetEventNode(e, Report(e, events[e]))
        /\ Followed(e, Report(e, events[e]))
    BY <2>1, LaterIsFollowed
  <2> QED BY <1>0, <2>2, ReportKeepsSelection DEF Followed
<1>3. ASSUME NEW e \in Event, NEW m \in Later, ReportLater(e, m) PROVE Selection'
  <2>1. NodeStep(m) /\ SetEventNode(e, m) /\ Followed(e, m)
    BY <1>3, LaterIsFollowed
  <2> QED BY <1>0, <2>1, ReportKeepsSelection DEF Followed
<1>4. ASSUME NEW e \in Event, Click(e) PROVE Selection'
  BY <1>0, <1>4, ClickSelects DEF Click
<1>5. ASSUME DoubleClick PROVE Selection'
  BY <1>0, <1>5, DoubleClickSelectsNothing DEF DoubleClick
<1>6. ASSUME Clear \/ Resume PROVE Selection'
  <2>1. /\ lit' = {} /\ circles' = [e \in {} |-> None]
        /\ selected' = IF selected.live
                       THEN [selected EXCEPT !.live = FALSE, !.data = data[selected.id]]
                       ELSE selected
    BY <1>6 DEF Clear, Resume, Reset
  <2>2. ~selected'.live
    BY <2>1 DEF ViewTypeOK
  <2>3. Highlighted' = {}
    BY <2>1 DEF Highlighted
  <2> QED BY <2>1, <2>2, <2>3 DEF Selection
<1>7. ASSUME UNCHANGED <<known, stage, selected, disturbed>> PROVE Selection'
  BY <1>0, <1>7
  DEF Selection, Highlighted, Ancestry, ClosedUnderParents, KnownEdges, KnownSides, known,
      stage
<1>8. ASSUME Pause \/ Subscribe \/ UNCHANGED vars PROVE Selection'
  BY <1>7, <1>8 DEF Pause, Subscribe, vars
<1>9. ASSUME RestartNode PROVE Selection'
  <2>1. /\ ~disturbed /\ selected.id = None /\ selected' = selected
        /\ circles' = circles /\ lit' = lit
    BY <1>9 DEF RestartNode, stage
  <2>2. ~selected.live
    BY <2>1, IdAssumption DEF ViewTypeOK
  <2> QED BY <1>0, <2>1, <2>2 DEF Selection, Highlighted
<1> QED BY <1>1, <1>2, <1>3, <1>4, <1>5, <1>6, <1>8, <1>9 DEF Next

\* A click highlights the ancestors of an event, and takes back all that was highlighted.
THEOREM SelectionHolds == Spec => []SelectionIsAncestry
<1>1. Init => SelectionIsAncestry
  BY DEF Init, SelectionIsAncestry, Highlighted, NoSelection
<1>2. IInv /\ SelectionIsAncestry /\ [Next]_vars => SelectionIsAncestry'
  BY NextSelection
<1>3. Spec => []IInv
  BY ViewTypesHold, ViewInvariantHolds, PTL DEF IInv
<1> QED BY <1>1, <1>2, <1>3, PTL DEF Spec

--------------------------------------------------------------------------------
(***************************************************************************)
(* The places                                                              *)
(***************************************************************************)
\* The mother of an event is the last event of its chain before it.
MothersAreLast(ev) ==
    \A k \in 1 .. Len(ev) : \A j \in 1 .. k - 1 :
        ev[j].node = ev[k].node =>
            /\ ev[k].mother \in j .. k - 1
            /\ ev[ev[k].mother].node = ev[k].node

\* Of two events of a chain the later one is drawn above the earlier one, unless one
\* between them is not known: ev are the events, L those known and cs their circles.
InOrder(ev, L, cs) ==
    \A e, f \in L :
        /\ e < f
        /\ ev[e].node = ev[f].node
        /\ \A k \in e .. f : ev[k].node = ev[e].node => k \in L
        => cs[e].height < cs[f].height

EdgesGoUp == \A x \in edges : circles[x.child].height > circles[x.parent].height

NodesAsConnected == \A e \in lookup : "node" \in DOMAIN data[e] /\ data[e].node = events[e].node

PlaceInvariant ==
    /\ MothersAreLast(events)
    /\ ~disturbed => EdgesGoUp /\ NodesAsConnected /\ InOrder(events, lookup, circles)

\* The order only depends on the events that are known and those between them.
LEMMA LaterEventsKeepOrder ==
    ASSUME NEW ev, NEW fv, NEW n \in Nat, NEW L \in SUBSET (1 .. n), NEW cs, NEW ds,
           \A k \in 1 .. n : fv[k] = ev[k],
           \A x \in L : ds[x].height = cs[x].height,
           InOrder(ev, L, cs)
    PROVE  InOrder(fv, L, ds)
<1> SUFFICES ASSUME NEW e \in L, NEW f \in L, e < f, fv[e].node = fv[f].node,
                    \A k \in e .. f : fv[k].node = fv[e].node => k \in L
             PROVE  ds[e].height < ds[f].height
  BY DEF InOrder
<1>1. /\ e \in 1 .. n /\ f \in 1 .. n /\ \A k \in e .. f : k \in 1 .. n
  OBVIOUS
<1>2. ev[e].node = ev[f].node
  BY <1>1
<1>3. \A k \in e .. f : ev[k].node = ev[e].node => k \in L
  BY <1>1
<1>4. cs[e].height < cs[f].height
  BY <1>2, <1>3 DEF InOrder
<1> QED BY <1>4

\* An event that is later than those known, and drawn above its mother if that one is
\* known, is drawn in order.
LEMMA NewEventInOrder ==
    ASSUME NEW ev, Len(ev) \in Nat, NEW f \in 1 .. Len(ev), NEW L \in SUBSET (1 .. f - 1),
           NEW cs, \A x \in L \cup {f} : cs[x].height \in Nat,
           MothersAreLast(ev), InOrder(ev, L, cs),
           ev[f].mother \in L => cs[f].height > cs[ev[f].mother].height
    PROVE  InOrder(ev, L \cup {f}, cs)
<1> SUFFICES ASSUME NEW e \in L \cup {f}, NEW g \in L \cup {f}, e < g,
                    ev[e].node = ev[g].node,
                    \A k \in e .. g : ev[k].node = ev[e].node => k \in L \cup {f}
             PROVE  cs[e].height < cs[g].height
  BY DEF InOrder
<1>1. e \in L
  OBVIOUS
<1>2. CASE g \in L
  <2>1. \A k \in e .. g : ev[k].node = ev[e].node => k \in L
    BY <1>1, <1>2
  <2> QED BY <1>1, <1>2, <2>1 DEF InOrder
<1>3. CASE g = f
  <2> DEFINE m == ev[f].mother
  <2>1. m \in e .. f - 1 /\ ev[m].node = ev[f].node
    BY <1>1, <1>3 DEF MothersAreLast
  <2>2. m \in L
    BY <1>3, <2>1
  <2>3. cs[f].height > cs[m].height
    BY <2>2
  <2>4. CASE m = e
    BY <1>3, <2>3, <2>4
  <2>5. CASE e < m
    <3>1. \A k \in e .. m : ev[k].node = ev[e].node => k \in L
      BY <1>3, <2>1, <2>2
    <3>2. cs[e].height < cs[m].height
      BY <1>1, <1>3, <2>1, <2>2, <2>5, <3>1 DEF InOrder
    <3> HIDE DEF m
    <3> QED BY <1>1, <1>3, <2>2, <2>3, <3>2
  <2> QED BY <2>1, <2>4, <2>5
<1> QED BY <1>2, <1>3

\* An event is connected to the last one of its chain.
LEMMA ConnectKeepsMothers ==
    ASSUME ViewTypeOK, MothersAreLast(events), NEW n \in Chain, ConnectEvent(n)
    PROVE  MothersAreLast(events')
<1> DEFINE e == Len(events) + 1
<1>1. Len(events) \in Nat
  BY DEF ViewTypeOK
<1>2. PICK p \in ParentsOf(n) :
        events' = Append(events, [node |-> n, mother |-> p.mother, father |-> p.father])
  BY DEF ConnectEvent
<1>3. /\ Len(events') = e
      /\ \A k \in 1 .. Len(events) : events'[k] = events[k]
      /\ events'[e].node = n /\ events'[e].mother = p.mother
  BY <1>1, <1>2 DEF ViewTypeOK
<1>4. ASSUME NEW j \in 1 .. Len(events), events[j].node = n
      PROVE  p.mother \in j .. Len(events) /\ events[p.mother].node = n
  <2>1. j \in ChainOf(n)
    BY <1>4 DEF ChainOf
  <2>2. p.mother \in {k \in ChainOf(n) : \A i \in ChainOf(n) : i <= k}
    BY <2>1 DEF ParentsOf
  <2> QED BY <1>1, <2>1, <2>2 DEF ChainOf
<1> SUFFICES ASSUME NEW k \in 1 .. Len(events'), NEW j \in 1 .. k - 1,
                    events'[j].node = events'[k].node
             PROVE  /\ events'[k].mother \in j .. k - 1
                    /\ events'[events'[k].mother].node = events'[k].node
  BY DEF MothersAreLast
<1>5. j \in 1 .. Len(events) /\ events'[j] = events[j]
  BY <1>1, <1>3
<1>6. CASE k = e
  <2>1. events[j].node = n
    BY <1>3, <1>5, <1>6
  <2>2. p.mother \in j .. Len(events) /\ events[p.mother].node = n
    BY <1>4, <1>5, <2>1
  <2>3. events'[p.mother] = events[p.mother]
    BY <1>1, <1>3, <1>5, <2>2
  <2> QED BY <1>1, <1>3, <1>6, <2>2, <2>3
<1>7. CASE k \in 1 .. Len(events)
  <2>1. events'[k] = events[k]
    BY <1>3, <1>7
  <2>2. events[k].mother \in j .. k - 1 /\ events[events[k].mother].node = events[k].node
    BY <1>5, <1>7, <2>1 DEF MothersAreLast
  <2>3. events'[events[k].mother] = events[events[k].mother]
    BY <1>1, <1>3, <1>5, <1>7, <2>2
  <2> QED BY <2>1, <2>2, <2>3
<1> QED BY <1>1, <1>3, <1>6, <1>7

\* A report that is followed, or not heard, leaves the places right.
LEMMA ReportKeepsPlaces ==
    ASSUME ViewTypeOK, ViewInvariant, ViewTypeOK', PlaceInvariant, NEW e \in Event, NEW m,
           NodeStep(m), SetEventNode(e, m), ~disturbed' => Followed(e, m),
           MothersAreLast(events')
    PROVE  PlaceInvariant'
<1> SUFFICES ASSUME ~disturbed', Followed(e, m)
             PROVE  EdgesGoUp' /\ NodesAsConnected' /\ InOrder(events', lookup', circles')
  BY DEF PlaceInvariant
<1>1. /\ ~disturbed /\ Len(events) \in Nat /\ Len(events') \in Nat
      /\ lookup \subseteq 1 .. Len(events) /\ lookup \subseteq Event
      /\ \A k \in 1 .. Len(events) : events'[k] = events[k]
      /\ EdgesGoUp /\ NodesAsConnected /\ InOrder(events, lookup, circles)
  BY DEF Followed, ViewTypeOK, NodeStep, ViewInvariant, PlaceInvariant
<1>2. CASE Listens /\ CreateEventNode(e, m)
  <2>1. /\ lookup' = lookup \cup {e} /\ e \notin lookup
        /\ DOMAIN circles = lookup
        /\ \A x \in lookup : circles'[x] = circles[x]
        /\ circles'[e].height = HeightOf(m)
        /\ edges' = edges \cup EdgesOf(e, m)
        /\ data'[e] = m /\ \A x \in lookup : data'[x] = data[x]
        /\ "mother" \in DOMAIN m
    BY <1>1, <1>2 DEF CreateEventNode, ViewTypeOK
  <2>2. \A x \in lookup' : circles'[x].height \in Nat
    BY EventAssumption DEF ViewTypeOK
  <2>3. \A p \in SidesOnStage(m) : m[p] \in lookup /\ HeightOf(m) > circles[m[p]].height
    <3>1. \A p \in SidesOnStage(m) : circles[m[p]].height \in 1 .. MaxEvents
      BY <2>1 DEF SidesOnStage, OnStage, ViewTypeOK
    <3>2. \A p \in SidesOnStage(m) : HeightOf(m) > circles[m[p]].height
      BY <3>1, HeightOfNew, EventAssumption
    <3> QED BY <2>1, <3>2 DEF SidesOnStage, OnStage
  <2>4. EdgesGoUp'
    <3>1. \A x \in edges : x.child \in lookup /\ x.parent \in lookup
      BY <1>1 DEF ViewInvariant, EdgesAsReported, KnownSides
    <3>2. \A x \in EdgesOf(e, m) : circles'[x.child].height > circles'[x.parent].height
      BY <2>1, <2>3 DEF EdgesOf
    <3>3. \A x \in edges : circles'[x.child].height > circles'[x.parent].height
      BY <1>1, <2>1, <3>1 DEF EdgesGoUp
    <3> QED BY <2>1, <3>2, <3>3 DEF EdgesGoUp
  <2>5. NodesAsConnected'
    <3>1. "node" \in DOMAIN m /\ m.node = events'[e].node
      BY <2>1 DEF Followed
    <3> QED BY <1>1, <2>1, <3>1 DEF NodesAsConnected
  <2>6. InOrder(events', lookup, circles')
    <3>1. /\ Len(events) \in Nat /\ lookup \in SUBSET (1 .. Len(events))
          /\ \A k \in 1 .. Len(events) : events'[k] = events[k]
          /\ \A x \in lookup : circles'[x].height = circles[x].height
          /\ InOrder(events, lookup, circles)
      BY <1>1, <2>1
    <3> QED BY ONLY <3>1, LaterEventsKeepOrder
  <2>7. e \in 1 .. Len(events') /\ lookup \in SUBSET (1 .. e - 1)
    BY <1>1, <1>2, <2>1 DEF Followed
  <2>8. events'[e].mother \in lookup =>
            circles'[e].height > circles'[events'[e].mother].height
    <3>1. events'[e].mother = m.mother
      BY <2>1 DEF Followed, Parent
    <3>2. m.mother \in lookup => "mother" \in SidesOnStage(m)
      BY <2>1 DEF SidesOnStage, OnStage, Parent
    <3> QED BY <2>1, <2>3, <3>1, <3>2
  <2>9. InOrder(events', lookup \cup {e}, circles')
    <3> DEFINE ev == events'   L == lookup   cs == circles'
    <3>1. /\ Len(ev) \in Nat /\ e \in 1 .. Len(ev) /\ L \in SUBSET (1 .. e - 1)
          /\ \A x \in L \cup {e} : cs[x].height \in Nat
          /\ MothersAreLast(ev) /\ InOrder(ev, L, cs)
          /\ ev[e].mother \in L => cs[e].height > cs[ev[e].mother].height
      BY <1>1, <2>1, <2>2, <2>6, <2>7, <2>8
    <3> HIDE DEF ev, L, cs
    <3>2. InOrder(ev, L \cup {e}, cs)
      BY ONLY <3>1, NewEventInOrder
    <3> QED BY <3>2 DEF ev, L, cs
  <2> QED BY <2>1, <2>4, <2>5, <2>9
<1>3. CASE Listens /\ UpdateEventNode(e, m)
  <2>1. /\ e \in lookup /\ lookup' = lookup /\ circles' = circles /\ edges' = edges
        /\ data'[e] = Assign(data[e], m)
        /\ \A x \in lookup : x # e => data'[x] = data[x]
    BY <1>1, <1>3 DEF Followed, UpdateEventNode, ViewTypeOK
  <2>2. "node" \in DOMAIN data'[e] /\ data'[e].node = events'[e].node
    <3> DEFINE new == Assign(data[e], m)
    <3>1. /\ DOMAIN new = DOMAIN data[e] \cup DOMAIN m
          /\ \A f \in DOMAIN m : new[f] = m[f]
          /\ \A f \in DOMAIN data[e] \ DOMAIN m : new[f] = data[e][f]
      BY ONLY AssignFields
    <3>2. "node" \in DOMAIN data[e] /\ data[e].node = events'[e].node
      BY <1>1, <2>1 DEF NodesAsConnected
    <3>3. "node" \in DOMAIN m => m.node = events'[e].node
      BY DEF Followed
    <3> HIDE DEF new
    <3>4. "node" \in DOMAIN new /\ new.node = events'[e].node
      BY ONLY <3>1, <3>2, <3>3
    <3> QED BY <2>1, <3>4 DEF new
  <2>3. NodesAsConnected'
    BY <1>1, <2>1, <2>2 DEF NodesAsConnected
  <2>4. InOrder(events', lookup, circles)
    BY <1>1, LaterEventsKeepOrder
  <2> QED BY <1>1, <2>1, <2>3, <2>4 DEF EdgesGoUp
<1>4. CASE UNCHANGED <<known, stage>>
  <2>1. lookup' = lookup /\ data' = data /\ circles' = circles /\ edges' = edges
    BY <1>4 DEF known, stage
  <2>2. InOrder(events', lookup, circles)
    BY <1>1, LaterEventsKeepOrder
  <2> QED BY <1>1, <2>1, <2>2 DEF EdgesGoUp, NodesAsConnected
<1> QED BY <1>2, <1>3, <1>4 DEF SetEventNode, IgnoreEvent

\* Every step leaves the places right while nothing disturbed the page.
LEMMA NextPlaces ==
    ASSUME IInv, IInv', PlaceInvariant, [Next]_vars
    PROVE  PlaceInvariant'
<1> USE DEF IInv
<1>1. ASSUME NEW n \in Chain, ConnectEvent(n) PROVE PlaceInvariant'
  <2>1. PICK e, m : /\ e \in Event /\ NodeStep(m) /\ SetEventNode(e, m)
                    /\ ~disturbed' => Followed(e, m)
    BY <1>1, ConnectIsFollowed
  <2>2. MothersAreLast(events')
    BY <1>1, ConnectKeepsMothers DEF PlaceInvariant
  <2> QED BY <2>1, <2>2, ReportKeepsPlaces
<1>2. ASSUME NEW e \in Event, NEW m, ReportLater(e, m),
             m \in Later \/ m = Report(e, events[e])
      PROVE  PlaceInvariant'
  <2>1. NodeStep(m) /\ SetEventNode(e, m) /\ (~disturbed' => Followed(e, m))
    BY <1>2, LaterIsFollowed
  <2>2. MothersAreLast(events')
    BY <1>2 DEF ReportLater, PlaceInvariant
  <2> QED BY <2>1, <2>2, ReportKeepsPlaces
<1>3. ASSUME NEW e \in Event, ReportAgain(e) PROVE PlaceInvariant'
  BY <1>2, <1>3 DEF ReportAgain
<1>4. ASSUME UNCHANGED <<node, known, edges, disturbed>>,
             \A x \in lookup : circles'[x].height = circles[x].height
      PROVE  PlaceInvariant'
  <2>1. /\ events' = events /\ lookup' = lookup /\ data' = data /\ edges' = edges
        /\ disturbed' = disturbed
    BY <1>4 DEF node, known
  <2> SUFFICES ASSUME ~disturbed
               PROVE  EdgesGoUp' /\ NodesAsConnected' /\ InOrder(events', lookup', circles')
    BY <2>1 DEF PlaceInvariant
  <2>2. \A x \in edges : x.child \in lookup /\ x.parent \in lookup
    BY DEF ViewInvariant, EdgesAsReported, KnownSides
  <2>3. Len(events) \in Nat /\ lookup \in SUBSET (1 .. Len(events))
    BY DEF ViewTypeOK, ViewInvariant
  <2>4. InOrder(events, lookup, circles')
    BY <1>4, <2>3, LaterEventsKeepOrder DEF PlaceInvariant
  <2> QED BY <1>4, <2>1, <2>2, <2>4 DEF PlaceInvariant, EdgesGoUp, NodesAsConnected
<1>5. ASSUME NEW e \in Event, Click(e) PROVE PlaceInvariant'
  BY <1>4, <1>5, ClickSteps DEF Click
<1>6. ASSUME DoubleClick PROVE PlaceInvariant'
  BY <1>4, <1>6, DoubleClickSteps DEF DoubleClick
<1>7. ASSUME Pause \/ Subscribe \/ UNCHANGED vars PROVE PlaceInvariant'
  BY <1>4, <1>7 DEF Pause, Subscribe, vars, stage
<1>8. ASSUME Clear \/ Resume PROVE PlaceInvariant'
  <2>1. lookup' = {} /\ edges' = {} /\ events' = events
    BY <1>8 DEF Clear, Resume, Reset, node
  <2> QED BY <2>1 DEF PlaceInvariant, EdgesGoUp, NodesAsConnected, InOrder
<1>9. ASSUME RestartNode PROVE PlaceInvariant'
  <2>1. events' = <<>> /\ lookup' = lookup /\ edges' = edges
    BY <1>9 DEF RestartNode, known, stage
  <2>2. MothersAreLast(events')
    BY <2>1 DEF MothersAreLast
  <2>3. ASSUME ~disturbed' PROVE lookup' = {} /\ edges' = {}
    <3>1. ~disturbed /\ lookup = {}
      BY <1>9, <2>3 DEF RestartNode
    <3>2. edges = {}
      BY <3>1 DEF ViewInvariant, EdgesAsReported
    <3> QED BY <2>1, <3>1, <3>2
  <2> QED BY <2>2, <2>3 DEF PlaceInvariant, EdgesGoUp, NodesAsConnected, InOrder
<1> QED BY <1>1, <1>2, <1>3, <1>5, <1>6, <1>7, <1>8, <1>9 DEF Next

\* Events are drawn above their parents, and two events of a chain in one place only if
\* the page missed an event between them.
THEOREM PlacesHold == Spec => []OnePlaceEach
<1>1. Init => PlaceInvariant
  BY DEF Init, PlaceInvariant, MothersAreLast, EdgesGoUp, NodesAsConnected, InOrder
<1>2. IInv /\ IInv' /\ PlaceInvariant /\ [Next]_vars => PlaceInvariant'
  BY NextPlaces
<1>3. Spec => []IInv
  BY ViewTypesHold, ViewInvariantHolds, PTL DEF IInv
<1>4. IInv /\ PlaceInvariant => OnePlaceEach
  <2> SUFFICES ASSUME IInv, PlaceInvariant, ~disturbed PROVE OnePlaceEach
    BY DEF OnePlaceEach
  <2>1. /\ EdgesGoUp /\ NodesAsConnected /\ InOrder(events, lookup, circles)
        /\ Len(events) \in Nat /\ lookup \subseteq 1 .. Len(events)
        /\ \A x \in lookup : circles[x].height \in Nat
    BY EventAssumption DEF PlaceInvariant, IInv, ViewTypeOK, ViewInvariant
  <2>2. ASSUME NEW e \in lookup, NEW f \in lookup, e < f, data[e].node = data[f].node,
               circles[e].height = circles[f].height
        PROVE  \E k \in e .. f : k \in ChainOf(data[e].node) \ lookup
    <3>1. /\ events[e].node = events[f].node /\ data[e].node = events[e].node
          /\ ~(circles[e].height < circles[f].height)
      BY <2>1, <2>2 DEF NodesAsConnected
    <3>2. PICK k \in e .. f : events[k].node = events[e].node /\ k \notin lookup
      BY <2>1, <2>2, <3>1 DEF InOrder
    <3>3. k \in 1 .. Len(events)
      BY <2>1
    <3> QED BY <3>1, <3>2, <3>3 DEF ChainOf
  <2> QED BY <2>1, <2>2 DEF OnePlaceEach, EdgesGoUp
<1> QED BY <1>1, <1>2, <1>3, <1>4, PTL DEF Spec
================================================================================
