-------------------------- MODULE MigrationProofs --------------------------
(***************************************************************************)
(* What TLAPS proves of Migration, for every store, every restructure the  *)
(* manifest schema admits and every order of commits.  First what the      *)
(* interpreter makes of one disposition on any well-formed tree; then the  *)
(* inductive invariant of origin/main and what follows from it.            *)
(***************************************************************************)
EXTENDS Migration, TLAPS

------------------------------------------------------------------------------
(* One disposition.                                                          *)

\* A disposition as the schema admits it, its facts remapped in whatever way.
Admissible(d) ==
    /\ d.op \in {"split", "merge", "move", "remove"}
    /\ d.from \subseteq Nodes /\ d.to \subseteq Nodes
    /\ d.demote \in BOOLEAN /\ d.layer \in {1, 2}
    /\ d.op = "merge" => \E n \in Nodes : d.to = {n}

Single(m, d) == m.dispositions = <<d>> /\ Admissible(d)

Fresh(t) == [tree |-> t, pending |-> {}, gated |-> {}, refused |-> FALSE]

LEMMA LedgerField ==
    ASSUME NEW nodes, NEW edges, NEW rules, NEW ledger, NEW redirects, NEW lines, NEW t,
           t = [nodes |-> nodes, edges |-> edges, rules |-> rules, ledger |-> ledger,
                redirects |-> redirects]
    PROVE  [t EXCEPT !.ledger = @ \cup lines]
               = [nodes |-> nodes, edges |-> edges, rules |-> rules,
                  ledger |-> ledger \cup lines, redirects |-> redirects]
  OBVIOUS

\* The interpreter on a manifest of one disposition takes one step.
LEMMA InterpretedOne ==
    ASSUME NEW t, NEW d
    PROVE  Interpreted(t, <<d>>) = Step(Fresh(t), d)
<1> DEFINE F(f) == [i \in 0 .. 1 |-> IF i = 0 THEN Fresh(t) ELSE Step(f[i - 1], <<d>>[i])]
           witness == [i \in 0 .. 1 |-> IF i = 0 THEN Fresh(t) ELSE Step(Fresh(t), d)]
           after == CHOOSE f : f = F(f)
<1>1. Len(<<d>>) = 1 /\ <<d>>[1] = d
  OBVIOUS
<1>2. Interpreted(t, <<d>>) = after[1]
  BY <1>1 DEF Interpreted, Fresh
<1>3. witness = F(witness)
  <2>1. \A i \in 0 .. 1 : witness[i] = F(witness)[i]
    <3>1. witness[0] = F(witness)[0]
      OBVIOUS
    <3>2. witness[1] = F(witness)[1]
      BY <1>1
    <3>3. \A i \in 0 .. 1 : i = 0 \/ i = 1
      OBVIOUS
    <3> QED  BY <3>1, <3>2, <3>3
  <2> QED  BY <2>1
<1>4. after = F(after)
  BY <1>3
<1> HIDE DEF after
<1>5. after[0] = Fresh(t)
  BY <1>4
<1>6. after[1] = Step(after[0], d)
  BY <1>1, <1>4
<1> QED  BY <1>2, <1>5, <1>6

\* What the disposition makes of the tree, with what it has to account for.
Outcome(t, d) ==
    LET g == Governing(t, d)
    IN  [tree |-> Applied(t, d, g), pending |-> Pending(t, d, g), gated |-> Gated(t, d, g),
         refused |-> FALSE]

Accounted(t, d, id) ==
    [nodes |-> NodesAfter(t, d), edges |-> EdgesAfter(t, d, Governing(t, d)),
     rules |-> RulesAfter(t, d, Governing(t, d)),
     ledger |-> t.ledger \cup Entries(Outcome(t, d), id), redirects |-> RedirectsAfter(t, d)]

\* The plan of a manifest of one disposition, when there is one.
LEMMA PlanOne ==
    ASSUME NEW t, NEW m, NEW d, m.dispositions = <<d>>, ~plan_migration(t, m).refused
    PROVE  /\ Checks(t, d) /\ Governed(t, d) /\ Admits(t, d, Governing(t, d))
           /\ Succeeded(Outcome(t, d))
           /\ plan_migration(t, m).tree = Accounted(t, d, m.id)
           /\ plan_migration(t, m).gated
                  = Gated(t, d, Governing(t, d)) \cap Records(Applied(t, d, Governing(t, d)))
<1> DEFINE s == Interpreted(t, m.dispositions)
           g == Governing(t, d)
<1>1. s = Step(Fresh(t), d)
  BY InterpretedOne
<1>2. ~s.refused /\ Succeeded(s)
       /\ plan_migration(t, m) = [tree |-> [s.tree EXCEPT !.ledger = @ \cup Entries(s, m.id)],
                                  gated |-> s.gated \cap Records(s.tree), refused |-> FALSE]
  <2> HIDE DEF s
  <2>1. [refused |-> TRUE].refused
    OBVIOUS
  <2> QED  BY <2>1 DEF plan_migration, s
<1>3. /\ Fresh(t).tree = t /\ Fresh(t).pending = {} /\ Fresh(t).gated = {}
      /\ Fresh(t) = [tree |-> t, pending |-> {}, gated |-> {}, refused |-> FALSE]
  BY DEF Fresh
<1>4. /\ Checks(t, d) /\ Governed(t, d) /\ Admits(t, d, g)
      /\ s = [tree |-> Applied(t, d, g), pending |-> {} \cup Pending(t, d, g),
              gated |-> {} \cup Gated(t, d, g), refused |-> FALSE]
  <2>1. [Fresh(t) EXCEPT !.refused = TRUE].refused
    BY <1>3
  <2> HIDE DEF s, g
  <2> QED  BY <1>1, <1>2, <1>3, <2>1 DEF Step, g
<1>5. s = Outcome(t, d)
  BY <1>4 DEF Outcome
<1>6. Applied(t, d, g) = [nodes |-> NodesAfter(t, d), edges |-> EdgesAfter(t, d, g),
                          rules |-> RulesAfter(t, d, g), ledger |-> t.ledger,
                          redirects |-> RedirectsAfter(t, d)]
  BY DEF Applied
<1>7. s.tree = Applied(t, d, g) /\ s.gated = Gated(t, d, g)
  <2> HIDE DEF s
  <2> QED  BY <1>4
<1>8. [s.tree EXCEPT !.ledger = @ \cup Entries(s, m.id)] = Accounted(t, d, m.id)
  <2> DEFINE entries == Entries(s, m.id)
  <2>1. Accounted(t, d, m.id) = [nodes |-> NodesAfter(t, d), edges |-> EdgesAfter(t, d, g),
                          rules |-> RulesAfter(t, d, g), ledger |-> t.ledger \cup entries,
                          redirects |-> RedirectsAfter(t, d)]
    BY <1>5 DEF Accounted
  <2> HIDE DEF s, entries, g
  <2>2. s.tree = [nodes |-> NodesAfter(t, d), edges |-> EdgesAfter(t, d, g),
                          rules |-> RulesAfter(t, d, g), ledger |-> t.ledger,
                          redirects |-> RedirectsAfter(t, d)]
    BY <1>6, <1>7
  <2>3. [s.tree EXCEPT !.ledger = @ \cup entries] = Accounted(t, d, m.id)
    BY <2>1, <2>2, LedgerField
  <2> QED  BY <2>3 DEF entries
<1>9. Succeeded(Outcome(t, d))
  BY <1>2, <1>5
<1> QED
  <2> HIDE DEF s
  <2> QED  BY <1>2, <1>4, <1>7, <1>8, <1>9

------------------------------------------------------------------------------
(* What becomes of each file.                                                *)

\* A disposition rewrites a node in place: its summary and slug stay, its kind only
\* changes when it is demoted.
LEMMA NodeRewritten ==
    ASSUME NEW t, Typed(t), NEW d, Admissible(d), Checks(t, d),
           NEW n \in DOMAIN t.nodes
    PROVE  /\ NodeAfter(t, d, n) \in Node
           /\ NodeAfter(t, d, n).text = t.nodes[n].text
           /\ NodeAfter(t, d, n).slug = t.nodes[n].slug
           /\ NodeAfter(t, d, n).kind = IF n \in d.from /\ Keeps(d) THEN "concept"
                                         ELSE t.nodes[n].kind
           /\ NodeAfter(t, d, n).realizes = IF n \in d.from /\ Keeps(d) THEN {}
                                             ELSE RealizesAfter(t, d, n)
<1> DEFINE node == t.nodes[n]
           layer == IF d.op = "move" /\ n \in d.from THEN d.layer ELSE node.layer
           realizes == RealizesAfter(t, d, n)
           aliases == IF d.op = "merge" /\ n \in d.to /\ node.kind = "feature"
                      THEN node.aliases \cup UNION {{k} \cup t.nodes[k].aliases : k \in d.from}
                      ELSE node.aliases
<1>1. node \in Node /\ DOMAIN t.nodes \subseteq Nodes
  BY DEF Typed, Directory
<1>2. layer \in {1, 2}
  BY <1>1 DEF Node, Admissible
<1>3. realizes \subseteq Nodes
  <2>1. node.realizes \subseteq Nodes
    BY <1>1 DEF Node
  <2> QED  BY <2>1 DEF RealizesAfter, Admissible
<1>4. CASE n \in d.from /\ Keeps(d)
  <2>1. NodeAfter(t, d, n)
            = [node EXCEPT !.kind = "concept", !.layer = 1, !.realizes = {}, !.aliases = {}]
    BY <1>4 DEF NodeAfter
  <2> HIDE DEF node
  <2> QED  BY <1>1, <1>4, <2>1 DEF Node, node
<1>5. CASE ~(n \in d.from /\ Keeps(d))
  <2>1. NodeAfter(t, d, n)
            = [node EXCEPT !.layer = layer, !.realizes = realizes, !.aliases = aliases]
    BY <1>5 DEF NodeAfter
  <2>2. ASSUME aliases \subseteq Nodes
        PROVE  NodeAfter(t, d, n) \in Node
    <3> HIDE DEF node, layer, realizes, aliases
    <3> QED  BY <1>1, <1>2, <1>3, <2>1, <2>2 DEF Node
  <2>3. aliases \subseteq Nodes
    <3>1. \A k \in d.from : k \in Nodes /\ t.nodes[k] \in Node
      BY DEF Checks, Typed, Directory
    <3>2. \A k \in d.from : {k} \cup t.nodes[k].aliases \subseteq Nodes
      BY <3>1 DEF Node
    <3>3. node.aliases \subseteq Nodes
      BY <1>1 DEF Node
    <3> QED  BY <3>2, <3>3
  <2>4. /\ NodeAfter(t, d, n).text = node.text /\ NodeAfter(t, d, n).slug = node.slug
        /\ NodeAfter(t, d, n).kind = node.kind /\ NodeAfter(t, d, n).realizes = realizes
    <3> HIDE DEF node, layer, realizes, aliases
    <3> QED  BY <1>1, <2>1 DEF Node
  <2> QED  BY <1>5, <2>2, <2>3, <2>4 DEF node, realizes
<1> QED  BY <1>4, <1>5

LEMMA Keeping ==
    ASSUME NEW t, NEW d
    PROVE  /\ Keeps(d) \in BOOLEAN
           /\ DOMAIN Governing(t, d) = Affected(t, d)
           /\ \A n : n \in DOMAIN NodesAfter(t, d) <=>
                      n \in DOMAIN t.nodes /\ (Keeps(d) \/ n \notin OldNodes(d))
           /\ \A n \in DOMAIN NodesAfter(t, d) : NodesAfter(t, d)[n] = NodeAfter(t, d, n)
  BY DEF Governing, NodesAfter, Keeps

\* An id belongs to one kind of record.
LEMMA IdKinds ==
    ASSUME NEW t, Typed(t)
    PROVE  /\ DOMAIN t.nodes \cap DOMAIN t.edges = {}
           /\ DOMAIN t.nodes \cap DOMAIN t.rules = {}
           /\ DOMAIN t.edges \cap DOMAIN t.rules = {}
  BY StoreAssumption DEF Typed, Directory

\* The kinds of fact of a tree.
LEMMA FactKinds ==
    ASSUME NEW t, NEW f
    PROVE  f \in Facts(t) <=>
             \/ \E n \in DOMAIN t.nodes : f = Fact(n, "summary", t.nodes[n].text)
             \/ \E e \in DOMAIN t.edges :
                    /\ ~IsQuality(e)
                    /\ f = Fact(e, "exists", None) \/ f = Fact(e, "polarity", t.edges[e])
             \/ \E e \in DOMAIN t.edges : IsQuality(e) /\ f = Fact(e, "assessments", None)
             \/ \E r \in DOMAIN t.rules : f = Fact(r, "exists", None)
  BY DEF Facts

LEMMA LiveFacts ==
    ASSUME NEW t
    PROVE  /\ \A n \in DOMAIN t.nodes : Fact(n, "summary", t.nodes[n].text) \in Facts(t)
           /\ \A e \in DOMAIN t.edges : ~IsQuality(e) =>
                  Fact(e, "exists", None) \in Facts(t) /\ Fact(e, "polarity", t.edges[e]) \in Facts(t)
           /\ \A e \in DOMAIN t.edges : IsQuality(e) => Fact(e, "assessments", None) \in Facts(t)
           /\ \A r \in DOMAIN t.rules : Fact(r, "exists", None) \in Facts(t)
  BY DEF Facts

LEMMA FactRecords ==
    ASSUME NEW t, NEW f \in Facts(t)
    PROVE  f.rec \in Records(t)
<1>1. \A x, y, z : Fact(x, y, z).rec = x
  BY DEF Fact
<1> QED  BY <1>1, FactKinds DEF Records

\* The records of which a disposition has to account for every fact.
Accountable(t, d, g) ==
    Disposed(t, g) \cup (IF Keeps(d) THEN {} ELSE DOMAIN g \cap DOMAIN t.nodes)

LEMMA PendingFacts ==
    ASSUME NEW t, NEW d, NEW g
    PROVE  /\ \A p \in Pending(t, d, g) : p.fact \in Facts(t)
           /\ \A f \in Facts(t) :
                  f.rec \in Accountable(t, d, g) => \E p \in Pending(t, d, g) : p.fact = f
<1> DEFINE successors(r, f) ==
               IF Action(g, r) # "remap" THEN {}
               ELSE IF r \in DOMAIN t.nodes THEN {<<Target(g, r), "summary">>}
               ELSE IF r \in DOMAIN t.rules THEN {Anchor(f)}
               ELSE {<<Moved(d, g, r), f.field>>}
           pending(f) == [fact |-> f, successors |-> successors(f.rec, f)]
<1>1. Pending(t, d, g) = {pending(f) : f \in {f \in Facts(t) : f.rec \in Accountable(t, d, g)}}
  BY DEF Pending, Accountable
<1>2. \A f : pending(f).fact = f
  OBVIOUS
<1> HIDE DEF pending
<1> QED  BY <1>1, <1>2

\* Of any other record every fact stays.
LEMMA FactsStay ==
    ASSUME NEW t, Typed(t), NEW d, Admissible(d), Checks(t, d), NEW f \in Facts(t),
           f.rec \notin Accountable(t, d, Governing(t, d))
    PROVE  f \in Facts(Applied(t, d, Governing(t, d)))
<1> DEFINE g == Governing(t, d)
           u == Applied(t, d, g)
<1>1. u.nodes = NodesAfter(t, d) /\ u.edges = EdgesAfter(t, d, g)
        /\ u.rules = RulesAfter(t, d, g)
  BY DEF Applied
<1>2. \A x, y, z : Fact(x, y, z).rec = x
  BY DEF Fact
<1>0. \/ \E n \in DOMAIN t.nodes : f = Fact(n, "summary", t.nodes[n].text)
      \/ \E e \in DOMAIN t.edges :
                    /\ ~IsQuality(e)
                    /\ f = Fact(e, "exists", None) \/ f = Fact(e, "polarity", t.edges[e])
      \/ \E e \in DOMAIN t.edges : IsQuality(e) /\ f = Fact(e, "assessments", None)
      \/ \E r \in DOMAIN t.rules : f = Fact(r, "exists", None)
  BY FactKinds
<1> SUFFICES f \in Facts(u)
  OBVIOUS
<1> HIDE DEF u
<1>3. CASE \E n \in DOMAIN t.nodes : f = Fact(n, "summary", t.nodes[n].text)
  <2>1. PICK n \in DOMAIN t.nodes : f = Fact(n, "summary", t.nodes[n].text)
    BY <1>3
  <2>2. n \in OldNodes(d) => n \in Affected(t, d)
    <3>1. Mentions(t, n) = {n}
      BY IdKinds DEF Mentions
    <3> QED  BY <3>1 DEF Affected, Records
  <2>3. n \in DOMAIN u.nodes
    <3>1. f.rec = n
      BY <1>2, <2>1
    <3>2. n \in OldNodes(d) => Keeps(d)
      BY <2>2, <3>1, Keeping DEF Accountable
    <3> QED  BY <1>1, <3>2, Keeping
  <2>4. u.nodes[n].text = t.nodes[n].text
    <3>1. NodeAfter(t, d, n).text = t.nodes[n].text
      BY NodeRewritten
    <3> QED  BY <1>1, <2>3, <3>1, Keeping
  <2> QED  BY <2>1, <2>3, <2>4, LiveFacts
<1>4. ASSUME NEW e \in DOMAIN t.edges, f.rec = e
      PROVE  e \in DOMAIN u.edges /\ u.edges[e] = t.edges[e]
  BY <1>1, <1>4 DEF EdgesAfter, Accountable, g
<1>5. ASSUME NEW r \in DOMAIN t.rules, f.rec = r
      PROVE  r \in DOMAIN u.rules
  BY <1>1, <1>5 DEF RulesAfter, Accountable, g
<1>6. CASE \E e \in DOMAIN t.edges :
                    /\ ~IsQuality(e)
                    /\ f = Fact(e, "exists", None) \/ f = Fact(e, "polarity", t.edges[e])
  <2>1. PICK e \in DOMAIN t.edges :
                    /\ ~IsQuality(e)
                    /\ f = Fact(e, "exists", None) \/ f = Fact(e, "polarity", t.edges[e])
    BY <1>6
  <2>2. f.rec = e
    BY <1>2, <2>1
  <2>3. e \in DOMAIN u.edges /\ u.edges[e] = t.edges[e]
    BY <1>4, <2>2
  <2> QED  BY <2>1, <2>3, LiveFacts
<1>7. CASE \E e \in DOMAIN t.edges : IsQuality(e) /\ f = Fact(e, "assessments", None)
  <2>1. PICK e \in DOMAIN t.edges : IsQuality(e) /\ f = Fact(e, "assessments", None)
    BY <1>7
  <2>2. e \in DOMAIN u.edges
    BY <1>2, <1>4, <2>1
  <2> QED  BY <2>1, <2>2, LiveFacts
<1>8. CASE \E r \in DOMAIN t.rules : f = Fact(r, "exists", None)
  <2>1. PICK r \in DOMAIN t.rules : f = Fact(r, "exists", None)
    BY <1>8
  <2>2. r \in DOMAIN u.rules
    BY <1>2, <1>5, <2>1
  <2> QED  BY <2>1, <2>2, LiveFacts
<1> QED  BY <1>0, <1>3, <1>6, <1>7, <1>8

\* The ledger does not change what a tree claims.
LEMMA LedgerAside ==
    ASSUME NEW t, NEW d, NEW id
    PROVE  /\ Facts(Accounted(t, d, id)) = Facts(Applied(t, d, Governing(t, d)))
           /\ Accounted(t, d, id).ledger = t.ledger \cup Entries(Outcome(t, d), id)
<1> DEFINE u == Applied(t, d, Governing(t, d))
           v == Accounted(t, d, id)
<1>1. /\ u.nodes = v.nodes /\ u.edges = v.edges /\ u.rules = v.rules
      /\ v.ledger = t.ledger \cup Entries(Outcome(t, d), id)
  BY DEF Applied, Accounted
<1> HIDE DEF u, v
<1>2. Facts(u) = Facts(v)
  BY <1>1 DEF Facts
<1> QED  BY <1>1, <1>2 DEF u, v

\* A migration leaves no fact without an account: what it does not keep it tombstones.
LEMMA FactsAccountedFor ==
    ASSUME NEW t, Typed(t), NEW d, Admissible(d), Checks(t, d), NEW id
    PROVE  /\ Facts(t) \subseteq Facts(Accounted(t, d, id)) \cup Tombstoned(Accounted(t, d, id))
           /\ Tombstoned(t) \subseteq Tombstoned(Accounted(t, d, id))
           /\ t.ledger \subseteq Accounted(t, d, id).ledger
           /\ \A x \in Accounted(t, d, id).ledger \ t.ledger :
                  x.fact \in Facts(t) /\ x.successors \subseteq Facts(Accounted(t, d, id))
<1> DEFINE g == Governing(t, d)
           u == Applied(t, d, g)
           v == Accounted(t, d, id)
           pending == Pending(t, d, g)
           entries == Entries(Outcome(t, d), id)
           successors(p) == {f \in Facts(u) : Anchor(f) \in p.successors}
<1>1. Outcome(t, d).tree = u /\ Outcome(t, d).pending = pending
  BY DEF Outcome
<1>2. entries = {[fact |-> p.fact, successors |-> successors(p), by |-> id] :
                    p \in {p \in pending : successors(p) # {p.fact}}}
  <2> HIDE DEF u, pending
  <2> QED  BY <1>1 DEF Entries
<1>3. \A p \in pending : p.fact \in Facts(t)
  BY PendingFacts
<1>4. \A f \in Facts(t) : f.rec \in Accountable(t, d, g) => \E p \in pending : p.fact = f
  BY PendingFacts
<1>5. Facts(v) = Facts(u) /\ v.ledger = t.ledger \cup entries
  BY LedgerAside
<1> HIDE DEF g, u, v, pending, entries
<1>6. ASSUME NEW f \in Facts(t)
      PROVE  f \in Facts(v) \cup Tombstoned(v)
  <2>1. CASE f.rec \notin Accountable(t, d, g)
    BY <1>5, <2>1, FactsStay DEF g, u
  <2>2. CASE f.rec \in Accountable(t, d, g)
    <3>1. PICK p \in pending : p.fact = f
      BY <1>4, <2>2
    <3>2. CASE successors(p) = {f}
      BY <1>5, <3>2
    <3>3. CASE successors(p) # {f}
      <4> DEFINE x == [fact |-> p.fact, successors |-> successors(p), by |-> id]
      <4>1. x \in entries
        BY <1>2, <3>1, <3>3
      <4>2. x.fact = f
        BY <3>1
      <4> HIDE DEF x
      <4> QED  BY <1>5, <4>1, <4>2 DEF Tombstoned
    <3> QED  BY <3>2, <3>3
  <2> QED  BY <2>1, <2>2
<1>7. \A x \in entries : x.fact \in Facts(t) /\ x.successors \subseteq Facts(v)
  BY <1>2, <1>3, <1>5
<1>8. Tombstoned(t) \subseteq Tombstoned(v)
  BY <1>5 DEF Tombstoned
<1> QED  BY <1>5, <1>6, <1>7, <1>8 DEF v

------------------------------------------------------------------------------
(* Nothing dangles.                                                          *)

LEMMA WhatIsMentioned ==
    ASSUME NEW t, Typed(t)
    PROVE  /\ \A e \in DOMAIN t.edges :
                  Mentions(t, e) = IF IsQuality(e) THEN {e[1]} ELSE {e[1], e[2]}
           /\ \A r \in DOMAIN t.rules : Mentions(t, r) = t.rules[r]
  BY IdKinds DEF Mentions

\* A dependent that is not disposed of mentions no node that goes.
LEMMA Undisposed ==
    ASSUME NEW t, Typed(t), NEW d, Admits(t, d, Governing(t, d)),
           NEW r \in DOMAIN t.edges \cup DOMAIN t.rules, r \notin Disposed(t, Governing(t, d))
    PROVE  Mentions(t, r) \cap OldNodes(d) = {}
<1> DEFINE g == Governing(t, d)
<1> SUFFICES ASSUME Mentions(t, r) \cap OldNodes(d) # {}
             PROVE  FALSE
  OBVIOUS
<1>1. r \in DOMAIN g
  BY Keeping DEF Affected, Records
<1>2. r \in Dependents(t, g)
  BY <1>1, IdKinds DEF Dependents
<1>3. DependentDisposed(t, d, g, r)
  BY <1>2 DEF Admits
<1> QED  BY <1>2, <1>3 DEF DependentDisposed, Disposed

LEMMA FeaturesAre ==
    ASSUME NEW t, Typed(t)
    PROVE  /\ Features(t) \subseteq DOMAIN t.nodes /\ Features(t) \subseteq Nodes
           /\ Features(t) \cap Qualities = {}
           /\ \A n \in DOMAIN t.nodes : t.nodes[n].kind \in {"feature", "concept"}
<1>1. \A n \in DOMAIN t.nodes : n \in Nodes /\ t.nodes[n] \in Node
  BY DEF Typed, Directory
<1>2. \A x \in Node : x.kind \in {"feature", "concept"}
  BY DEF Node
<1> QED  BY <1>1, <1>2, StoreAssumption DEF Features

\* An edge is moved to features that stay.
LEMMA WhereEdgesMove ==
    ASSUME NEW t, Typed(t), References(t), NEW d, Admits(t, d, Governing(t, d)),
           NEW e \in RemappedEdges(t, Governing(t, d))
    PROVE  LET x == Moved(d, Governing(t, d), e)
           IN  /\ e \in DOMAIN t.edges
               /\ x \in Edges
               /\ IsQuality(x) <=> IsQuality(e)
               /\ x[1] \in Features(t) \ OldNodes(d)
               /\ ~IsQuality(x) => x[2] \in Features(t) \ OldNodes(d)
               /\ Compatible(t, d, Governing(t, d), e)
<1> DEFINE g == Governing(t, d)
           x == Moved(d, g, e)
           second == IF IsQuality(e) THEN e[2] ELSE Swap(d, g, e, e[2])
<1>1. e \in DOMAIN t.edges /\ e \in Dependents(t, g) /\ Action(g, e) = "remap"
  BY DEF RemappedEdges, Remapped
<1>2. RemapFits(t, d, g, e)
  BY <1>1 DEF Admits, DependentDisposed
<1>3. /\ Target(g, e) \in Features(t) \ OldNodes(d)
      /\ x[1] # x[2] /\ Compatible(t, d, g, e)
  BY <1>1, <1>2, IdKinds DEF RemapFits
<1>4. e[1] \in Features(t) /\ (IsQuality(e) \/ e[2] \in Features(t))
  BY <1>1 DEF References
<1>5. e \in Edges
  BY <1>1 DEF Typed, Directory
<1>6. Swap(d, g, e, e[1]) \in Features(t) \ OldNodes(d)
  BY <1>3, <1>4 DEF Swap
<1>7. ~IsQuality(e) => second \in Features(t) \ OldNodes(d)
  BY <1>3, <1>4 DEF Swap
<1>8. IsQuality(e) => second = e[2] /\ e[2] \in Qualities
  BY DEF IsQuality
<1>9. x = <<Swap(d, g, e, e[1]), second>>
  BY DEF Moved
<1>10. x[1] = Swap(d, g, e, e[1]) /\ x[2] = second
  <2> HIDE DEF second, x
  <2> QED  BY <1>9
<1>11. x[1] \in Nodes /\ x[2] \in Nodes \cup Qualities
  BY <1>6, <1>7, <1>8, <1>10, FeaturesAre
<1>12. x \in Nodes \X (Nodes \cup Qualities)
  <2> HIDE DEF second, x
  <2> QED  BY <1>9, <1>10, <1>11
<1>13. x \in Edges
  BY <1>3, <1>12 DEF Edges
<1>14. IsQuality(x) <=> IsQuality(e)
  <2>1. CASE IsQuality(e)
    BY <2>1, <1>8, <1>10 DEF IsQuality
  <2>2. CASE ~IsQuality(e)
    BY <2>2, <1>7, <1>10, FeaturesAre DEF IsQuality
  <2> QED  BY <2>1, <2>2
<1> QED
  <2> HIDE DEF second, x
  <2>1. /\ x[1] \in Features(t) \ OldNodes(d)
        /\ ~IsQuality(x) => x[2] \in Features(t) \ OldNodes(d)
    BY <1>6, <1>7, <1>10, <1>14
  <2> QED  BY <1>1, <1>3, <1>13, <1>14, <2>1 DEF x

\* What a node is afterwards.
LEMMA KindsAfter ==
    ASSUME NEW t, Typed(t), NEW d, Admissible(d), Checks(t, d),
           NEW u, u.nodes = NodesAfter(t, d)
    PROVE  /\ Features(t) \ OldNodes(d) \subseteq Features(u)
           /\ Concepts(t) \ OldNodes(d) \subseteq Concepts(u)
           /\ Keeps(d) => d.from \subseteq Concepts(u)
<1>1. \A n : n \in DOMAIN u.nodes <=> n \in DOMAIN t.nodes /\ (Keeps(d) \/ n \notin OldNodes(d))
  BY Keeping
<1>2. \A n \in DOMAIN u.nodes :
          u.nodes[n].kind = IF n \in d.from /\ Keeps(d) THEN "concept" ELSE t.nodes[n].kind
  <2> SUFFICES ASSUME NEW n \in DOMAIN u.nodes
               PROVE  u.nodes[n].kind = IF n \in d.from /\ Keeps(d) THEN "concept"
                                        ELSE t.nodes[n].kind
    OBVIOUS
  <2>1. n \in DOMAIN t.nodes /\ u.nodes[n] = NodeAfter(t, d, n)
    BY <1>1, Keeping
  <2> QED  BY <2>1, NodeRewritten
<1>3. Keeps(d) => OldNodes(d) = d.from
  BY DEF Keeps, OldNodes
<1>4. d.from \subseteq DOMAIN t.nodes
  BY DEF Checks
<1>5. \A n \in DOMAIN t.nodes : n \in Features(t) <=> t.nodes[n].kind = "feature"
  BY DEF Features
<1>6. \A n \in DOMAIN u.nodes : n \in Features(u) <=> u.nodes[n].kind = "feature"
  BY DEF Features
<1>7. Features(t) \ OldNodes(d) \subseteq Features(u)
  <2> SUFFICES ASSUME NEW n \in Features(t), n \notin OldNodes(d)
               PROVE  n \in Features(u)
    OBVIOUS
  <2>1. n \in DOMAIN t.nodes /\ t.nodes[n].kind = "feature"
    BY DEF Features
  <2> QED  BY <1>1, <1>2, <1>3, <1>6, <2>1
<1>8. Concepts(t) \ OldNodes(d) \subseteq Concepts(u)
  BY <1>1, <1>2, <1>3, <1>5, <1>6 DEF Concepts
<1>9. Keeps(d) => d.from \subseteq Concepts(u)
  BY <1>1, <1>2, <1>4, <1>6 DEF Concepts
<1> QED  BY <1>7, <1>8, <1>9

\* `realizes` leads to concepts that stay.
LEMMA RealizesStay ==
    ASSUME NEW t, Typed(t), References(t), NEW d, Admissible(d), Checks(t, d),
           NEW u, u.nodes = NodesAfter(t, d), NEW n \in DOMAIN u.nodes
    PROVE  u.nodes[n].realizes \subseteq Concepts(u)
<1> DEFINE realizes == t.nodes[n].realizes
<1>1. n \in DOMAIN t.nodes /\ u.nodes[n] = NodeAfter(t, d, n)
  BY Keeping
<1>2. realizes \subseteq Concepts(t)
  BY <1>1 DEF References
<1>3. \A k \in Concepts(t) : k \notin Features(t) /\ k \in DOMAIN t.nodes
  BY DEF Concepts
<1>4. u.nodes[n].realizes = IF n \in d.from /\ Keeps(d) THEN {} ELSE RealizesAfter(t, d, n)
  BY <1>1, NodeRewritten
<1>5. RealizesAfter(t, d, n) \subseteq Concepts(u)
  <2>1. CASE d.op = "remove"
    <3>1. RealizesAfter(t, d, n) = realizes \ OldNodes(d)
      BY <2>1 DEF RealizesAfter
    <3> QED  BY <1>2, <3>1, KindsAfter
  <2>2. CASE d.op = "merge"
    <3>1. OldNodes(d) = d.from
      BY <2>2 DEF OldNodes
    <3>2. CASE realizes \cap d.from = {}
      <4>1. RealizesAfter(t, d, n) = realizes
        BY <2>2, <3>1, <3>2 DEF RealizesAfter, Keeps
      <4> QED  BY <1>2, <3>1, <3>2, <4>1, KindsAfter
    <3>3. CASE realizes \cap d.from # {}
      <4>1. RealizesAfter(t, d, n) = (realizes \ d.from) \cup d.to
        BY <2>2, <3>1, <3>3 DEF RealizesAfter
      <4>2. PICK k \in realizes : k \in d.from
        BY <3>3
      <4>3. t.nodes[k].kind # "feature"
        BY <1>2, <1>3, <4>2 DEF Features
      <4>4. \A x \in d.to : x \in DOMAIN t.nodes /\ t.nodes[x].kind # "feature" /\ x \notin d.from
        BY <2>2, <4>2, <4>3 DEF Checks
      <4>5. d.to \subseteq Concepts(t)
        BY <4>4 DEF Concepts, Features
      <4> QED  BY <1>2, <3>1, <4>1, <4>4, <4>5, KindsAfter
    <3> QED  BY <3>2, <3>3
  <2>3. CASE d.op = "split" /\ Keeps(d)
    <3>1. OldNodes(d) = d.from
      BY <2>3 DEF OldNodes
    <3>2. RealizesAfter(t, d, n) \subseteq realizes \cup d.from
      BY <2>3 DEF RealizesAfter
    <3> QED  BY <1>2, <2>3, <3>1, <3>2, KindsAfter
  <2>4. CASE (d.op = "split" /\ ~Keeps(d)) \/ d.op = "move"
    <3>1. RealizesAfter(t, d, n) = realizes
      BY <2>4 DEF RealizesAfter, Keeps
    <3>2. OldNodes(d) \subseteq Features(t)
      BY <2>4 DEF OldNodes, Checks
    <3> QED  BY <1>2, <1>3, <3>1, <3>2, KindsAfter
  <2> QED  BY <2>1, <2>2, <2>3, <2>4 DEF Admissible
<1> QED  BY <1>4, <1>5

\* The edges and rules afterwards: kept as they were, or written where they were sent.
LEMMA EdgesAre ==
    ASSUME NEW t, NEW d, NEW g, NEW k \in DOMAIN EdgesAfter(t, d, g)
    PROVE  \/ /\ k \in DOMAIN t.edges /\ k \notin Disposed(t, g)
              /\ EdgesAfter(t, d, g)[k] = t.edges[k]
           \/ \E e \in RemappedEdges(t, g) :
                  Moved(d, g, e) = k /\ EdgesAfter(t, d, g)[k] = t.edges[e]
<1> DEFINE kept == DOMAIN t.edges \ Disposed(t, g)
           new == {Moved(d, g, e) : e \in RemappedEdges(t, g)}
           source(x) == CHOOSE e \in RemappedEdges(t, g) : Moved(d, g, e) = x
<1>1. EdgesAfter(t, d, g)
          = [x \in kept \cup new |-> IF x \in kept THEN t.edges[x] ELSE t.edges[source(x)]]
  BY DEF EdgesAfter
<1>2. k \in new => source(k) \in RemappedEdges(t, g) /\ Moved(d, g, source(k)) = k
  OBVIOUS
<1> HIDE DEF source
<1> QED  BY <1>1, <1>2

LEMMA RulesAre ==
    ASSUME NEW t, NEW d, NEW g, NEW r \in DOMAIN RulesAfter(t, d, g)
    PROVE  /\ r \in DOMAIN t.rules
           /\ \/ r \notin Disposed(t, g) /\ RulesAfter(t, d, g)[r] = t.rules[r]
              \/ r \in Remapped(t, g) /\ RulesAfter(t, d, g)[r] = Rewritten(t, d, g, r)
<1>1. r \in DOMAIN t.rules /\ (r \notin Disposed(t, g) \/ r \in Remapped(t, g))
  BY DEF RulesAfter
<1>2. RulesAfter(t, d, g)[r] = IF r \in Remapped(t, g) THEN Rewritten(t, d, g, r) ELSE t.rules[r]
  BY DEF RulesAfter
<1> QED  BY <1>1, <1>2

LEMMA WhereRulesMove ==
    ASSUME NEW t, Typed(t), References(t), NEW d, Admits(t, d, Governing(t, d)),
           NEW r \in DOMAIN t.rules, r \in Remapped(t, Governing(t, d))
    PROVE  Rewritten(t, d, Governing(t, d), r) \subseteq Features(t) \ OldNodes(d)
<1> DEFINE g == Governing(t, d)
<1>1. r \in Dependents(t, g) /\ Action(g, r) = "remap"
  BY DEF Remapped
<1>2. RemapFits(t, d, g, r)
  BY <1>1 DEF Admits, DependentDisposed
<1>3. Target(g, r) \in Features(t) \ OldNodes(d)
  BY <1>2 DEF RemapFits
<1>4. t.rules[r] \subseteq Features(t)
  BY DEF References
<1>5. \A n \in t.rules[r] : Swap(d, g, r, n) \in Features(t) \ OldNodes(d)
  BY <1>3, <1>4 DEF Swap
<1> HIDE DEF g
<1> QED  BY <1>5 DEF Rewritten, g

\* What the interpreter accepts names no record that is not there.
LEMMA ReferencesStay ==
    ASSUME NEW t, Typed(t), References(t), NEW d, Admissible(d), Checks(t, d),
           Admits(t, d, Governing(t, d)), NEW u, u.nodes = NodesAfter(t, d),
           u.edges = EdgesAfter(t, d, Governing(t, d)), u.rules = RulesAfter(t, d, Governing(t, d))
    PROVE  References(u)
<1> DEFINE g == Governing(t, d)
<1>1. \A n \in DOMAIN u.nodes : u.nodes[n].realizes \subseteq Concepts(u)
  BY RealizesStay
<1>2. Features(t) \ OldNodes(d) \subseteq Features(u)
  BY KindsAfter
<1>3. ASSUME NEW k \in DOMAIN u.edges
      PROVE  k[1] \in Features(u) /\ (IsQuality(k) \/ k[2] \in Features(u))
  <2>1. CASE k \in DOMAIN t.edges /\ k \notin Disposed(t, g)
    <3>1. Mentions(t, k) \cap OldNodes(d) = {}
      BY <2>1, Undisposed
    <3>2. k[1] \notin OldNodes(d) /\ (IsQuality(k) \/ k[2] \notin OldNodes(d))
      BY <2>1, <3>1, WhatIsMentioned
    <3>3. k[1] \in Features(t) /\ (IsQuality(k) \/ k[2] \in Features(t))
      BY <2>1 DEF References
    <3> QED  BY <1>2, <3>2, <3>3
  <2>2. CASE \E e \in RemappedEdges(t, g) : Moved(d, g, e) = k
    <3>1. PICK e \in RemappedEdges(t, g) : Moved(d, g, e) = k
      BY <2>2
    <3>2. k[1] \in Features(t) \ OldNodes(d) /\ (~IsQuality(k) => k[2] \in Features(t) \ OldNodes(d))
      BY <3>1, WhereEdgesMove
    <3> QED  BY <1>2, <3>2
  <2> QED  BY <2>1, <2>2, EdgesAre
<1>4. ASSUME NEW r \in DOMAIN u.rules
      PROVE  u.rules[r] \subseteq Features(u)
  <2>1. r \in DOMAIN t.rules
    BY RulesAre
  <2>2. CASE r \notin Disposed(t, g) /\ u.rules[r] = t.rules[r]
    <3>1. t.rules[r] \cap OldNodes(d) = {}
      BY <2>1, <2>2, Undisposed, WhatIsMentioned
    <3>2. t.rules[r] \subseteq Features(t)
      BY <2>1 DEF References
    <3> QED  BY <1>2, <2>2, <3>1, <3>2
  <2>3. CASE r \in Remapped(t, g) /\ u.rules[r] = Rewritten(t, d, g, r)
    BY <1>2, <2>1, <2>3, WhereRulesMove
  <2> QED  BY <2>2, <2>3, RulesAre
<1> QED  BY <1>1, <1>3, <1>4 DEF References

\* Nor does a redirect lead nowhere; and it is no live node's slug, if slugs differ.
LEMMA RedirectsStay ==
    ASSUME NEW t, Typed(t), Redirects(t), SlugsDiffer(t), NEW d, Admissible(d), Checks(t, d),
           NEW u, u.nodes = NodesAfter(t, d), u.redirects = RedirectsAfter(t, d)
    PROVE  Redirects(u)
<1>1. \A n : n \in DOMAIN u.nodes <=> n \in DOMAIN t.nodes /\ (Keeps(d) \/ n \notin OldNodes(d))
  BY Keeping
<1>2. \A n \in DOMAIN u.nodes : u.nodes[n].slug = t.nodes[n].slug
  BY <1>1, NodeRewritten, Keeping
<1>3. ASSUME NEW s \in DOMAIN t.redirects
      PROVE  /\ t.redirects[s] \in DOMAIN t.nodes
             /\ \A n \in DOMAIN t.nodes : t.nodes[n].slug # s
  BY DEF Redirects
<1>4. CASE d.op = "merge"
  <2> DEFINE absorbed == {t.nodes[n].slug : n \in d.from}
             slug == t.nodes[The(d.to)].slug
             redirects == RedirectsAfter(t, d)
  <2>1. redirects = [k \in (DOMAIN t.redirects \cup absorbed) \ {slug} |->
                        IF k \in absorbed \/ t.redirects[k] \in d.from THEN The(d.to)
                        ELSE t.redirects[k]]
    BY <1>4 DEF RedirectsAfter
  <2>2. OldNodes(d) = d.from /\ ~Keeps(d)
    BY <1>4 DEF OldNodes, Keeps
  <2>3. The(d.to) \in d.to
    BY <1>4 DEF The, Admissible
  <2>4. The(d.to) \in DOMAIN u.nodes
    BY <1>1, <2>2, <2>3 DEF Checks
  <2>5. ASSUME NEW k \in DOMAIN redirects
        PROVE  redirects[k] \in DOMAIN u.nodes /\ \A n \in DOMAIN u.nodes : u.nodes[n].slug # k
    <3>1. k \in DOMAIN t.redirects \cup absorbed /\ k # slug
      BY <2>1
    <3>2. redirects[k] = IF k \in absorbed \/ t.redirects[k] \in d.from THEN The(d.to)
                         ELSE t.redirects[k]
      BY <2>1
    <3>3. redirects[k] \in DOMAIN u.nodes
      BY <1>1, <1>3, <2>2, <2>4, <3>1, <3>2
    <3>4. CASE k \in absorbed
      <4>1. PICK n \in d.from : t.nodes[n].slug = k
        BY <3>4
      <4>2. n \in DOMAIN t.nodes /\ n \notin DOMAIN u.nodes
        BY <1>1, <2>2 DEF Checks
      <4> QED  BY <1>1, <1>2, <3>3, <4>1, <4>2 DEF SlugsDiffer
    <3>5. CASE k \in DOMAIN t.redirects
      BY <1>1, <1>2, <1>3, <3>3, <3>5
    <3> QED  BY <3>1, <3>4, <3>5
  <2> QED  BY <2>5 DEF Redirects
<1>5. CASE d.op = "remove" \/ (d.op = "split" /\ ~d.demote)
  <2> DEFINE gone == {s \in DOMAIN t.redirects : t.redirects[s] \in d.from}
  <2>1. u.redirects = Minus(t.redirects, gone)
    BY <1>5 DEF RedirectsAfter
  <2>2. OldNodes(d) = d.from
    BY <1>5 DEF OldNodes
  <2>3. \A s \in DOMAIN u.redirects : /\ s \in DOMAIN t.redirects
                                      /\ u.redirects[s] = t.redirects[s]
                                      /\ t.redirects[s] \notin d.from
    BY <2>1 DEF Minus
  <2> QED  BY <1>1, <1>2, <1>3, <2>2, <2>3 DEF Redirects
<1>6. CASE d.op = "move" \/ (d.op = "split" /\ d.demote)
  <2>1. u.redirects = t.redirects
    BY <1>6 DEF RedirectsAfter
  <2>2. DOMAIN u.nodes = DOMAIN t.nodes
    BY <1>1, <1>6 DEF OldNodes, Keeps
  <2> QED  BY <1>2, <1>3, <2>1, <2>2 DEF Redirects
<1> QED  BY <1>4, <1>5, <1>6 DEF Admissible

------------------------------------------------------------------------------
(* What a migration makes of a well-formed tree.                             *)

LEMMA TypedAfter ==
    ASSUME NEW t, Typed(t), References(t), NEW d, Admissible(d), Checks(t, d),
           Admits(t, d, Governing(t, d)), NEW id
    PROVE  Typed(Accounted(t, d, id))
<1> DEFINE g == Governing(t, d)
           u == Accounted(t, d, id)
<1>1. u = [nodes |-> NodesAfter(t, d), edges |-> EdgesAfter(t, d, g), rules |-> RulesAfter(t, d, g),
           ledger |-> t.ledger \cup Entries(Outcome(t, d), id), redirects |-> RedirectsAfter(t, d)]
  BY DEF Accounted
<1>2. /\ u.nodes = NodesAfter(t, d) /\ u.edges = EdgesAfter(t, d, g)
      /\ u.rules = RulesAfter(t, d, g) /\ u.redirects = RedirectsAfter(t, d)
  BY DEF Accounted
<1>3. u = [nodes |-> u.nodes, edges |-> u.edges, rules |-> u.rules,
           ledger |-> u.ledger, redirects |-> u.redirects]
  BY DEF Accounted
<1> HIDE DEF u
<1>4. Directory(u.nodes, Nodes) /\ \A n \in DOMAIN u.nodes : u.nodes[n] \in Node
  <2>1. u.nodes = [n \in DOMAIN u.nodes |-> u.nodes[n]]
    BY <1>2 DEF NodesAfter
  <2>2. \A n \in DOMAIN u.nodes : n \in DOMAIN t.nodes /\ u.nodes[n] = NodeAfter(t, d, n)
    BY <1>2, Keeping
  <2>3. \A n \in DOMAIN u.nodes : n \in Nodes
    BY <2>2 DEF Typed, Directory
  <2>4. \A n \in DOMAIN u.nodes : u.nodes[n] \in Node
    BY <2>2, NodeRewritten
  <2> QED  BY <2>1, <2>3, <2>4 DEF Directory
<1>5. ASSUME NEW k \in DOMAIN u.edges
      PROVE  k \in Edges /\ u.edges[k] \in IF IsQuality(k) THEN {"assessed"} ELSE Polarities
  <2>1. \A e \in DOMAIN t.edges :
            e \in Edges /\ t.edges[e] \in IF IsQuality(e) THEN {"assessed"} ELSE Polarities
    BY DEF Typed, Directory
  <2>2. CASE k \in DOMAIN t.edges /\ u.edges[k] = t.edges[k]
    BY <2>1, <2>2
  <2>3. CASE \E e \in RemappedEdges(t, g) : Moved(d, g, e) = k /\ u.edges[k] = t.edges[e]
    <3>1. PICK e \in RemappedEdges(t, g) : Moved(d, g, e) = k /\ u.edges[k] = t.edges[e]
      BY <2>3
    <3>2. e \in DOMAIN t.edges /\ k \in Edges /\ (IsQuality(k) <=> IsQuality(e))
      BY <3>1, WhereEdgesMove
    <3> QED  BY <2>1, <3>1, <3>2
  <2> QED  BY <1>2, <2>2, <2>3, EdgesAre
<1>6. u.edges = [k \in DOMAIN u.edges |-> u.edges[k]]
  BY <1>2 DEF EdgesAfter
<1>7. ASSUME NEW r \in DOMAIN u.rules
      PROVE  r \in Rules /\ u.rules[r] \subseteq Nodes
  <2>1. r \in DOMAIN t.rules
    BY <1>2, RulesAre
  <2>2. r \in Rules /\ t.rules[r] \subseteq Nodes
    BY <2>1 DEF Typed, Directory
  <2>3. r \in Remapped(t, g) => Rewritten(t, d, g, r) \subseteq Nodes
    BY <2>1, WhereRulesMove, FeaturesAre
  <2> QED  BY <1>2, <2>2, <2>3, RulesAre
<1>8. u.rules = [r \in DOMAIN u.rules |-> u.rules[r]]
  BY <1>2 DEF RulesAfter
<1>9. Directory(u.redirects, Slugs) /\ \A s \in DOMAIN u.redirects : u.redirects[s] \in Nodes
  <2>1. Directory(t.redirects, Slugs) /\ \A s \in DOMAIN t.redirects : t.redirects[s] \in Nodes
    BY DEF Typed
  <2>2. CASE d.op = "merge"
    <3> DEFINE absorbed == {t.nodes[n].slug : n \in d.from}
               slug == t.nodes[The(d.to)].slug
    <3>1. u.redirects = [k \in (DOMAIN t.redirects \cup absorbed) \ {slug} |->
                            IF k \in absorbed \/ t.redirects[k] \in d.from THEN The(d.to)
                            ELSE t.redirects[k]]
      BY <1>2, <2>2 DEF RedirectsAfter
    <3>2. The(d.to) \in Nodes
      BY <2>2 DEF The, Admissible
    <3>3. \A n \in d.from : t.nodes[n] \in Node
      BY DEF Checks, Typed
    <3>4. absorbed \subseteq Slugs
      BY <3>3 DEF Node
    <3> HIDE DEF absorbed, slug
    <3> QED  BY <2>1, <3>1, <3>2, <3>4 DEF Directory
  <2>3. CASE d.op = "remove" \/ (d.op = "split" /\ ~d.demote)
    <3>1. u.redirects = Minus(t.redirects, {s \in DOMAIN t.redirects : t.redirects[s] \in d.from})
      BY <1>2, <2>3 DEF RedirectsAfter
    <3> QED  BY <2>1, <3>1 DEF Minus, Directory
  <2>4. CASE d.op = "move" \/ (d.op = "split" /\ d.demote)
    <3>1. u.redirects = t.redirects
      BY <1>2, <2>4 DEF RedirectsAfter
    <3> QED  BY <2>1, <3>1
  <2> QED  BY <2>2, <2>3, <2>4 DEF Admissible
<1>10. Directory(u.edges, Edges) /\ Directory(u.rules, Rules)
  BY <1>5, <1>6, <1>7, <1>8 DEF Directory
<1> QED
  <2>1. Typed(u)
    BY <1>3, <1>4, <1>5, <1>7, <1>9, <1>10 DEF Typed
  <2> QED  BY <2>1 DEF u

\* Every edge or rule it writes is sent to the gate; the others are as they were.
LEMMA WrittenIsGated ==
    ASSUME NEW t, Typed(t), References(t), NEW d, Admissible(d),
           Admits(t, d, Governing(t, d)), NEW u,
           u.edges = EdgesAfter(t, d, Governing(t, d)), u.rules = RulesAfter(t, d, Governing(t, d))
    PROVE  /\ \A k \in DOMAIN u.edges :
                  \/ k \in Gated(t, d, Governing(t, d))
                  \/ k \in DOMAIN t.edges /\ u.edges[k] = t.edges[k]
           /\ \A r \in DOMAIN u.rules :
                  \/ r \in Gated(t, d, Governing(t, d))
                  \/ r \in DOMAIN t.rules /\ u.rules[r] = t.rules[r]
<1> DEFINE g == Governing(t, d)
<1>1. ASSUME NEW k \in DOMAIN u.edges
      PROVE  k \in Gated(t, d, g) \/ (k \in DOMAIN t.edges /\ u.edges[k] = t.edges[k])
  <2>1. CASE \E e \in RemappedEdges(t, g) : Moved(d, g, e) = k /\ u.edges[k] = t.edges[e]
    <3>1. PICK e \in RemappedEdges(t, g) : Moved(d, g, e) = k /\ u.edges[k] = t.edges[e]
      BY <2>1
    <3>2. CASE k \notin DOMAIN t.edges
      BY <3>1, <3>2 DEF Gated
    <3>3. CASE k \in DOMAIN t.edges
      <4>1. k \in Meeting(t, d, g, e)
        BY <3>1, <3>3 DEF Meeting
      <4>2. Compatible(t, d, g, e)
        BY WhereEdgesMove
      <4>3. k = e \/ t.edges[k] = t.edges[e]
        BY <4>1, <4>2 DEF Compatible
      <4> QED  BY <3>1, <3>3, <4>3
    <3> QED  BY <3>2, <3>3
  <2> QED  BY <2>1, EdgesAre
<1>2. ASSUME NEW r \in DOMAIN u.rules
      PROVE  r \in Gated(t, d, g) \/ (r \in DOMAIN t.rules /\ u.rules[r] = t.rules[r])
  BY RulesAre DEF Gated
<1> QED  BY <1>1, <1>2

\* No slug is lost in a merge, and otherwise only one that led to a node that went.
LEMMA SlugsLost ==
    ASSUME NEW t, Typed(t), NEW d, Admissible(d), Checks(t, d), NEW u,
           u.nodes = NodesAfter(t, d), u.redirects = RedirectsAfter(t, d),
           NEW s \in Published(t) \ Published(u)
    PROVE  /\ LeadsTo(t, s) \notin DOMAIN u.nodes
           /\ d.op # "merge"
<1>1. \A n : n \in DOMAIN u.nodes <=> n \in DOMAIN t.nodes /\ (Keeps(d) \/ n \notin OldNodes(d))
  BY Keeping
<1>2. \A n \in DOMAIN u.nodes : n \in DOMAIN t.nodes /\ u.nodes[n].slug = t.nodes[n].slug
  BY <1>1, NodeRewritten, Keeping
<1>3. s \notin DOMAIN u.redirects /\ \A n \in DOMAIN u.nodes : t.nodes[n].slug # s
  BY <1>2 DEF Published
<1>4. s \in DOMAIN t.redirects \/ \E n \in DOMAIN t.nodes : t.nodes[n].slug = s
  BY DEF Published
<1>5. s \notin DOMAIN t.redirects =>
          LeadsTo(t, s) \in DOMAIN t.nodes /\ t.nodes[LeadsTo(t, s)].slug = s
  BY <1>4 DEF LeadsTo
<1>6. s \in DOMAIN t.redirects => LeadsTo(t, s) = t.redirects[s]
  BY DEF LeadsTo
<1>7. d.op # "merge"
  <2> SUFFICES ASSUME d.op = "merge"
               PROVE  FALSE
    OBVIOUS
  <2> DEFINE absorbed == {t.nodes[n].slug : n \in d.from}
             slug == t.nodes[The(d.to)].slug
  <2>1. DOMAIN u.redirects = (DOMAIN t.redirects \cup absorbed) \ {slug}
    BY DEF RedirectsAfter
  <2>2. The(d.to) \in d.to /\ OldNodes(d) = d.from
    BY DEF The, Admissible, OldNodes
  <2>3. The(d.to) \in DOMAIN u.nodes
    BY <1>1, <2>2 DEF Checks
  <2>4. s # slug
    BY <1>3, <2>3
  <2>5. s \notin DOMAIN t.redirects
    BY <1>3, <2>1, <2>4
  <2>6. PICK n \in DOMAIN t.nodes : t.nodes[n].slug = s
    BY <1>4, <2>5
  <2>7. n \in d.from
    BY <1>1, <1>3, <2>2, <2>6
  <2> QED  BY <1>3, <2>1, <2>4, <2>6, <2>7
<1>8. CASE s \notin DOMAIN t.redirects
  BY <1>3, <1>5, <1>7, <1>8
<1>9. CASE s \in DOMAIN t.redirects
  <2>1. CASE d.op = "remove" \/ (d.op = "split" /\ ~d.demote)
    <3>1. t.redirects[s] \in d.from
      BY <1>3, <1>9, <2>1 DEF RedirectsAfter, Minus
    <3>2. OldNodes(d) = d.from /\ ~Keeps(d)
      BY <2>1 DEF OldNodes, Keeps
    <3> QED  BY <1>1, <1>6, <1>7, <1>9, <3>1, <3>2
  <2>2. CASE d.op = "move" \/ (d.op = "split" /\ d.demote)
    BY <1>3, <1>9, <2>2 DEF RedirectsAfter
  <2> QED  BY <1>7, <2>1, <2>2 DEF Admissible
<1> QED  BY <1>8, <1>9

------------------------------------------------------------------------------
(* Edits by hand.                                                            *)

\* Writing one directory leaves the others.
LEMMA OneDirectory ==
    ASSUME NEW t, Typed(t), NEW x
    PROVE  /\ [t EXCEPT !.nodes = x] = [nodes |-> x, edges |-> t.edges, rules |-> t.rules,
                                        ledger |-> t.ledger, redirects |-> t.redirects]
           /\ [t EXCEPT !.edges = x] = [nodes |-> t.nodes, edges |-> x, rules |-> t.rules,
                                        ledger |-> t.ledger, redirects |-> t.redirects]
           /\ [t EXCEPT !.ledger = x] = [nodes |-> t.nodes, edges |-> t.edges, rules |-> t.rules,
                                         ledger |-> x, redirects |-> t.redirects]
<1> DEFINE nodes == t.nodes  edges == t.edges  rules == t.rules
           ledger == t.ledger  redirects == t.redirects
<1>1. t = [nodes |-> nodes, edges |-> edges, rules |-> rules, ledger |-> ledger,
           redirects |-> redirects]
  BY DEF Typed
<1> HIDE DEF nodes, edges, rules, ledger, redirects
<1>2. [t EXCEPT !.nodes = x] = [nodes |-> x, edges |-> edges, rules |-> rules,
                                ledger |-> ledger, redirects |-> redirects]
  BY <1>1
<1>3. [t EXCEPT !.edges = x] = [nodes |-> nodes, edges |-> x, rules |-> rules,
                                ledger |-> ledger, redirects |-> redirects]
  BY <1>1
<1>4. [t EXCEPT !.ledger = x] = [nodes |-> nodes, edges |-> edges, rules |-> rules,
                                 ledger |-> x, redirects |-> redirects]
  BY <1>1
<1> QED  BY <1>2, <1>3, <1>4 DEF nodes, edges, rules, ledger, redirects

\* A published slug keeps leading somewhere, or its node has gone.
Kept(t, u) == \A s \in Published(t) \ Published(u) : LeadsTo(t, s) \notin DOMAIN u.nodes

LEMMA KeptWhen ==
    ASSUME NEW t, NEW u, DOMAIN t.redirects \subseteq DOMAIN u.redirects,
           \A n \in DOMAIN t.nodes \cap DOMAIN u.nodes : u.nodes[n].slug = t.nodes[n].slug
    PROVE  Kept(t, u)
<1> SUFFICES ASSUME NEW s \in Published(t) \ Published(u), LeadsTo(t, s) \in DOMAIN u.nodes
             PROVE  FALSE
  BY DEF Kept
<1>1. s \notin DOMAIN t.redirects
  BY DEF Published
<1>2. \E n \in DOMAIN t.nodes : t.nodes[n].slug = s
  BY <1>1 DEF Published
<1>3. LeadsTo(t, s) \in DOMAIN t.nodes /\ t.nodes[LeadsTo(t, s)].slug = s
  BY <1>1, <1>2 DEF LeadsTo
<1> QED  BY <1>3 DEF Published

\* The lines that are new are of no migration.
Handwritten(t, u) == \A x \in u.ledger \ t.ledger : x.by = 0

\* The same nodes with other summaries or `realizes`, or other edges, or other lines.
LEMMA TypedNodes ==
    ASSUME NEW t, Typed(t), NEW x, Directory(x, Nodes), \A n \in DOMAIN x : x[n] \in Node
    PROVE  Typed([t EXCEPT !.nodes = x])
<1> DEFINE u == [t EXCEPT !.nodes = x]
<1>1. u = [nodes |-> x, edges |-> t.edges, rules |-> t.rules,
           ledger |-> t.ledger, redirects |-> t.redirects]
  BY OneDirectory
<1> HIDE DEF u
<1>2. Typed(u)
  BY <1>1 DEF Typed
<1> QED  BY <1>2 DEF u

LEMMA TypedEdges ==
    ASSUME NEW t, Typed(t), NEW x, Directory(x, Edges),
           \A e \in DOMAIN x : x[e] \in IF IsQuality(e) THEN {"assessed"} ELSE Polarities
    PROVE  Typed([t EXCEPT !.edges = x])
<1> DEFINE u == [t EXCEPT !.edges = x]
<1>1. u = [nodes |-> t.nodes, edges |-> x, rules |-> t.rules,
           ledger |-> t.ledger, redirects |-> t.redirects]
  BY OneDirectory
<1> HIDE DEF u
<1>2. Typed(u)
  BY <1>1 DEF Typed
<1> QED  BY <1>2 DEF u

LEMMA TypedLedger ==
    ASSUME NEW t, Typed(t), NEW x
    PROVE  /\ Typed([t EXCEPT !.ledger = x])
           /\ [t EXCEPT !.ledger = x].ledger = x
           /\ [t EXCEPT !.ledger = x].nodes = t.nodes
           /\ [t EXCEPT !.ledger = x].redirects = t.redirects
<1> DEFINE u == [t EXCEPT !.ledger = x]
<1>1. u = [nodes |-> t.nodes, edges |-> t.edges, rules |-> t.rules,
           ledger |-> x, redirects |-> t.redirects]
  BY OneDirectory
<1> HIDE DEF u
<1>2. Typed(u) /\ u.ledger = x /\ u.nodes = t.nodes /\ u.redirects = t.redirects
  BY <1>1 DEF Typed
<1> QED  BY <1>2 DEF u

LEMMA TypedLines ==
    ASSUME NEW t, Typed(t), NEW lines
    PROVE  /\ Typed(Lines(t, lines)) /\ Handwritten(t, Lines(t, lines))
           /\ Lines(t, lines).nodes = t.nodes /\ Lines(t, lines).redirects = t.redirects
<1> DEFINE ledger == t.ledger \cup {Line(f, 0) : f \in lines}
<1>1. Lines(t, lines) = [t EXCEPT !.ledger = ledger]
  BY DEF Lines
<1>2. \A x \in ledger \ t.ledger : x.by = 0
  BY DEF Line
<1> HIDE DEF ledger
<1> QED  BY <1>1, <1>2, TypedLedger DEF Handwritten

\* A node written anew under its slug.
LEMMA TypedNode ==
    ASSUME NEW t, Typed(t), NEW n \in DOMAIN t.nodes, NEW x \in Node
    PROVE  /\ Typed([t EXCEPT !.nodes[n] = x])
           /\ [t EXCEPT !.nodes[n] = x].nodes = [t.nodes EXCEPT ![n] = x]
           /\ [t EXCEPT !.nodes[n] = x].redirects = t.redirects
           /\ [t EXCEPT !.nodes[n] = x].ledger = t.ledger
           /\ x.slug = t.nodes[n].slug => Kept(t, [t EXCEPT !.nodes[n] = x])
<1> DEFINE nodes == [t.nodes EXCEPT ![n] = x]
           u == [t EXCEPT !.nodes = nodes]
<1>1. [t EXCEPT !.nodes[n] = x] = u
  OBVIOUS
<1>2. Directory(t.nodes, Nodes) /\ \A k \in DOMAIN t.nodes : t.nodes[k] \in Node
  BY DEF Typed
<1>3. /\ Directory(nodes, Nodes) /\ DOMAIN nodes = DOMAIN t.nodes
      /\ \A k \in DOMAIN nodes : nodes[k] = IF k = n THEN x ELSE t.nodes[k]
  BY <1>2 DEF Directory
<1>4. \A k \in DOMAIN nodes : nodes[k] \in Node
  BY <1>2, <1>3
<1> HIDE DEF nodes
<1>5. u.nodes = nodes /\ u.redirects = t.redirects /\ u.ledger = t.ledger
  BY OneDirectory
<1>6. Typed(u)
  BY <1>3, <1>4, TypedNodes
<1> HIDE DEF u
<1>7. x.slug = t.nodes[n].slug => Kept(t, u)
  BY <1>3, <1>5, KeptWhen
<1> QED  BY <1>1, <1>5, <1>6, <1>7 DEF nodes

\* Every edit by hand is a commit CI lets through, of a well-formed tree; it loses no
\* URL but with its node and writes no line of a migration.
Edits(u) ==
    /\ Commit(u) /\ Typed(u) /\ Kept(main, u) /\ Handwritten(main, u)
    /\ commits < MaxCommits /\ commits' = commits + 1
    /\ UNCHANGED <<settled, draft, work, last>>

LEMMA MintNodeEdits ==
    ASSUME Typed(main), NEW n \in Nodes, NEW text \in Texts, MintNode(n, text)
    PROVE  \E u : Edits(u)
<1> DEFINE x == [kind |-> "feature", text |-> text, slug |-> Slug[n], layer |-> 1,
                 realizes |-> {}, aliases |-> {}]
           nodes == [k \in DOMAIN main.nodes \cup {n} |-> IF k = n THEN x ELSE main.nodes[k]]
           u == [main EXCEPT !.nodes = nodes]
<1>1. x \in Node
  BY MigrationAssumption DEF Node
<1>2. n \notin DOMAIN main.nodes /\ Edit(u)
  BY DEF MintNode
<1>3. Directory(nodes, Nodes)
  BY DEF Typed, Directory
<1>4. \A k \in DOMAIN nodes : nodes[k] \in Node
  <2> HIDE DEF x
  <2> QED  BY <1>1 DEF Typed
<1>5. \A k \in DOMAIN main.nodes : k # n /\ nodes[k] = main.nodes[k]
  BY <1>2
<1> HIDE DEF nodes
<1>6. u.nodes = nodes /\ u.redirects = main.redirects /\ u.ledger = main.ledger /\ Typed(u)
  BY <1>3, <1>4, OneDirectory, TypedNodes
<1> HIDE DEF u
<1>7. Kept(main, u)
  BY <1>5, <1>6, KeptWhen
<1> QED  BY <1>2, <1>6, <1>7 DEF Edit, Edits, Handwritten

LEMMA MintEdgeEdits ==
    ASSUME Typed(main), NEW e \in Edges, NEW p \in Polarities, MintEdge(e, p)
    PROVE  \E u : Edits(u)
<1> DEFINE edges == [k \in DOMAIN main.edges \cup {e} |->
                        IF k = e THEN (IF IsQuality(e) THEN "assessed" ELSE p) ELSE main.edges[k]]
           u == [main EXCEPT !.edges = edges]
<1>1. Edit(u)
  BY DEF MintEdge
<1>2. Directory(edges, Edges)
  BY DEF Typed, Directory
<1>3. \A k \in DOMAIN edges : edges[k] \in IF IsQuality(k) THEN {"assessed"} ELSE Polarities
  BY DEF Typed
<1> HIDE DEF edges
<1>4. /\ u.nodes = main.nodes /\ u.redirects = main.redirects /\ u.ledger = main.ledger
      /\ Typed(u)
  BY <1>2, <1>3, OneDirectory, TypedEdges
<1> HIDE DEF u
<1>5. Kept(main, u)
  BY <1>4, KeptWhen
<1> QED  BY <1>1, <1>4, <1>5 DEF Edit, Edits, Handwritten

LEMMA RetextEdits ==
    ASSUME Typed(main), NEW n \in Nodes, NEW text \in Texts, NEW line \in BOOLEAN,
           Retext(n, text, line)
    PROVE  \E u : Edits(u)
<1> DEFINE x == [main.nodes[n] EXCEPT !.text = text]
           v == [main EXCEPT !.nodes[n] = x]
           lines == IF line THEN Facts(main) \ Facts(v) ELSE {}
           u == Lines(v, lines)
<1>1. n \in DOMAIN main.nodes /\ Edit(u)
  BY DEF Retext
<1>2. main.nodes[n] \in Node
  BY <1>1 DEF Typed
<1>3. x \in Node /\ x.slug = main.nodes[n].slug
  BY <1>2 DEF Node
<1> HIDE DEF x
<1>4. Typed(v) /\ Kept(main, v) /\ v.ledger = main.ledger
  BY <1>1, <1>3, TypedNode
<1> HIDE DEF v, lines
<1>5. Typed(u) /\ u.nodes = v.nodes /\ u.redirects = v.redirects /\ Handwritten(v, u)
  BY <1>4, TypedLines
<1> HIDE DEF u
<1>6. Kept(main, u)
  BY <1>4, <1>5 DEF Kept, Published
<1> QED  BY <1>1, <1>4, <1>5, <1>6 DEF Edit, Edits, Handwritten

LEMMA RepolarizeEdits ==
    ASSUME Typed(main), NEW e \in Edges, NEW line \in BOOLEAN, Repolarize(e, line)
    PROVE  \E u : Edits(u)
<1>1. PICK p \in Polarities :
          LET u == [main EXCEPT !.edges[e] = p]
          IN  Edit(Lines(u, IF line THEN Facts(main) \ Facts(u) ELSE {}))
  BY DEF Repolarize
<1> DEFINE edges == [main.edges EXCEPT ![e] = p]
           v == [main EXCEPT !.edges = edges]
           lines == IF line THEN Facts(main) \ Facts(v) ELSE {}
           u == Lines(v, lines)
<1>2. e \in DOMAIN main.edges /\ ~IsQuality(e) /\ Edit(u)
  BY <1>1 DEF Repolarize
<1>3. Directory(edges, Edges)
  BY DEF Typed, Directory
<1>4. \A k \in DOMAIN edges : edges[k] \in IF IsQuality(k) THEN {"assessed"} ELSE Polarities
  BY <1>2 DEF Typed
<1> HIDE DEF edges
<1>5. /\ v.nodes = main.nodes /\ v.redirects = main.redirects /\ v.ledger = main.ledger
      /\ Typed(v)
  BY <1>3, <1>4, OneDirectory, TypedEdges
<1> HIDE DEF v, lines
<1>6. Typed(u) /\ u.nodes = v.nodes /\ u.redirects = v.redirects /\ Handwritten(v, u)
  BY <1>5, TypedLines
<1> HIDE DEF u
<1>7. Kept(main, u)
  BY <1>5, <1>6, KeptWhen
<1> QED  BY <1>2, <1>5, <1>6, <1>7 DEF Edit, Edits, Handwritten

LEMMA ThreeDirectories ==
    ASSUME NEW nodes, NEW edges, NEW rules, NEW ledger, NEW redirects, NEW x, NEW y, NEW z, NEW t,
           t = [nodes |-> nodes, edges |-> edges, rules |-> rules, ledger |-> ledger,
                redirects |-> redirects]
    PROVE  [t EXCEPT !.nodes = x, !.edges = y, !.rules = z]
               = [nodes |-> x, edges |-> y, rules |-> z, ledger |-> ledger, redirects |-> redirects]
<1> DEFINE first == [t EXCEPT !.nodes = x]
           second == [first EXCEPT !.edges = y]
           third == [second EXCEPT !.rules = z]
<1>1. [t EXCEPT !.nodes = x, !.edges = y, !.rules = z] = third
  OBVIOUS
<1>2. first = [nodes |-> x, edges |-> edges, rules |-> rules, ledger |-> ledger,
               redirects |-> redirects]
  OBVIOUS
<1> HIDE DEF first
<1>3. second = [nodes |-> x, edges |-> y, rules |-> rules, ledger |-> ledger,
                redirects |-> redirects]
  BY <1>2
<1> HIDE DEF second
<1>4. third = [nodes |-> x, edges |-> y, rules |-> z, ledger |-> ledger,
               redirects |-> redirects]
  BY <1>3
<1> HIDE DEF third
<1> QED  BY <1>1, <1>4

LEMMA DeleteEdits ==
    ASSUME Typed(main), NEW r, NEW line \in BOOLEAN, Delete(r, line)
    PROVE  \E u : Edits(u)
<1> DEFINE v == [main EXCEPT !.nodes = Minus(@, {r}), !.edges = Minus(@, {r}),
                             !.rules = Minus(@, {r})]
           lines == IF line THEN Facts(main) \ Facts(v) ELSE {}
           u == Lines(v, lines)
           nodes == Minus(main.nodes, {r})
           edges == Minus(main.edges, {r})
           rules == Minus(main.rules, {r})
<1>1. Edit(u)
  BY DEF Delete
<1>2. main = [nodes |-> main.nodes, edges |-> main.edges, rules |-> main.rules,
              ledger |-> main.ledger, redirects |-> main.redirects]
  BY DEF Typed
<1>3. /\ Directory(nodes, Nodes) /\ Directory(edges, Edges) /\ Directory(rules, Rules)
      /\ \A k \in DOMAIN nodes : k \in DOMAIN main.nodes /\ nodes[k] = main.nodes[k]
      /\ \A k \in DOMAIN edges : k \in DOMAIN main.edges /\ edges[k] = main.edges[k]
      /\ \A k \in DOMAIN rules : k \in DOMAIN main.rules /\ rules[k] = main.rules[k]
  BY DEF Typed, Directory, Minus
<1>4. v = [nodes |-> nodes, edges |-> edges, rules |-> rules,
           ledger |-> main.ledger, redirects |-> main.redirects]
  <2>1. v = [main EXCEPT !.nodes = nodes, !.edges = edges, !.rules = rules]
    OBVIOUS
  <2> HIDE DEF nodes, edges, rules, v
  <2> QED  BY <1>2, <2>1, ThreeDirectories
<1> HIDE DEF nodes, edges, rules
<1> HIDE DEF v, lines
<1>5. Typed(v) /\ v.ledger = main.ledger
  BY <1>3, <1>4 DEF Typed
<1>6. Typed(u) /\ u.nodes = nodes /\ u.redirects = main.redirects /\ Handwritten(v, u)
  BY <1>4, <1>5, TypedLines
<1> HIDE DEF u
<1>7. Kept(main, u)
  BY <1>3, <1>6, KeptWhen
<1> QED  BY <1>1, <1>5, <1>6, <1>7 DEF Edit, Edits, Handwritten

LEMMA UnrealizeEdits ==
    ASSUME Typed(main), NEW n \in Nodes, NEW c \in Nodes, Unrealize(n, c)
    PROVE  \E u : Edits(u)
<1> DEFINE x == [main.nodes[n] EXCEPT !.realizes = @ \ {c}]
           u == [main EXCEPT !.nodes[n] = x]
<1>1. n \in DOMAIN main.nodes /\ Edit(u)
  BY DEF Unrealize
<1>2. main.nodes[n] \in Node
  BY <1>1 DEF Typed
<1>3. x \in Node /\ x.slug = main.nodes[n].slug
  BY <1>2 DEF Node
<1> HIDE DEF x
<1>4. Typed(u) /\ Kept(main, u) /\ u.ledger = main.ledger
  BY <1>1, <1>3, TypedNode
<1> QED  BY <1>1, <1>4 DEF Edit, Edits, Handwritten

LEMMA DropLineEdits ==
    ASSUME Typed(main), NEW x, DropLine(x)
    PROVE  \E u : Edits(u)
<1> DEFINE u == [main EXCEPT !.ledger = @ \ {x}]
<1>1. Edit(u)
  BY DEF DropLine
<1>2. /\ Typed(u) /\ u.nodes = main.nodes /\ u.redirects = main.redirects
      /\ u.ledger = main.ledger \ {x}
  BY TypedLedger
<1> HIDE DEF u
<1>3. Kept(main, u)
  BY <1>2, KeptWhen
<1> QED  BY <1>1, <1>2, <1>3 DEF Edit, Edits, Handwritten

LEMMA RenameEdits ==
    ASSUME Typed(main), NEW n \in Nodes, NEW s \in Slugs, rename_slug(n, s)
    PROVE  \E u : Edits(u)
<1> DEFINE old == main.nodes[n].slug
           x == [main.nodes[n] EXCEPT !.slug = s]
           redirects == [k \in (DOMAIN main.redirects \cup {old}) \ {s} |->
                            IF k = old THEN n ELSE main.redirects[k]]
           v == [main EXCEPT !.nodes[n] = x]
           u == [main EXCEPT !.nodes[n].slug = s, !.redirects = redirects]
<1>1. n \in DOMAIN main.nodes /\ Edit(u)
  BY DEF rename_slug
<1>2. main.nodes[n] \in Node
  BY <1>1 DEF Typed
<1>3. x \in Node /\ x.slug = s /\ old \in Slugs
  BY <1>2 DEF Node
<1>4. Directory(redirects, Slugs) /\ \A k \in DOMAIN redirects : redirects[k] \in Nodes
  BY <1>3 DEF Typed, Directory
<1>5. DOMAIN redirects = (DOMAIN main.redirects \cup {old}) \ {s}
  OBVIOUS
<1>6. u = [v EXCEPT !.redirects = redirects]
  BY DEF Typed
<1> HIDE DEF x, redirects, u
<1>7. /\ Typed(v) /\ v.nodes = [main.nodes EXCEPT ![n] = x] /\ v.redirects = main.redirects
      /\ v.ledger = main.ledger
  BY <1>1, <1>3, TypedNode
<1> HIDE DEF v
<1>8. u = [nodes |-> v.nodes, edges |-> v.edges, rules |-> v.rules,
           ledger |-> v.ledger, redirects |-> redirects]
  BY <1>6, <1>7 DEF Typed
<1>9. Typed(u)
  BY <1>4, <1>7, <1>8 DEF Typed
<1>10. /\ u.redirects = redirects /\ u.ledger = main.ledger /\ DOMAIN u.nodes = DOMAIN main.nodes
       /\ \A k \in DOMAIN u.nodes : u.nodes[k].slug = IF k = n THEN s ELSE main.nodes[k].slug
  BY <1>1, <1>3, <1>7, <1>8
<1>11. Published(main) \subseteq Published(u)
  <2>1. s \in Published(u)
    BY <1>1, <1>10 DEF Published
  <2>2. ASSUME NEW k \in DOMAIN main.nodes
        PROVE  main.nodes[k].slug \in Published(u)
    <3>1. CASE k = n
      BY <1>5, <1>10, <2>1, <3>1 DEF Published
    <3>2. CASE k # n
      BY <1>10, <3>2 DEF Published
    <3> QED  BY <3>1, <3>2
  <2> QED  BY <1>5, <1>10, <2>1, <2>2 DEF Published
<1>12. Kept(main, u)
  BY <1>11 DEF Kept
<1> QED  BY <1>1, <1>9, <1>10, <1>12 DEF Edit, Edits, Handwritten

LEMMA Edited ==
    ASSUME Typed(main), EditByHand \/ \E n \in Nodes, s \in Slugs : rename_slug(n, s)
    PROVE  \E u : Edits(u)
  BY MintNodeEdits, MintEdgeEdits, RetextEdits, RepolarizeEdits, DeleteEdits, UnrealizeEdits,
     DropLineEdits, RenameEdits DEF EditByHand

------------------------------------------------------------------------------
(* Plans of manifests with one disposition.                                  *)

\* Every entry of a draft is for one anchor.
Anchored(d) == \A entry \in d.remap : \E a : entry.match = {a}

LEMMA Drafted ==
    ASSUME NEW t, NEW m \in Manifests(t)
    PROVE  m.id = commits /\ \E d : Single(m, d) /\ Anchored(d)
<1>1. PICK d \in Ops, edit \in FieldEdits(t) :
          m = [id |-> commits, dispositions |-> <<draft_manifest(t, d, edit)>>]
  BY DEF Manifests
<1> DEFINE x == draft_manifest(t, d, edit)
<1>2. d \in Disposition /\ (d.op = "merge" => \E n \in Nodes : d.to = {n})
  BY MigrationAssumption
<1>3. \E remap : x = [d EXCEPT !.remap = remap]
  BY DEF draft_manifest
<1>4. /\ x.op = d.op /\ x.from = d.from /\ x.to = d.to
      /\ x.demote = d.demote /\ x.layer = d.layer
  <2> HIDE DEF x
  <2> QED  BY <1>2, <1>3 DEF Disposition
<1>5. Admissible(x)
  <2> HIDE DEF x
  <2> QED  BY <1>2, <1>4 DEF Disposition, Admissible
<1>6. Anchored(x)
  <2>1. \A a : EditedEntry(d, edit, a).match = {a}
    BY DEF EditedEntry, CasebookEntry
  <2>2. \A entry \in x.remap : \E a : entry = EditedEntry(d, edit, a)
    BY <1>2 DEF draft_manifest, Disposition
  <2> HIDE DEF x
  <2> QED  BY <2>1, <2>2 DEF Anchored
<1>7. m.id = commits /\ m.dispositions = <<x>>
  <2> HIDE DEF x
  <2> QED  BY <1>1 DEF x
<1> QED  BY <1>5, <1>6, <1>7 DEF Single

\* The tree of a plan on a store the validators accept.
LEMMA Planning ==
    ASSUME NEW t, Typed(t), Valid(t), NEW m, NEW d, Single(m, d), ~plan_migration(t, m).refused,
           NEW p, p = plan_migration(t, m)
    PROVE  /\ Typed(p.tree) /\ References(p.tree)
           /\ SlugsDiffer(t) => Redirects(p.tree)
           /\ Facts(t) \subseteq Facts(p.tree) \cup Tombstoned(p.tree)
           /\ Tombstoned(t) \subseteq Tombstoned(p.tree)
           /\ \A x \in p.tree.ledger \ t.ledger :
                  x.fact \in Facts(t) /\ x.successors \subseteq Facts(p.tree)
           /\ t.ledger \subseteq p.tree.ledger
           /\ \A s \in Published(t) \ Published(p.tree) :
                  LeadsTo(t, s) \notin DOMAIN p.tree.nodes /\ d.op # "merge"
<1> DEFINE u == Accounted(t, d, m.id)
<1>1. m.dispositions = <<d>> /\ Admissible(d)
  BY DEF Single
<1>2. Checks(t, d) /\ Admits(t, d, Governing(t, d)) /\ p.tree = u
  BY <1>1, PlanOne
<1>3. /\ u.nodes = NodesAfter(t, d) /\ u.edges = EdgesAfter(t, d, Governing(t, d))
      /\ u.rules = RulesAfter(t, d, Governing(t, d)) /\ u.redirects = RedirectsAfter(t, d)
  BY DEF Accounted
<1>4. References(t) /\ Redirects(t)
  BY DEF Valid
<1>5. Typed(u)
  BY <1>1, <1>2, <1>4, TypedAfter
<1>6. /\ Facts(t) \subseteq Facts(u) \cup Tombstoned(u)
      /\ Tombstoned(t) \subseteq Tombstoned(u) /\ t.ledger \subseteq u.ledger
      /\ \A x \in u.ledger \ t.ledger : x.fact \in Facts(t) /\ x.successors \subseteq Facts(u)
  BY <1>1, <1>2, FactsAccountedFor
<1> HIDE DEF u
<1>7. References(u)
  BY <1>1, <1>2, <1>3, <1>4, ReferencesStay
<1>8. SlugsDiffer(t) => Redirects(u)
  BY <1>1, <1>2, <1>3, <1>4, RedirectsStay
<1>9. \A s \in Published(t) \ Published(u) : LeadsTo(t, s) \notin DOMAIN u.nodes /\ d.op # "merge"
  BY <1>1, <1>2, <1>3, SlugsLost
<1> QED  BY <1>2, <1>5, <1>6, <1>7, <1>8, <1>9

\* What it writes is gated.
LEMMA PlanGated ==
    ASSUME NEW t, Typed(t), Valid(t), NEW m, NEW d, Single(m, d), ~plan_migration(t, m).refused,
           NEW p, p = plan_migration(t, m), NEW r \in Records(p.tree) \ DOMAIN p.tree.nodes
    PROVE  \/ r \in p.gated
           \/ /\ r \in Records(t)
              /\ r \in Rules => p.tree.rules[r] = t.rules[r]
              /\ r \in Edges => p.tree.edges[r] = t.edges[r]
<1> DEFINE g == Governing(t, d)
           u == p.tree
<1>1. m.dispositions = <<d>> /\ Admissible(d)
  BY DEF Single
<1>2. /\ Admits(t, d, g) /\ u = Accounted(t, d, m.id)
      /\ p.gated = Gated(t, d, g) \cap Records(Applied(t, d, g))
  BY <1>1, PlanOne
<1>3. /\ u.edges = EdgesAfter(t, d, g) /\ u.rules = RulesAfter(t, d, g)
      /\ Records(u) = Records(Applied(t, d, g))
  BY <1>2 DEF Accounted, Applied, Records
<1>4. References(t)
  BY DEF Valid
<1>5. Typed(u)
  BY Planning
<1>6. /\ \A k \in DOMAIN u.edges :
             k \in Gated(t, d, g) \/ (k \in DOMAIN t.edges /\ u.edges[k] = t.edges[k])
      /\ \A k \in DOMAIN u.rules :
             k \in Gated(t, d, g) \/ (k \in DOMAIN t.rules /\ u.rules[k] = t.rules[k])
  BY <1>1, <1>2, <1>3, <1>4, WrittenIsGated
<1>7. r \in DOMAIN u.edges \cup DOMAIN u.rules
  BY DEF Records
<1>8. (r \in Edges => r \notin Rules) /\ DOMAIN u.edges \subseteq Edges /\ DOMAIN u.rules \subseteq Rules
  BY <1>5, StoreAssumption DEF Typed, Directory
<1> HIDE DEF g, u
<1>9. r \in Records(u)
  BY DEF u
<1>10. CASE r \in DOMAIN u.edges
  BY <1>2, <1>3, <1>6, <1>8, <1>9, <1>10 DEF Records, u
<1>11. CASE r \in DOMAIN u.rules
  BY <1>2, <1>3, <1>6, <1>8, <1>9, <1>11 DEF Records, u
<1> QED  BY <1>7, <1>10, <1>11

\* Undoing a migration that restructured nothing settled passes the ledger check and
\* the guard.
LEMMA Undoing ==
    ASSUME NEW t, Typed(t), Valid(t), NEW m, NEW d, Single(m, d), NEW u, Replays(t, u, m),
           Valid(u), ~UndoRestructures(t, u)
    PROVE  Green(u, t)
<1> DEFINE p == plan_migration(t, m)
<1>1. ~p.refused /\ p.tree = u
  BY DEF Replays
<1>2. /\ Typed(u) /\ t.ledger \subseteq u.ledger
      /\ \A x \in u.ledger \ t.ledger : x.fact \in Facts(t)
  <2> HIDE DEF p
  <2> QED  BY <1>1, Planning DEF p
<1>3. AppendOnly(u, t)
  <2> SUFFICES ASSUME NEW x \in u.ledger
               PROVE  IF x.fact \in Tombstoned(t) THEN x \in t.ledger ELSE x.fact \in Facts(t)
    BY DEF AppendOnly
  <2>1. CASE x \in t.ledger
    BY <2>1 DEF Tombstoned
  <2>2. CASE x \notin t.ledger /\ x.fact \in Tombstoned(t)
    <3>1. PICK y \in t.ledger : y.fact = x.fact
      BY <2>2 DEF Tombstoned
    <3>2. x = y
      BY <1>2, <3>1 DEF Valid, Ledger
    <3> QED  BY <2>2, <3>2
  <2>3. CASE x \notin t.ledger /\ x.fact \notin Tombstoned(t)
    BY <1>2, <2>3
  <2> QED  BY <2>1, <2>2, <2>3
<1>4. /\ Checks(t, d) /\ Admissible(d) /\ u.nodes = NodesAfter(t, d)
      /\ u.rules = RulesAfter(t, d, Governing(t, d))
  <2>1. m.dispositions = <<d>> /\ Admissible(d)
    BY DEF Single
  <2>2. Checks(t, d) /\ p.tree = Accounted(t, d, m.id)
    BY <1>1, <2>1, PlanOne
  <2> HIDE DEF p
  <2> QED  BY <1>1, <2>1, <2>2 DEF Accounted
<1>5. ASSUME NEW r \in settled \cap Records(u)
      PROVE  /\ r \in Records(t) /\ ~Restructured(u, t, r)
             /\ Unaccounted(u, t, r) = {}
  <2>1. r \in Records(t) /\ ~Restructured(u, t, r)
    BY DEF UndoRestructures
  <2>2. ASSUME NEW f \in FactsOf(u, r)
        PROVE  f \in Facts(t)
    <3>1. f.rec = r /\ f \in Facts(u)
      BY DEF FactsOf
    <3>2. \A x, y, z : Fact(x, y, z).rec = x
      BY DEF Fact
    <3>3. CASE \E n \in DOMAIN u.nodes : f = Fact(n, "summary", u.nodes[n].text)
      <4>1. PICK n \in DOMAIN u.nodes : f = Fact(n, "summary", u.nodes[n].text)
        BY <3>3
      <4>2. n \in DOMAIN t.nodes /\ u.nodes[n] = NodeAfter(t, d, n)
        BY <1>4, Keeping
      <4>3. u.nodes[n].text = t.nodes[n].text
        BY <1>4, <4>2, NodeRewritten
      <4> QED  BY <4>1, <4>2, <4>3, LiveFacts
    <3>4. ASSUME r \in DOMAIN u.edges
          PROVE  r \in DOMAIN t.edges /\ t.edges[r] = u.edges[r]
      <4>1. r \notin DOMAIN u.nodes /\ r \notin Nodes /\ r \notin Rules
        BY <1>2, <3>4, StoreAssumption DEF Typed, Directory
      <4>2. r \in DOMAIN t.edges
        BY <2>1, <4>1 DEF Records, Typed, Directory
      <4>3. u.edges[r] = t.edges[r]
        BY <2>1, <3>4, <4>1 DEF Restructured
      <4> QED  BY <4>2, <4>3
    <3>5. CASE \E e \in DOMAIN u.edges :
                    /\ ~IsQuality(e)
                    /\ f = Fact(e, "exists", None) \/ f = Fact(e, "polarity", u.edges[e])
      <4>1. PICK e \in DOMAIN u.edges :
                    /\ ~IsQuality(e)
                    /\ f = Fact(e, "exists", None) \/ f = Fact(e, "polarity", u.edges[e])
        BY <3>5
      <4>2. e = r
        BY <3>1, <3>2, <4>1
      <4>3. e \in DOMAIN t.edges /\ t.edges[e] = u.edges[e]
        BY <3>4, <4>2
      <4> QED  BY <4>1, <4>3, LiveFacts
    <3>6. CASE \E e \in DOMAIN u.edges : IsQuality(e) /\ f = Fact(e, "assessments", None)
      <4>1. PICK e \in DOMAIN u.edges : IsQuality(e) /\ f = Fact(e, "assessments", None)
        BY <3>6
      <4>2. e \in DOMAIN t.edges
        BY <3>1, <3>2, <3>4, <4>1
      <4> QED  BY <4>1, <4>2, LiveFacts
    <3>7. CASE \E x \in DOMAIN u.rules : f = Fact(x, "exists", None)
      <4>1. PICK x \in DOMAIN u.rules : f = Fact(x, "exists", None)
        BY <3>7
      <4>2. x \in DOMAIN t.rules
        BY <1>4, RulesAre
      <4> QED  BY <4>1, <4>2, LiveFacts
    <3> QED  BY <3>1, <3>3, <3>5, <3>6, <3>7, FactKinds
  <2> QED  BY <2>1, <2>2 DEF Unaccounted
<1>6. Guard(u, t, settled)
  BY <1>5 DEF Guard
<1> QED  BY <1>3, <1>6 DEF Green

------------------------------------------------------------------------------
(* A migration that main has overtaken.                                      *)

\* What git makes of a directory, and of a tree.
LEMMA MergedDirectory ==
    ASSUME NEW base, NEW mine, NEW theirs
    PROVE  LET dir == MergeDirectory(base, mine, theirs)
           IN  /\ dir = [k \in DOMAIN dir |-> dir[k]]
               /\ \A k \in DOMAIN dir : \/ k \in DOMAIN mine /\ dir[k] = mine[k]
                                        \/ k \in DOMAIN theirs /\ dir[k] = theirs[k]
<1> DEFINE picked(k) == Pick(At(base, k), At(mine, k), At(theirs, k))
           ids == {k \in DOMAIN mine \cup DOMAIN theirs : picked(k) # None}
           dir == MergeDirectory(base, mine, theirs)
<1>1. dir = [k \in ids |-> picked(k)]
  BY DEF MergeDirectory
<1>2. \A k \in ids : \/ k \in DOMAIN mine /\ picked(k) = mine[k]
                     \/ k \in DOMAIN theirs /\ picked(k) = theirs[k]
  BY DEF Pick, At
<1> HIDE DEF ids, picked, dir
<1>3. dir = [k \in DOMAIN dir |-> dir[k]] /\ DOMAIN dir = ids
  BY <1>1
<1> QED  BY <1>1, <1>2, <1>3 DEF dir

LEMMA RebasedTyped ==
    ASSUME NEW base, NEW mine, NEW theirs, Typed(mine), Typed(theirs)
    PROVE  Typed(Rebased(base, mine, theirs))
<1> DEFINE u == Rebased(base, mine, theirs)
<1>1. /\ u.nodes = MergeDirectory(base.nodes, mine.nodes, theirs.nodes)
      /\ u.edges = MergeDirectory(base.edges, mine.edges, theirs.edges)
      /\ u.rules = MergeDirectory(base.rules, mine.rules, theirs.rules)
      /\ u.redirects = mine.redirects \/ u.redirects = theirs.redirects
  BY DEF Rebased, Pick
<1>2. u = [nodes |-> u.nodes, edges |-> u.edges, rules |-> u.rules,
           ledger |-> u.ledger, redirects |-> u.redirects]
  BY DEF Rebased
<1> HIDE DEF u
<1>3. Directory(u.nodes, Nodes) /\ \A n \in DOMAIN u.nodes : u.nodes[n] \in Node
  BY <1>1, MergedDirectory DEF Typed, Directory
<1>4. /\ Directory(u.edges, Edges)
      /\ \A e \in DOMAIN u.edges :
             u.edges[e] \in IF IsQuality(e) THEN {"assessed"} ELSE Polarities
  <2>1. u.edges = [e \in DOMAIN u.edges |-> u.edges[e]]
    BY <1>1, MergedDirectory
  <2>2. ASSUME NEW e \in DOMAIN u.edges
        PROVE  e \in Edges /\ u.edges[e] \in IF IsQuality(e) THEN {"assessed"} ELSE Polarities
    <3>1. \/ e \in DOMAIN mine.edges /\ u.edges[e] = mine.edges[e]
          \/ e \in DOMAIN theirs.edges /\ u.edges[e] = theirs.edges[e]
      BY <1>1, MergedDirectory
    <3> QED  BY <3>1 DEF Typed, Directory
  <2> QED  BY <2>1, <2>2 DEF Directory
<1>5. Directory(u.rules, Rules) /\ \A r \in DOMAIN u.rules : u.rules[r] \subseteq Nodes
  <2>1. u.rules = [r \in DOMAIN u.rules |-> u.rules[r]]
    BY <1>1, MergedDirectory
  <2>2. ASSUME NEW r \in DOMAIN u.rules
        PROVE  r \in Rules /\ u.rules[r] \subseteq Nodes
    <3>1. \/ r \in DOMAIN mine.rules /\ u.rules[r] = mine.rules[r]
          \/ r \in DOMAIN theirs.rules /\ u.rules[r] = theirs.rules[r]
      BY <1>1, MergedDirectory
    <3> QED  BY <3>1 DEF Typed, Directory
  <2> QED  BY <2>1, <2>2 DEF Directory
<1>6. Directory(u.redirects, Slugs) /\ \A s \in DOMAIN u.redirects : u.redirects[s] \in Nodes
  BY <1>1 DEF Typed
<1>7. Typed(u)
  BY <1>2, <1>3, <1>4, <1>5, <1>6 DEF Typed
<1> QED  BY <1>7 DEF u

\* A directory in which every file has a value is what At sees of it.
Proper(f) == f = [k \in DOMAIN f |-> f[k]] /\ \A k \in DOMAIN f : f[k] # None

LEMMA WhatAtSees ==
    ASSUME NEW f, Proper(f), NEW k
    PROVE  /\ k \in DOMAIN f <=> At(f, k) # None
           /\ k \in DOMAIN f => At(f, k) = f[k]
           /\ k \notin DOMAIN f => At(f, k) = None
  BY DEF Proper, At

LEMMA ProperFiles ==
    ASSUME NEW t, Typed(t)
    PROVE  Proper(t.nodes) /\ Proper(t.edges) /\ Proper(t.rules)
<1>1. Proper(t.nodes)
  BY StoreAssumption DEF Typed, Directory, Proper
<1>2. Proper(t.edges)
  BY StoreAssumption DEF Typed, Directory, Proper
<1>3. Proper(t.rules)
  BY StoreAssumption DEF Typed, Directory, Proper
<1> QED  BY <1>1, <1>2, <1>3

LEMMA SameFiles ==
    ASSUME NEW f, NEW g, Proper(f), Proper(g), \A k : At(f, k) = At(g, k)
    PROVE  f = g
<1>1. \A k : k \in DOMAIN f <=> k \in DOMAIN g
  BY WhatAtSees
<1>2. \A k \in DOMAIN f : f[k] = g[k]
  BY <1>1, WhatAtSees
<1>3. DOMAIN f = DOMAIN g
  BY <1>1
<1> QED  BY <1>2, <1>3 DEF Proper

\* git's merge of a directory, file by file: the side that changed it, and at most one did
\* unless both deleted it.
LEMMA MergedFiles ==
    ASSUME NEW base, NEW mine, NEW theirs, Proper(base), Proper(mine), Proper(theirs),
           ~ClashIn(base, mine, theirs)
    PROVE  /\ Proper(MergeDirectory(base, mine, theirs))
           /\ \A k : /\ At(MergeDirectory(base, mine, theirs), k)
                            = Pick(At(base, k), At(mine, k), At(theirs, k))
                     /\ \/ At(mine, k) = At(base, k) \/ At(theirs, k) = At(base, k)
                        \/ At(mine, k) = None /\ At(theirs, k) = None
<1> DEFINE picked(k) == Pick(At(base, k), At(mine, k), At(theirs, k))
           ids == {k \in DOMAIN mine \cup DOMAIN theirs : picked(k) # None}
           dir == MergeDirectory(base, mine, theirs)
<1>1. dir = [k \in ids |-> picked(k)]
  BY DEF MergeDirectory
<1>2. \A k \in ids : picked(k) # None
  OBVIOUS
<1>3. \A k : k \notin DOMAIN mine \cup DOMAIN theirs => picked(k) = None
  BY WhatAtSees DEF Pick
<1>4. \A k : k \notin ids => picked(k) = None
  BY <1>3
<1>5. ASSUME NEW k
      PROVE  \/ At(mine, k) = At(base, k) \/ At(theirs, k) = At(base, k)
             \/ At(mine, k) = None /\ At(theirs, k) = None
  <2>1. CASE k \in DOMAIN base \cup DOMAIN mine \cup DOMAIN theirs
    BY <2>1 DEF ClashIn, Clash
  <2>2. CASE k \notin DOMAIN base \cup DOMAIN mine \cup DOMAIN theirs
    BY <2>2, WhatAtSees
  <2> QED  BY <2>1, <2>2
<1> HIDE DEF picked, ids, dir
<1>6. Proper(dir)
  BY <1>1, <1>2 DEF Proper
<1>7. \A k : At(dir, k) = picked(k)
  BY <1>1, <1>4 DEF At
<1> QED  BY <1>5, <1>6, <1>7 DEF picked, dir

\* The facts of one record are read off its file.
LEMMA FactsOfRecord ==
    ASSUME NEW t, NEW r, NEW f
    PROVE  f \in FactsOf(t, r) <=>
             \/ r \in DOMAIN t.nodes /\ f = Fact(r, "summary", t.nodes[r].text)
             \/ /\ r \in DOMAIN t.edges /\ ~IsQuality(r)
                /\ f = Fact(r, "exists", None) \/ f = Fact(r, "polarity", t.edges[r])
             \/ r \in DOMAIN t.edges /\ IsQuality(r) /\ f = Fact(r, "assessments", None)
             \/ r \in DOMAIN t.rules /\ f = Fact(r, "exists", None)
<1>1. \A x, y, z : Fact(x, y, z).rec = x
  BY DEF Fact
<1> QED  BY <1>1, FactKinds DEF FactsOf

\* A record that is the same in both trees says the same.
Alike(t, u, r) ==
    At(t.nodes, r) = At(u.nodes, r) /\ At(t.edges, r) = At(u.edges, r)
        /\ At(t.rules, r) = At(u.rules, r)

LEMMA AlikeFiles ==
    ASSUME NEW t, Typed(t), NEW u, Typed(u), NEW r, Alike(t, u, r)
    PROVE  /\ r \in DOMAIN t.nodes <=> r \in DOMAIN u.nodes
           /\ r \in DOMAIN t.nodes => t.nodes[r] = u.nodes[r]
           /\ r \in DOMAIN t.edges <=> r \in DOMAIN u.edges
           /\ r \in DOMAIN t.edges => t.edges[r] = u.edges[r]
           /\ r \in DOMAIN t.rules <=> r \in DOMAIN u.rules
           /\ r \in DOMAIN t.rules => t.rules[r] = u.rules[r]
           /\ FactsOf(t, r) = FactsOf(u, r)
<1>1. /\ Proper(t.nodes) /\ Proper(t.edges) /\ Proper(t.rules)
      /\ Proper(u.nodes) /\ Proper(u.edges) /\ Proper(u.rules)
  BY ProperFiles
<1>2. /\ r \in DOMAIN t.nodes <=> r \in DOMAIN u.nodes
      /\ r \in DOMAIN t.nodes => t.nodes[r] = u.nodes[r]
      /\ r \in DOMAIN t.edges <=> r \in DOMAIN u.edges
      /\ r \in DOMAIN t.edges => t.edges[r] = u.edges[r]
      /\ r \in DOMAIN t.rules <=> r \in DOMAIN u.rules
      /\ r \in DOMAIN t.rules => t.rules[r] = u.rules[r]
  BY <1>1, WhatAtSees DEF Alike
<1>3. \A f : f \in FactsOf(t, r) <=> f \in FactsOf(u, r)
  BY <1>2, FactsOfRecord
<1> QED  BY <1>2, <1>3

LEMMA UnchangedIsAlike ==
    ASSUME NEW t, Typed(t), NEW u, Typed(u), NEW r, r \notin Changed(t, u)
    PROVE  Alike(t, u, r)
<1>1. /\ Proper(t.nodes) /\ Proper(t.edges) /\ Proper(t.rules)
      /\ Proper(u.nodes) /\ Proper(u.edges) /\ Proper(u.rules)
  BY ProperFiles
<1>2. CASE r \in Records(t) \cup Records(u)
  BY <1>2 DEF Changed, Alike
<1>3. CASE r \notin Records(t) \cup Records(u)
  BY <1>1, <1>3, WhatAtSees DEF Records, Alike
<1> QED  BY <1>2, <1>3

\* A disposition planned on base is about to land on theirs: its tree has been rebased, the
\* validators accept it, and what it reads is as it was.
Overtaken(base, theirs, d, id) ==
    LET mine == Accounted(base, d, id)
    IN  /\ Typed(base) /\ Valid(base) /\ Typed(theirs) /\ Valid(theirs)
        /\ Admissible(d) /\ Anchored(d)
        /\ Checks(base, d) /\ Governed(base, d) /\ Admits(base, d, Governing(base, d))
        /\ Succeeded(Outcome(base, d))
        /\ ~Conflict(base, mine, theirs) /\ Valid(Rebased(base, mine, theirs))
        /\ Reads(base, d) \cap Changed(base, theirs) = {}

LEMMA RebasedFiles ==
    ASSUME NEW base, NEW theirs, NEW d, NEW id, Overtaken(base, theirs, d, id),
           NEW u, u = Rebased(base, Accounted(base, d, id), theirs)
    PROVE  LET g == Governing(base, d)
               nodes == NodesAfter(base, d)
               edges == EdgesAfter(base, d, g)
               rules == RulesAfter(base, d, g)
           IN  /\ Typed(Accounted(base, d, id)) /\ Typed(u)
               /\ Proper(nodes) /\ Proper(edges) /\ Proper(rules)
               /\ \A k : /\ At(u.nodes, k)
                               = Pick(At(base.nodes, k), At(nodes, k), At(theirs.nodes, k))
                         /\ \/ At(nodes, k) = At(base.nodes, k)
                            \/ At(theirs.nodes, k) = At(base.nodes, k)
                            \/ At(nodes, k) = None /\ At(theirs.nodes, k) = None
               /\ \A k : /\ At(u.edges, k)
                               = Pick(At(base.edges, k), At(edges, k), At(theirs.edges, k))
                         /\ \/ At(edges, k) = At(base.edges, k)
                            \/ At(theirs.edges, k) = At(base.edges, k)
                            \/ At(edges, k) = None /\ At(theirs.edges, k) = None
               /\ \A k : /\ At(u.rules, k)
                               = Pick(At(base.rules, k), At(rules, k), At(theirs.rules, k))
                         /\ \/ At(rules, k) = At(base.rules, k)
                            \/ At(theirs.rules, k) = At(base.rules, k)
                            \/ At(rules, k) = None /\ At(theirs.rules, k) = None
<1> DEFINE mine == Accounted(base, d, id)
<1>1. /\ Typed(base) /\ Valid(base) /\ Typed(theirs) /\ Admissible(d)
      /\ Checks(base, d) /\ Admits(base, d, Governing(base, d))
      /\ ~Conflict(base, mine, theirs)
  BY DEF Overtaken
<1>2. /\ mine.nodes = NodesAfter(base, d) /\ mine.edges = EdgesAfter(base, d, Governing(base, d))
      /\ mine.rules = RulesAfter(base, d, Governing(base, d))
  BY DEF Accounted
<1>3. Typed(mine)
  BY <1>1, TypedAfter DEF Valid
<1> HIDE DEF mine
<1>4. Typed(u)
  BY <1>1, <1>3, RebasedTyped DEF mine
<1>5. /\ u.nodes = MergeDirectory(base.nodes, mine.nodes, theirs.nodes)
      /\ u.edges = MergeDirectory(base.edges, mine.edges, theirs.edges)
      /\ u.rules = MergeDirectory(base.rules, mine.rules, theirs.rules)
  BY DEF Rebased, mine
<1>6. /\ ~ClashIn(base.nodes, mine.nodes, theirs.nodes)
      /\ ~ClashIn(base.edges, mine.edges, theirs.edges)
      /\ ~ClashIn(base.rules, mine.rules, theirs.rules)
  BY <1>1 DEF Conflict
<1>7. /\ Proper(base.nodes) /\ Proper(base.edges) /\ Proper(base.rules)
      /\ Proper(mine.nodes) /\ Proper(mine.edges) /\ Proper(mine.rules)
      /\ Proper(theirs.nodes) /\ Proper(theirs.edges) /\ Proper(theirs.rules)
  BY <1>1, <1>3, ProperFiles
<1>8. \A k : /\ At(u.nodes, k) = Pick(At(base.nodes, k), At(mine.nodes, k), At(theirs.nodes, k))
             /\ \/ At(mine.nodes, k) = At(base.nodes, k)
                \/ At(theirs.nodes, k) = At(base.nodes, k)
                \/ At(mine.nodes, k) = None /\ At(theirs.nodes, k) = None
  BY <1>5, <1>6, <1>7, MergedFiles
<1>9. \A k : /\ At(u.edges, k) = Pick(At(base.edges, k), At(mine.edges, k), At(theirs.edges, k))
             /\ \/ At(mine.edges, k) = At(base.edges, k)
                \/ At(theirs.edges, k) = At(base.edges, k)
                \/ At(mine.edges, k) = None /\ At(theirs.edges, k) = None
  BY <1>5, <1>6, <1>7, MergedFiles
<1>10. \A k : /\ At(u.rules, k) = Pick(At(base.rules, k), At(mine.rules, k), At(theirs.rules, k))
              /\ \/ At(mine.rules, k) = At(base.rules, k)
                 \/ At(theirs.rules, k) = At(base.rules, k)
                 \/ At(mine.rules, k) = None /\ At(theirs.rules, k) = None
  BY <1>5, <1>6, <1>7, MergedFiles
<1> QED  BY <1>2, <1>3, <1>4, <1>7, <1>8, <1>9, <1>10 DEF mine

LEMMA ReadsAreAlike ==
    ASSUME NEW base, NEW theirs, NEW d, NEW id, Overtaken(base, theirs, d, id),
           NEW r \in Reads(base, d)
    PROVE  Alike(base, theirs, r)
  BY UnchangedIsAlike DEF Overtaken

LEMMA WhatIsRead ==
    ASSUME NEW t, NEW d
    PROVE  LET g == Governing(t, d)
           IN  /\ d.from \subseteq Reads(t, d) /\ d.to \subseteq Reads(t, d)
               /\ Affected(t, d) \subseteq Reads(t, d)
               /\ \A n \in DOMAIN g \cap DOMAIN t.nodes :
                      Action(g, n) = "remap" => Target(g, n) \in Reads(t, d)
               /\ \A e \in RemappedEdges(t, g) : Moved(d, g, e) \in Reads(t, d)
  BY Keeping DEF Reads

\* An old node is gone from the rebased tree, or no feature any more.
LEMMA OldNodesGo ==
    ASSUME NEW base, NEW theirs, NEW d, NEW id, Overtaken(base, theirs, d, id),
           NEW u, u = Rebased(base, Accounted(base, d, id), theirs),
           NEW n \in OldNodes(d)
    PROVE  n \notin Features(u) /\ (~Keeps(d) => n \notin DOMAIN u.nodes)
<1> DEFINE nodes == NodesAfter(base, d)
<1>1. Typed(base) /\ Typed(theirs) /\ Admissible(d) /\ Checks(base, d)
  BY DEF Overtaken
<1>2. n \in d.from /\ n \in DOMAIN base.nodes
  BY <1>1 DEF OldNodes, Checks
<1>3. At(theirs.nodes, n) = At(base.nodes, n)
  BY <1>2, WhatIsRead, ReadsAreAlike DEF Alike
<1>4. /\ Typed(u) /\ Proper(nodes) /\ Proper(base.nodes) /\ Proper(u.nodes)
      /\ At(u.nodes, n) = Pick(At(base.nodes, n), At(nodes, n), At(theirs.nodes, n))
  BY <1>1, RebasedFiles, ProperFiles
<1>5. At(base.nodes, n) = base.nodes[n] /\ base.nodes[n] # None
  BY <1>2, <1>4, WhatAtSees
<1>6. CASE ~Keeps(d)
  <2>1. At(nodes, n) = None
    BY <1>4, <1>6, Keeping, WhatAtSees
  <2>2. At(u.nodes, n) = None
    BY <1>4, <1>5, <2>1 DEF Pick
  <2> QED  BY <1>4, <2>2, WhatAtSees DEF Features
<1>7. CASE Keeps(d)
  <2>1. n \in DOMAIN nodes /\ nodes[n] = NodeAfter(base, d, n)
    BY <1>2, <1>7, Keeping
  <2>2. At(nodes, n) = NodeAfter(base, d, n) /\ NodeAfter(base, d, n).kind = "concept"
    BY <1>1, <1>2, <1>4, <1>7, <2>1, WhatAtSees, NodeRewritten
  <2>3. base.nodes[n].kind = "feature"
    BY <1>1, <1>2, <1>7 DEF Checks, Keeps, Features
  <2>4. At(nodes, n) # At(base.nodes, n)
    BY <1>5, <2>2, <2>3
  <2>5. At(u.nodes, n) = NodeAfter(base, d, n)
    BY <1>4, <2>2, <2>4 DEF Pick
  <2> QED  BY <1>4, <1>7, <2>2, <2>5, WhatAtSees DEF Features
<1> QED  BY <1>6, <1>7

\* The nodes, edges and rules that main has changed are main's in the rebased tree.
LEMMA WhatMainChanged ==
    ASSUME NEW base, NEW theirs, NEW d, NEW id, Overtaken(base, theirs, d, id),
           NEW u, u = Rebased(base, Accounted(base, d, id), theirs), NEW k
    PROVE  /\ k \in DOMAIN theirs.nodes /\ At(theirs.nodes, k) # At(base.nodes, k) =>
                  /\ k \in DOMAIN u.nodes /\ u.nodes[k] = theirs.nodes[k]
                  /\ At(NodesAfter(base, d), k) = At(base.nodes, k)
           /\ k \in DOMAIN theirs.edges /\ At(theirs.edges, k) # At(base.edges, k) =>
                  k \in DOMAIN u.edges
           /\ k \in DOMAIN theirs.rules /\ At(theirs.rules, k) # At(base.rules, k) =>
                  k \in DOMAIN u.rules /\ u.rules[k] = theirs.rules[k]
<1>1. Typed(theirs)
  BY DEF Overtaken
<1>2. Typed(u)
  BY RebasedFiles
<1>3. /\ Proper(u.nodes) /\ Proper(u.edges) /\ Proper(u.rules)
      /\ Proper(theirs.nodes) /\ Proper(theirs.edges) /\ Proper(theirs.rules)
  BY <1>1, <1>2, ProperFiles
<1>4. ASSUME k \in DOMAIN theirs.nodes, At(theirs.nodes, k) # At(base.nodes, k)
      PROVE  /\ k \in DOMAIN u.nodes /\ u.nodes[k] = theirs.nodes[k]
             /\ At(NodesAfter(base, d), k) = At(base.nodes, k)
  <2>1. At(theirs.nodes, k) = theirs.nodes[k] /\ At(theirs.nodes, k) # None
    BY <1>3, <1>4, WhatAtSees
  <2>2. At(NodesAfter(base, d), k) = At(base.nodes, k) /\ At(u.nodes, k) = At(theirs.nodes, k)
    BY <1>4, <2>1, RebasedFiles DEF Pick
  <2> QED  BY <1>3, <2>1, <2>2, WhatAtSees
<1>5. ASSUME k \in DOMAIN theirs.edges, At(theirs.edges, k) # At(base.edges, k)
      PROVE  k \in DOMAIN u.edges
  <2>1. At(theirs.edges, k) # None
    BY <1>3, <1>5, WhatAtSees
  <2>2. At(u.edges, k) = At(theirs.edges, k)
    BY <1>5, <2>1, RebasedFiles DEF Pick
  <2> QED  BY <1>3, <2>1, <2>2, WhatAtSees
<1>6. ASSUME k \in DOMAIN theirs.rules, At(theirs.rules, k) # At(base.rules, k)
      PROVE  k \in DOMAIN u.rules /\ u.rules[k] = theirs.rules[k]
  <2>1. At(theirs.rules, k) = theirs.rules[k] /\ At(theirs.rules, k) # None
    BY <1>3, <1>6, WhatAtSees
  <2>2. At(u.rules, k) = At(theirs.rules, k)
    BY <1>6, <2>1, RebasedFiles DEF Pick
  <2> QED  BY <1>3, <2>1, <2>2, WhatAtSees
<1> QED  BY <1>4, <1>5, <1>6

\* What points at the old nodes is the same on main: anything new would dangle.
LEMMA SameAffected ==
    ASSUME NEW base, NEW theirs, NEW d, NEW id, Overtaken(base, theirs, d, id)
    PROVE  /\ Affected(theirs, d) = Affected(base, d)
           /\ \A r \in Affected(base, d) : Alike(base, theirs, r)
<1> DEFINE u == Rebased(base, Accounted(base, d, id), theirs)
<1>1. Typed(base) /\ Typed(theirs) /\ Checks(base, d)
  BY DEF Overtaken
<1>2. References(u)
  BY DEF Overtaken, Valid
<1>3. \A r \in Affected(base, d) : Alike(base, theirs, r)
  BY WhatIsRead, ReadsAreAlike
<1>4. ASSUME NEW r \in Records(base), Alike(base, theirs, r)
      PROVE  r \in Affected(base, d) <=> r \in Affected(theirs, d)
  <2>1. r \in Records(theirs) /\ Mentions(base, r) = Mentions(theirs, r)
    BY <1>1, <1>4, AlikeFiles DEF Records, Mentions
  <2> QED  BY <2>1 DEF Affected
<1>5. Affected(base, d) \subseteq Records(base) /\ Affected(theirs, d) \subseteq Records(theirs)
  BY DEF Affected
<1>6. ASSUME NEW r \in Affected(theirs, d), ~Alike(base, theirs, r)
      PROVE  FALSE
  <2>1. PICK n \in OldNodes(d) : n \in Mentions(theirs, r)
    BY DEF Affected
  <2>2. n \notin Features(u)
    BY OldNodesGo
  <2>3. Alike(base, theirs, n)
    <3>1. n \in d.from
      BY DEF OldNodes
    <3> QED  BY <3>1, WhatIsRead, ReadsAreAlike
  <2>4. \/ At(theirs.nodes, r) # At(base.nodes, r) \/ At(theirs.edges, r) # At(base.edges, r)
        \/ At(theirs.rules, r) # At(base.rules, r)
    BY <1>6 DEF Alike
  <2>5. /\ Proper(base.nodes) /\ Proper(base.edges) /\ Proper(base.rules)
        /\ Proper(theirs.nodes) /\ Proper(theirs.edges) /\ Proper(theirs.rules)
    BY <1>1, ProperFiles
  <2>6. r \in Records(theirs)
    BY <1>5
  <2>7. CASE r \in DOMAIN theirs.nodes
    <3>1. Mentions(theirs, r) = {r}
      BY <1>1, <2>7, IdKinds DEF Mentions
    <3> QED  BY <1>6, <2>1, <2>3, <3>1
  <2>8. CASE r \in DOMAIN theirs.edges
    <3>1. Mentions(theirs, r) = IF IsQuality(r) THEN {r[1]} ELSE {r[1], r[2]}
      BY <1>1, <2>8, WhatIsMentioned
    <3>2. r \in Edges
      BY <1>1, <2>8 DEF Typed, Directory
    <3>3. r \notin DOMAIN base.nodes /\ r \notin DOMAIN theirs.nodes
           /\ r \notin DOMAIN base.rules /\ r \notin DOMAIN theirs.rules
      BY <1>1, <3>2, StoreAssumption DEF Typed, Directory
    <3>4. At(theirs.edges, r) # At(base.edges, r)
      BY <2>4, <2>5, <3>3, WhatAtSees
    <3>5. r \in DOMAIN u.edges
      BY <2>8, <3>4, WhatMainChanged
    <3>6. r[1] \in Features(u) /\ (IsQuality(r) \/ r[2] \in Features(u))
      <4> HIDE DEF u
      <4> QED  BY <1>2, <3>5 DEF References
    <3> QED  BY <2>1, <2>2, <3>1, <3>6
  <2>9. CASE r \in DOMAIN theirs.rules
    <3>1. Mentions(theirs, r) = theirs.rules[r]
      BY <1>1, <2>9, WhatIsMentioned
    <3>2. r \in Rules
      BY <1>1, <2>9 DEF Typed, Directory
    <3>3. r \notin DOMAIN base.nodes /\ r \notin DOMAIN theirs.nodes
           /\ r \notin DOMAIN base.edges /\ r \notin DOMAIN theirs.edges
      BY <1>1, <3>2, StoreAssumption DEF Typed, Directory
    <3>4. At(theirs.rules, r) # At(base.rules, r)
      BY <2>4, <2>5, <3>3, WhatAtSees
    <3>5. r \in DOMAIN u.rules /\ u.rules[r] = theirs.rules[r]
      BY <2>9, <3>4, WhatMainChanged
    <3>6. theirs.rules[r] \subseteq Features(u)
      <4> HIDE DEF u
      <4> QED  BY <1>2, <3>5 DEF References
    <3> QED  BY <2>1, <2>2, <3>1, <3>6
  <2> QED  BY <2>6, <2>7, <2>8, <2>9 DEF Records
<1>7. \A r \in Affected(theirs, d) : r \in Records(base)
  <2> SUFFICES ASSUME NEW r \in Affected(theirs, d)
               PROVE  r \in Records(base)
    OBVIOUS
  <2>1. Alike(base, theirs, r) /\ r \in Records(theirs)
    BY <1>5, <1>6
  <2> QED  BY <1>1, <2>1, AlikeFiles DEF Records
<1>8. \A r : r \in Affected(theirs, d) <=> r \in Affected(base, d)
  BY <1>3, <1>4, <1>5, <1>6, <1>7
<1> QED  BY <1>3, <1>8

\* So it is governed in the same way.
LEMMA SameGoverning ==
    ASSUME NEW base, NEW theirs, NEW d, NEW id, Overtaken(base, theirs, d, id)
    PROVE  Governing(theirs, d) = Governing(base, d) /\ Governed(theirs, d) /\ Checks(theirs, d)
<1>1. Typed(base) /\ Typed(theirs) /\ Checks(base, d) /\ Governed(base, d) /\ Anchored(d)
  BY DEF Overtaken
<1>2. /\ Affected(theirs, d) = Affected(base, d)
      /\ \A r \in Affected(base, d) : Alike(base, theirs, r)
  BY SameAffected
<1>3. \A r \in Affected(base, d) : Explicit(theirs, d, r) = Explicit(base, d, r)
  <2>1. \A r \in Affected(base, d) : FactsOf(theirs, r) = FactsOf(base, r)
    BY <1>1, <1>2, AlikeFiles
  <2> QED  BY <2>1 DEF Explicit
<1>4. \A r \in Affected(base, d) : r \in DOMAIN theirs.nodes <=> r \in DOMAIN base.nodes
  BY <1>1, <1>2, AlikeFiles
<1>5. Governing(theirs, d) = Governing(base, d)
  <2> DEFINE choice(t, r) == IF Explicit(t, d, r) = {}
                             THEN <<IF r \in DOMAIN t.nodes /\ ~Keeps(d) THEN "tombstone"
                                    ELSE "untouched", None>>
                             ELSE The(Explicit(t, d, r))
  <2>1. /\ Governing(theirs, d) = [r \in Affected(theirs, d) |-> choice(theirs, r)]
        /\ Governing(base, d) = [r \in Affected(base, d) |-> choice(base, r)]
    BY DEF Governing
  <2>2. \A r \in Affected(base, d) : choice(theirs, r) = choice(base, r)
    BY <1>3, <1>4
  <2> HIDE DEF choice
  <2> QED  BY <1>2, <2>1, <2>2
<1>6. Checks(theirs, d)
  <2>1. \A n \in d.from \cup d.to : Alike(base, theirs, n)
    BY WhatIsRead, ReadsAreAlike
  <2>2. \A n \in d.from \cup d.to : n \in DOMAIN theirs.nodes /\ theirs.nodes[n] = base.nodes[n]
    BY <1>1, <2>1, AlikeFiles DEF Checks
  <2> QED  BY <1>1, <2>2 DEF Checks, Features
<1>7. ASSUME NEW entry \in d.remap
      PROVE  LET matched == {f \in Facts(theirs) : Anchor(f) \in entry.match}
             IN  matched # {} /\ \A f \in matched : f.rec \in Affected(theirs, d)
  <2>1. PICK a : entry.match = {a}
    BY <1>1 DEF Anchored
  <2>2. PICK f \in Facts(base) : Anchor(f) = a /\ f.rec \in Affected(base, d)
    BY <1>1, <2>1 DEF Governed
  <2>3. a[1] = f.rec
    BY <2>2 DEF Anchor
  <2>4. f \in FactsOf(theirs, f.rec)
    BY <1>1, <1>2, <2>2, AlikeFiles DEF FactsOf
  <2>5. f \in Facts(theirs)
    BY <2>4 DEF FactsOf
  <2>6. \A x \in Facts(theirs) : Anchor(x) = a => x.rec = a[1]
    BY DEF Anchor
  <2> QED  BY <1>2, <2>1, <2>2, <2>3, <2>5, <2>6
<1>8. Governed(theirs, d)
  BY <1>1, <1>2, <1>3, <1>7 DEF Governed
<1> QED  BY <1>5, <1>6, <1>8

\* The sets of dependents are the same.
LEMMA SameDependents ==
    ASSUME NEW base, NEW theirs, NEW d, NEW id, Overtaken(base, theirs, d, id)
    PROVE  LET g == Governing(base, d)
           IN  /\ Dependents(theirs, g) = Dependents(base, g)
               /\ Disposed(theirs, g) = Disposed(base, g)
               /\ Remapped(theirs, g) = Remapped(base, g)
               /\ RemappedEdges(theirs, g) = RemappedEdges(base, g)
               /\ Accountable(theirs, d, g) = Accountable(base, d, g)
<1> DEFINE g == Governing(base, d)
<1>1. Typed(base) /\ Typed(theirs)
  BY DEF Overtaken
<1>2. \A r \in DOMAIN g : Alike(base, theirs, r)
  BY SameAffected, Keeping
<1>3. \A r \in DOMAIN g : /\ r \in DOMAIN theirs.nodes <=> r \in DOMAIN base.nodes
                          /\ r \in DOMAIN theirs.edges <=> r \in DOMAIN base.edges
  BY <1>1, <1>2, AlikeFiles
<1> HIDE DEF g
<1>4. Dependents(theirs, g) = Dependents(base, g) /\ Dependents(base, g) \subseteq DOMAIN g
  BY <1>3 DEF Dependents
<1>5. Disposed(theirs, g) = Disposed(base, g) /\ Remapped(theirs, g) = Remapped(base, g)
  BY <1>4 DEF Disposed, Remapped
<1>6. Remapped(base, g) \subseteq DOMAIN g
  BY <1>4 DEF Remapped
<1>7. RemappedEdges(theirs, g) = RemappedEdges(base, g)
  BY <1>3, <1>5, <1>6 DEF RemappedEdges
<1>8. DOMAIN g \cap DOMAIN theirs.nodes = DOMAIN g \cap DOMAIN base.nodes
  BY <1>3
<1>9. Accountable(theirs, d, g) = Accountable(base, d, g)
  BY <1>5, <1>8 DEF Accountable
<1> QED  BY <1>4, <1>5, <1>7, <1>9 DEF g

\* The ids that remapped edges move to, and the first to move there.
Arriving(moved, d, g) == {Moved(d, g, e) : e \in moved}
Source(moved, d, g, k) == CHOOSE e \in moved : Moved(d, g, e) = k

LEMMA EdgeAt ==
    ASSUME NEW t, NEW d, NEW g, NEW k
    PROVE  LET moved == RemappedEdges(t, g)
           IN  /\ At(EdgesAfter(t, d, g), k)
                      = IF k \in DOMAIN t.edges /\ k \notin Disposed(t, g) THEN t.edges[k]
                        ELSE IF k \in Arriving(moved, d, g) THEN t.edges[Source(moved, d, g, k)]
                        ELSE None
               /\ k \in Arriving(moved, d, g) => Source(moved, d, g, k) \in moved
<1> DEFINE kept == DOMAIN t.edges \ Disposed(t, g)
           new == Arriving(RemappedEdges(t, g), d, g)
           source(x) == Source(RemappedEdges(t, g), d, g, x)
<1>1. EdgesAfter(t, d, g)
          = [x \in kept \cup new |-> IF x \in kept THEN t.edges[x] ELSE t.edges[source(x)]]
  BY DEF EdgesAfter, Arriving, Source
<1>2. k \in new => source(k) \in RemappedEdges(t, g)
  BY DEF Arriving, Source
<1>3. At(EdgesAfter(t, d, g), k) = IF k \in kept THEN t.edges[k]
                                   ELSE IF k \in new THEN t.edges[source(k)] ELSE None
  <2> HIDE DEF kept, new, source
  <2> QED  BY <1>1 DEF At
<1> QED  BY <1>2, <1>3

\* The edges that the manifest would make of main are those of the rebased tree.
LEMMA SameEdges ==
    ASSUME NEW base, NEW theirs, NEW d, NEW id, Overtaken(base, theirs, d, id),
           NEW u, u = Rebased(base, Accounted(base, d, id), theirs), NEW k
    PROVE  At(EdgesAfter(theirs, d, Governing(base, d)), k) = At(u.edges, k)
<1> DEFINE g == Governing(base, d)
           new == Arriving(RemappedEdges(base, g), d, g)
           source == Source(RemappedEdges(base, g), d, g, k)
<1>1. Typed(base) /\ Typed(theirs)
  BY DEF Overtaken
<1>2. Disposed(theirs, g) = Disposed(base, g) /\ RemappedEdges(theirs, g) = RemappedEdges(base, g)
  BY SameDependents
<1>3. /\ At(EdgesAfter(base, d, g), k)
             = IF k \in DOMAIN base.edges /\ k \notin Disposed(base, g) THEN base.edges[k]
               ELSE IF k \in new THEN base.edges[source] ELSE None
      /\ k \in new => source \in RemappedEdges(base, g)
  BY EdgeAt
<1>4. At(EdgesAfter(theirs, d, g), k)
          = IF k \in DOMAIN theirs.edges /\ k \notin Disposed(base, g) THEN theirs.edges[k]
            ELSE IF k \in new THEN theirs.edges[source] ELSE None
  BY <1>2, EdgeAt
<1>5. At(u.edges, k) = Pick(At(base.edges, k), At(EdgesAfter(base, d, g), k), At(theirs.edges, k))
  BY RebasedFiles
<1>6. /\ Proper(base.edges) /\ Proper(theirs.edges) /\ Proper(EdgesAfter(base, d, g))
  BY <1>1, ProperFiles, RebasedFiles
<1>7. ASSUME NEW e \in RemappedEdges(base, g)
      PROVE  e \in DOMAIN base.edges /\ base.edges[e] = theirs.edges[e]
  <2>1. e \in DOMAIN base.edges /\ e \in DOMAIN g
    BY DEF RemappedEdges, Remapped, Dependents
  <2>2. Alike(base, theirs, e)
    BY <2>1, SameAffected, Keeping
  <2> QED  BY <1>1, <2>1, <2>2, AlikeFiles
<1>8. k \in new => Alike(base, theirs, k)
  <2> SUFFICES ASSUME k \in new
               PROVE  Alike(base, theirs, k)
    OBVIOUS
  <2>1. k \in Reads(base, d)
    BY WhatIsRead DEF Arriving
  <2> QED  BY <2>1, ReadsAreAlike
<1>9. k \in Disposed(base, g) => Alike(base, theirs, k)
  <2> SUFFICES ASSUME k \in Disposed(base, g)
               PROVE  Alike(base, theirs, k)
    OBVIOUS
  <2>1. k \in DOMAIN g
    BY DEF Disposed, Dependents
  <2> QED  BY <2>1, SameAffected, Keeping
<1>10. CASE Alike(base, theirs, k)
  <2>1. /\ k \in DOMAIN base.edges <=> k \in DOMAIN theirs.edges
        /\ k \in DOMAIN base.edges => base.edges[k] = theirs.edges[k]
        /\ At(base.edges, k) = At(theirs.edges, k)
    BY <1>1, <1>10, AlikeFiles DEF Alike
  <2>2. k \in new => base.edges[source] = theirs.edges[source]
    BY <1>3, <1>7
  <2>3. At(EdgesAfter(theirs, d, g), k) = At(EdgesAfter(base, d, g), k)
    <3> HIDE DEF source, new, g
    <3> QED  BY <1>3, <1>4, <2>1, <2>2
  <2> QED  BY <1>5, <2>1, <2>3 DEF Pick
<1>11. CASE ~Alike(base, theirs, k)
  <2>1. k \notin new /\ k \notin Disposed(base, g)
    BY <1>8, <1>9, <1>11
  <2>2. At(EdgesAfter(base, d, g), k) = At(base.edges, k)
    <3> HIDE DEF source, new, g
    <3> QED  BY <1>3, <1>6, <2>1, WhatAtSees
  <2>3. At(EdgesAfter(theirs, d, g), k) = At(theirs.edges, k)
    <3> HIDE DEF source, new, g
    <3> QED  BY <1>4, <1>6, <2>1, WhatAtSees
  <2> QED  BY <1>5, <2>2, <2>3 DEF Pick
<1> QED  BY <1>10, <1>11

LEMMA RuleAt ==
    ASSUME NEW t, NEW d, NEW g, NEW k
    PROVE  At(RulesAfter(t, d, g), k)
               = IF k \in DOMAIN t.rules /\ k \notin Disposed(t, g) \ Remapped(t, g)
                 THEN IF k \in Remapped(t, g) THEN Rewritten(t, d, g, k) ELSE t.rules[k]
                 ELSE None
  BY DEF RulesAfter, At

\* So are the rules.
LEMMA SameRules ==
    ASSUME NEW base, NEW theirs, NEW d, NEW id, Overtaken(base, theirs, d, id),
           NEW u, u = Rebased(base, Accounted(base, d, id), theirs), NEW k
    PROVE  At(RulesAfter(theirs, d, Governing(base, d)), k) = At(u.rules, k)
<1> DEFINE g == Governing(base, d)
<1>1. Typed(base) /\ Typed(theirs)
  BY DEF Overtaken
<1>2. Disposed(theirs, g) = Disposed(base, g) /\ Remapped(theirs, g) = Remapped(base, g)
  BY SameDependents
<1>3. At(RulesAfter(base, d, g), k)
          = IF k \in DOMAIN base.rules /\ k \notin Disposed(base, g) \ Remapped(base, g)
            THEN IF k \in Remapped(base, g) THEN Rewritten(base, d, g, k) ELSE base.rules[k]
            ELSE None
  BY RuleAt
<1>4. At(RulesAfter(theirs, d, g), k)
          = IF k \in DOMAIN theirs.rules /\ k \notin Disposed(base, g) \ Remapped(base, g)
            THEN IF k \in Remapped(base, g) THEN Rewritten(theirs, d, g, k) ELSE theirs.rules[k]
            ELSE None
  BY <1>2, RuleAt
<1>5. At(u.rules, k) = Pick(At(base.rules, k), At(RulesAfter(base, d, g), k), At(theirs.rules, k))
  BY RebasedFiles
<1>6. Proper(base.rules) /\ Proper(theirs.rules)
  BY <1>1, ProperFiles
<1>7. k \in DOMAIN g => Alike(base, theirs, k)
  BY SameAffected, Keeping
<1>8. Disposed(base, g) \subseteq DOMAIN g /\ Remapped(base, g) \subseteq DOMAIN g
  BY DEF Disposed, Remapped, Dependents
<1> HIDE DEF g
<1>9. CASE Alike(base, theirs, k)
  <2>1. /\ k \in DOMAIN base.rules <=> k \in DOMAIN theirs.rules
        /\ k \in DOMAIN base.rules => base.rules[k] = theirs.rules[k]
        /\ At(base.rules, k) = At(theirs.rules, k)
    BY <1>1, <1>9, AlikeFiles DEF Alike
  <2>2. k \in DOMAIN base.rules => Rewritten(base, d, g, k) = Rewritten(theirs, d, g, k)
    BY <2>1 DEF Rewritten
  <2>3. At(RulesAfter(theirs, d, g), k) = At(RulesAfter(base, d, g), k)
    BY <1>3, <1>4, <2>1, <2>2
  <2> QED  BY <1>5, <2>1, <2>3 DEF Pick, g
<1>10. CASE ~Alike(base, theirs, k)
  <2>1. k \notin Disposed(base, g) /\ k \notin Remapped(base, g)
    BY <1>7, <1>8, <1>10 DEF g
  <2>2. At(RulesAfter(base, d, g), k) = At(base.rules, k)
    BY <1>3, <1>6, <2>1, WhatAtSees
  <2>3. At(RulesAfter(theirs, d, g), k) = At(theirs.rules, k)
    BY <1>4, <1>6, <2>1, WhatAtSees
  <2> QED  BY <1>5, <2>2, <2>3 DEF Pick, g
<1> QED  BY <1>9, <1>10

\* A node that the disposition does not name and that keeps off the old nodes stays.
LEMMA NodeLeftAlone ==
    ASSUME NEW t, Typed(t), NEW d, NEW n \in DOMAIN t.nodes, n \notin d.from, n \notin d.to,
           d.op \in {"remove", "merge"} => t.nodes[n].realizes \cap OldNodes(d) = {}
    PROVE  NodeAfter(t, d, n) = t.nodes[n]
<1> DEFINE node == t.nodes[n]
<1>1. node \in Node
  BY DEF Typed
<1>2. RealizesAfter(t, d, n) = node.realizes
  BY DEF RealizesAfter
<1>3. NodeAfter(t, d, n)
          = [node EXCEPT !.layer = node.layer, !.realizes = node.realizes, !.aliases = node.aliases]
  BY <1>2 DEF NodeAfter
<1> HIDE DEF node
<1>4. [node EXCEPT !.layer = node.layer, !.realizes = node.realizes, !.aliases = node.aliases] = node
  BY <1>1 DEF Node
<1> QED  BY <1>3, <1>4 DEF node

\* What becomes of a node is read off it and the nodes that are named.
LEMMA NodeReadOff ==
    ASSUME NEW t, NEW u, NEW d, NEW n, t.nodes[n] = u.nodes[n],
           \A k \in d.from : t.nodes[k] = u.nodes[k]
    PROVE  NodeAfter(t, d, n) = NodeAfter(u, d, n)
<1>1. RealizesAfter(t, d, n) = RealizesAfter(u, d, n)
  BY DEF RealizesAfter
<1>2. UNION {{k} \cup t.nodes[k].aliases : k \in d.from}
          = UNION {{k} \cup u.nodes[k].aliases : k \in d.from}
  OBVIOUS
<1> QED  BY <1>1, <1>2 DEF NodeAfter

\* So are the nodes: one that main has changed cannot realize what goes.
LEMMA SameNodes ==
    ASSUME NEW base, NEW theirs, NEW d, NEW id, Overtaken(base, theirs, d, id),
           NEW u, u = Rebased(base, Accounted(base, d, id), theirs), NEW k
    PROVE  At(NodesAfter(theirs, d), k) = At(u.nodes, k)
<1>1. /\ Typed(base) /\ Typed(theirs) /\ Admissible(d) /\ Checks(base, d) /\ References(u)
  BY DEF Overtaken, Valid
<1>2. /\ Proper(base.nodes) /\ Proper(theirs.nodes) /\ Proper(u.nodes)
      /\ Proper(NodesAfter(base, d))
  BY <1>1, ProperFiles, RebasedFiles
<1>3. \A n : n \in d.from \cup d.to =>
          /\ At(base.nodes, n) = At(theirs.nodes, n)
          /\ n \in DOMAIN base.nodes /\ base.nodes[n] = theirs.nodes[n]
  <2> SUFFICES ASSUME NEW n \in d.from \cup d.to
               PROVE  /\ At(base.nodes, n) = At(theirs.nodes, n)
                      /\ n \in DOMAIN base.nodes /\ base.nodes[n] = theirs.nodes[n]
    OBVIOUS
  <2>1. Alike(base, theirs, n)
    BY WhatIsRead, ReadsAreAlike
  <2> QED  BY <1>1, <2>1, AlikeFiles DEF Alike, Checks
<1>4. /\ At(u.nodes, k) = Pick(At(base.nodes, k), At(NodesAfter(base, d), k), At(theirs.nodes, k))
      /\ \/ At(NodesAfter(base, d), k) = At(base.nodes, k)
         \/ At(theirs.nodes, k) = At(base.nodes, k)
         \/ At(NodesAfter(base, d), k) = None /\ At(theirs.nodes, k) = None
  BY RebasedFiles
<1>5. ASSUME NEW t
      PROVE  At(NodesAfter(t, d), k) = IF k \in DOMAIN t.nodes /\ (Keeps(d) \/ k \notin OldNodes(d))
                                       THEN NodeAfter(t, d, k) ELSE None
  BY Keeping DEF At
<1>6. CASE At(theirs.nodes, k) = At(base.nodes, k)
  <2>1. /\ k \in DOMAIN base.nodes <=> k \in DOMAIN theirs.nodes
        /\ k \in DOMAIN base.nodes => base.nodes[k] = theirs.nodes[k]
    BY <1>2, <1>6, WhatAtSees
  <2>2. k \in DOMAIN base.nodes => NodeAfter(base, d, k) = NodeAfter(theirs, d, k)
    BY <1>3, <2>1, NodeReadOff
  <2>3. At(NodesAfter(theirs, d), k) = At(NodesAfter(base, d), k)
    BY <1>5, <2>1, <2>2
  <2> QED  BY <1>4, <1>6, <2>3 DEF Pick
<1>7. CASE At(theirs.nodes, k) # At(base.nodes, k)
  <2>1. k \notin d.from /\ k \notin d.to
    BY <1>3, <1>7
  <2>2. CASE k \notin DOMAIN theirs.nodes
    <3>1. At(theirs.nodes, k) = None /\ At(NodesAfter(theirs, d), k) = None
      BY <1>2, <1>5, <2>2, WhatAtSees
    <3> QED  BY <1>4, <1>7, <3>1 DEF Pick
  <2>3. CASE k \in DOMAIN theirs.nodes
    <3>1. k \in DOMAIN u.nodes /\ u.nodes[k] = theirs.nodes[k]
      BY <1>7, <2>3, WhatMainChanged
    <3>2. u.nodes[k].realizes \subseteq DOMAIN u.nodes
      BY <1>1, <3>1 DEF References, Concepts
    <3>3. d.op \in {"remove", "merge"} => theirs.nodes[k].realizes \cap OldNodes(d) = {}
      <4> SUFFICES ASSUME d.op \in {"remove", "merge"}, NEW n \in OldNodes(d),
                          n \in theirs.nodes[k].realizes
                   PROVE  FALSE
        OBVIOUS
      <4>1. ~Keeps(d)
        BY DEF Keeps
      <4>2. n \notin DOMAIN u.nodes
        BY <4>1, OldNodesGo
      <4> QED  BY <3>1, <3>2, <4>2
    <3>4. NodeAfter(theirs, d, k) = theirs.nodes[k]
      BY <1>1, <2>1, <2>3, <3>3, NodeLeftAlone
    <3>5. k \notin OldNodes(d)
      BY <2>1 DEF OldNodes
    <3>6. At(NodesAfter(theirs, d), k) = theirs.nodes[k]
      BY <1>5, <2>3, <3>4, <3>5
    <3> QED  BY <1>2, <3>1, <3>6, WhatAtSees
  <2> QED  BY <2>2, <2>3
<1> QED  BY <1>6, <1>7

\* So are the redirects: git lets only one side have changed them, and if it was main none
\* of them leads to a node that goes.
LEMMA SameRedirects ==
    ASSUME NEW base, NEW theirs, NEW d, NEW id, Overtaken(base, theirs, d, id),
           NEW u, u = Rebased(base, Accounted(base, d, id), theirs)
    PROVE  RedirectsAfter(theirs, d) = u.redirects
<1> DEFINE mine == RedirectsAfter(base, d)
           absorbed(t) == {t.nodes[n].slug : n \in d.from}
           slug(t) == t.nodes[The(d.to)].slug
<1>1. /\ Typed(base) /\ Typed(theirs) /\ Admissible(d) /\ Checks(base, d)
      /\ Redirects(base) /\ Redirects(u)
  BY DEF Overtaken, Valid
<1>2. \A n \in d.from \cup d.to : n \in DOMAIN theirs.nodes /\ theirs.nodes[n] = base.nodes[n]
  <2> SUFFICES ASSUME NEW n \in d.from \cup d.to
               PROVE  n \in DOMAIN theirs.nodes /\ theirs.nodes[n] = base.nodes[n]
    OBVIOUS
  <2>1. Alike(base, theirs, n)
    BY WhatIsRead, ReadsAreAlike
  <2> QED  BY <1>1, <2>1, AlikeFiles DEF Checks
<1>3. u.redirects = Pick(base.redirects, mine, theirs.redirects)
  BY DEF Rebased, Accounted
<1>4. ~Clash(base.redirects, mine, theirs.redirects)
  BY DEF Overtaken, Conflict, Accounted
<1>5. absorbed(theirs) = absorbed(base)
  BY <1>2
<1>6. d.op = "merge" => The(d.to) \in d.to /\ slug(theirs) = slug(base)
  <2>1. d.op = "merge" => The(d.to) \in d.to
    BY <1>1 DEF Admissible, The
  <2> QED  BY <1>2, <2>1
<1>7. \A t : RedirectsAfter(t, d) =
          IF d.op = "merge"
          THEN [k \in (DOMAIN t.redirects \cup absorbed(t)) \ {slug(t)} |->
                  IF k \in absorbed(t) \/ t.redirects[k] \in d.from THEN The(d.to)
                  ELSE t.redirects[k]]
          ELSE IF d.op = "remove" \/ (d.op = "split" /\ ~d.demote)
          THEN Minus(t.redirects, {s \in DOMAIN t.redirects : t.redirects[s] \in d.from})
          ELSE t.redirects
  BY DEF RedirectsAfter
<1>8. CASE theirs.redirects = base.redirects
  <2>1. RedirectsAfter(theirs, d) = mine
    <3> HIDE DEF absorbed, slug, mine
    <3> QED  BY <1>5, <1>6, <1>7, <1>8 DEF mine
  <2> HIDE DEF mine
  <2> QED  BY <1>3, <1>8, <2>1 DEF Pick
<1>9. CASE theirs.redirects # base.redirects
  <2>1. mine = base.redirects \/ mine = theirs.redirects
    BY <1>4, <1>9 DEF Clash
  <2>2. u.redirects = theirs.redirects
    BY <1>3, <2>1 DEF Pick
  <2>3. theirs.redirects = [k \in DOMAIN theirs.redirects |-> theirs.redirects[k]]
    BY <1>1 DEF Typed, Directory
  <2>4. ~Keeps(d) => \A s \in DOMAIN theirs.redirects : theirs.redirects[s] \notin OldNodes(d)
    <3> SUFFICES ASSUME ~Keeps(d), NEW s \in DOMAIN theirs.redirects,
                        theirs.redirects[s] \in OldNodes(d)
                 PROVE  FALSE
      OBVIOUS
    <3>1. theirs.redirects[s] \notin DOMAIN u.nodes
      BY OldNodesGo
    <3> QED  BY <1>1, <2>2, <3>1 DEF Redirects
  <2>5. CASE d.op = "merge"
    <3>1. OldNodes(d) = d.from /\ ~Keeps(d)
      BY <2>5 DEF OldNodes, Keeps
    <3>2. mine = [k \in (DOMAIN base.redirects \cup absorbed(base)) \ {slug(base)} |->
                     IF k \in absorbed(base) \/ base.redirects[k] \in d.from THEN The(d.to)
                     ELSE base.redirects[k]]
      BY <1>7, <2>5
    <3>3. \A k \in absorbed(base) : k \notin DOMAIN base.redirects
      <4> SUFFICES ASSUME NEW n \in d.from
                   PROVE  base.nodes[n].slug \notin DOMAIN base.redirects
        OBVIOUS
      <4>1. n \in DOMAIN base.nodes
        BY <1>1 DEF Checks
      <4> QED  BY <1>1, <4>1 DEF Redirects
    <3>4. \A k \in absorbed(base) \ {slug(base)} : k \in DOMAIN mine /\ mine[k] = The(d.to)
      <4> HIDE DEF absorbed, slug, mine
      <4> QED  BY <3>2
    <3>5. \A k \in absorbed(base) \ {slug(base)} :
              k \in DOMAIN theirs.redirects /\ theirs.redirects[k] = The(d.to)
      <4> HIDE DEF absorbed, slug, mine
      <4> QED  BY <2>1, <3>3, <3>4
    <3>6. slug(base) \notin DOMAIN theirs.redirects
      <4> DEFINE n == The(d.to)
      <4>1. n \in DOMAIN theirs.nodes /\ n \notin OldNodes(d)
        BY <1>1, <1>2, <1>6, <2>5, <3>1 DEF Checks
      <4>2. Checks(theirs, d)
        BY SameGoverning
      <4>3. At(NodesAfter(theirs, d), n) = NodeAfter(theirs, d, n)
        BY <4>1, Keeping DEF At
      <4>4. NodeAfter(theirs, d, n) \in Node /\ NodeAfter(theirs, d, n).slug = slug(base)
        BY <1>1, <1>6, <2>5, <4>1, <4>2, NodeRewritten
      <4>5. At(u.nodes, n) = NodeAfter(theirs, d, n) /\ At(u.nodes, n) # None
        BY <4>3, <4>4, SameNodes, StoreAssumption
      <4>6. Proper(u.nodes)
        BY RebasedFiles, ProperFiles
      <4>7. n \in DOMAIN u.nodes /\ u.nodes[n].slug = slug(base)
        <5> HIDE DEF n, slug
        <5> QED  BY <4>4, <4>5, <4>6, WhatAtSees
      <4> HIDE DEF n, slug
      <4> QED  BY <1>1, <2>2, <4>7 DEF Redirects
    <3>7. RedirectsAfter(theirs, d)
              = [k \in (DOMAIN theirs.redirects \cup absorbed(base)) \ {slug(base)} |->
                    IF k \in absorbed(base) \/ theirs.redirects[k] \in d.from THEN The(d.to)
                    ELSE theirs.redirects[k]]
      <4>1. RedirectsAfter(theirs, d)
                = [k \in (DOMAIN theirs.redirects \cup absorbed(theirs)) \ {slug(theirs)} |->
                      IF k \in absorbed(theirs) \/ theirs.redirects[k] \in d.from THEN The(d.to)
                      ELSE theirs.redirects[k]]
        BY <1>7, <2>5
      <4>2. absorbed(theirs) = absorbed(base) /\ slug(theirs) = slug(base)
        BY <1>5, <1>6, <2>5
      <4> HIDE DEF absorbed, slug
      <4> QED  BY <4>1, <4>2
    <3> HIDE DEF absorbed, slug, mine
    <3>8. (DOMAIN theirs.redirects \cup absorbed(base)) \ {slug(base)} = DOMAIN theirs.redirects
      BY <3>5, <3>6
    <3>9. \A k \in DOMAIN theirs.redirects :
              (IF k \in absorbed(base) \/ theirs.redirects[k] \in d.from THEN The(d.to)
               ELSE theirs.redirects[k]) = theirs.redirects[k]
      BY <2>4, <3>1, <3>5, <3>6
    <3> QED  BY <2>2, <2>3, <3>7, <3>8, <3>9
  <2>6. CASE d.op = "remove" \/ (d.op = "split" /\ ~d.demote)
    <3>1. OldNodes(d) = d.from /\ ~Keeps(d)
      BY <2>6 DEF OldNodes, Keeps
    <3>2. RedirectsAfter(theirs, d)
              = Minus(theirs.redirects, {s \in DOMAIN theirs.redirects : theirs.redirects[s] \in d.from})
      BY <1>7, <2>6
    <3>3. {s \in DOMAIN theirs.redirects : theirs.redirects[s] \in d.from} = {}
      BY <2>4, <3>1
    <3>4. Minus(theirs.redirects, {}) = theirs.redirects
      BY <2>3 DEF Minus
    <3> QED  BY <2>2, <3>2, <3>3, <3>4
  <2>7. CASE d.op # "merge" /\ ~(d.op = "remove" \/ (d.op = "split" /\ ~d.demote))
    BY <1>7, <2>2, <2>7
  <2> QED  BY <2>5, <2>6, <2>7
<1> QED  BY <1>8, <1>9

\* What is a feature of the rebased tree is one on main, and stays.
LEMMA FeaturesOnMain ==
    ASSUME NEW base, NEW theirs, NEW d, NEW id, Overtaken(base, theirs, d, id),
           NEW u, u = Rebased(base, Accounted(base, d, id), theirs), NEW n \in Features(u)
    PROVE  n \in Features(theirs) \ OldNodes(d)
<1>1. Typed(theirs) /\ Admissible(d) /\ Checks(theirs, d)
  BY SameGoverning DEF Overtaken
<1>2. n \notin OldNodes(d)
  BY OldNodesGo
<1>3. n \in DOMAIN u.nodes /\ u.nodes[n].kind = "feature"
  BY DEF Features
<1>4. At(u.nodes, n) = u.nodes[n] /\ At(u.nodes, n) # None
  BY <1>3, RebasedFiles, ProperFiles, WhatAtSees
<1>5. At(NodesAfter(theirs, d), n) = u.nodes[n]
  BY <1>4, SameNodes
<1>6. n \in DOMAIN NodesAfter(theirs, d) /\ NodesAfter(theirs, d)[n] = u.nodes[n]
  BY <1>4, <1>5 DEF At
<1>7. n \in DOMAIN theirs.nodes /\ NodeAfter(theirs, d, n) = u.nodes[n]
  BY <1>6, Keeping
<1>8. theirs.nodes[n].kind = "feature"
  BY <1>1, <1>3, <1>7, NodeRewritten
<1> QED  BY <1>2, <1>7, <1>8 DEF Features

\* The rebased tree has every edge and rule that the manifest sends somewhere.
LEMMA TargetsStay ==
    ASSUME NEW base, NEW theirs, NEW d, NEW id, Overtaken(base, theirs, d, id),
           NEW r \in Remapped(base, Governing(base, d))
    PROVE  Target(Governing(base, d), r) \in Features(theirs) \ OldNodes(d)
<1> DEFINE g == Governing(base, d)
           u == Rebased(base, Accounted(base, d, id), theirs)
           target == Target(g, r)
<1>1. /\ Typed(base) /\ Typed(theirs) /\ Admits(base, d, g) /\ References(base) /\ References(u)
  BY DEF Overtaken, Valid
<1>2. r \in DOMAIN g /\ r \in Dependents(base, g) /\ Action(g, r) = "remap"
  BY DEF Remapped, Dependents
<1>3. r \in Affected(base, d) /\ r \in Records(base) /\ r \notin DOMAIN base.nodes
  BY <1>2, Keeping DEF Affected, Dependents
<1>4. PICK n \in OldNodes(d) : n \in Mentions(base, r)
  BY <1>3 DEF Affected
<1>5. Alike(base, theirs, r)
  BY <1>3, SameAffected
<1>6. Proper(u.edges) /\ Proper(u.rules) /\ Proper(theirs.edges)
  BY <1>1, RebasedFiles, ProperFiles
<1>7. CASE r \in DOMAIN base.edges
  <2> DEFINE x == Moved(d, g, r)
  <2>1. r \in RemappedEdges(base, g)
    BY <1>7 DEF RemappedEdges
  <2>2. x \in Arriving(RemappedEdges(base, g), d, g)
    BY <2>1 DEF Arriving
  <2>3. RemappedEdges(theirs, g) = RemappedEdges(base, g)
    BY SameDependents
  <2>4. RemappedEdges(theirs, g) \subseteq DOMAIN theirs.edges
    BY DEF RemappedEdges
  <2>5. At(EdgesAfter(theirs, d, g), x) # None
    <3> HIDE DEF x, g
    <3> QED  BY <1>6, <2>2, <2>3, <2>4, EdgeAt DEF Proper
  <2>6. At(u.edges, x) # None
    BY <2>5, SameEdges
  <2>7. x \in DOMAIN u.edges
    <3> HIDE DEF x, u, g
    <3> QED  BY <1>6, <2>6, WhatAtSees
  <2>8. x[1] \in Features(u) /\ (IsQuality(x) \/ x[2] \in Features(u))
    <3> HIDE DEF x, u, g
    <3> QED  BY <1>1, <2>7 DEF References
  <2>9. IsQuality(x) <=> IsQuality(r)
    BY <1>1, <2>1, WhereEdgesMove
  <2>10. n = r[1] \/ (~IsQuality(r) /\ n = r[2])
    BY <1>1, <1>4, <1>7, WhatIsMentioned
  <2>11. target = x[1] \/ (~IsQuality(r) /\ target = x[2])
    BY <2>10 DEF Moved, Swap
  <2>12. target \in Features(u)
    <3> HIDE DEF x, u, g, target
    <3> QED  BY <2>8, <2>9, <2>11
  <2> QED  BY <2>12, FeaturesOnMain
<1>8. CASE r \in DOMAIN base.rules
  <2>1. r \in DOMAIN theirs.rules /\ theirs.rules[r] = base.rules[r]
    BY <1>1, <1>5, <1>8, AlikeFiles
  <2>2. Rewritten(theirs, d, g, r) = Rewritten(base, d, g, r)
    BY <2>1 DEF Rewritten
  <2>3. Rewritten(base, d, g, r) \subseteq Nodes
    BY <1>1, <1>8, WhereRulesMove, FeaturesAre
  <2>4. Remapped(theirs, g) = Remapped(base, g)
    BY SameDependents
  <2>5. At(RulesAfter(theirs, d, g), r) = Rewritten(base, d, g, r)
    <3> HIDE DEF g
    <3> QED  BY <2>1, <2>2, <2>4, RuleAt DEF g
  <2>6. At(u.rules, r) = Rewritten(base, d, g, r) /\ At(u.rules, r) # None
    BY <2>3, <2>5, SameRules, StoreAssumption
  <2>7. r \in DOMAIN u.rules /\ u.rules[r] = Rewritten(base, d, g, r)
    <3> HIDE DEF u, g
    <3> QED  BY <1>6, <2>6, WhatAtSees
  <2>8. Rewritten(base, d, g, r) \subseteq Features(u)
    <3> HIDE DEF u, g
    <3> QED  BY <1>1, <2>7 DEF References
  <2>9. n \in base.rules[r]
    BY <1>1, <1>4, <1>8, WhatIsMentioned
  <2>10. target \in Rewritten(base, d, g, r)
    BY <2>9 DEF Rewritten, Swap
  <2>11. target \in Features(u)
    BY <2>8, <2>10
  <2> QED  BY <2>11, FeaturesOnMain
<1> QED  BY <1>3, <1>7, <1>8 DEF Records

\* What the interpreter admitted it admits on main too.
LEMMA SameAdmission ==
    ASSUME NEW base, NEW theirs, NEW d, NEW id, Overtaken(base, theirs, d, id)
    PROVE  Admits(theirs, d, Governing(theirs, d))
<1> DEFINE g == Governing(base, d)
<1>1. Typed(base) /\ Typed(theirs) /\ Admits(base, d, g)
  BY DEF Overtaken
<1>2. Governing(theirs, d) = g
  BY SameGoverning
<1>3. \A r \in DOMAIN g : Alike(base, theirs, r)
  BY SameAffected, Keeping
<1>4. ASSUME NEW n \in DOMAIN g, n \in DOMAIN theirs.nodes
      PROVE  NodeDisposed(theirs, d, g, n)
  <2>1. n \in DOMAIN base.nodes
    BY <1>1, <1>3, <1>4, AlikeFiles
  <2>2. NodeDisposed(base, d, g, n)
    BY <1>1, <1>4, <2>1 DEF Admits
  <2>3. ASSUME Action(g, n) = "remap", Target(g, n) \in SummaryTargets(base, d)
        PROVE  Target(g, n) \in SummaryTargets(theirs, d)
    <3>1. Target(g, n) \in Reads(base, d)
      BY <2>1, <2>3, WhatIsRead
    <3>2. Alike(base, theirs, Target(g, n))
      BY <3>1, ReadsAreAlike
    <3>3. Target(g, n) \in DOMAIN base.nodes => Target(g, n) \in DOMAIN theirs.nodes
      BY <1>1, <3>2, AlikeFiles
    <3> QED  BY <2>3, <3>3 DEF SummaryTargets
  <2> HIDE DEF g
  <2> QED  BY <2>2, <2>3 DEF NodeDisposed
<1>5. ASSUME NEW r \in Dependents(theirs, g)
      PROVE  DependentDisposed(theirs, d, g, r)
  <2>1. r \in Dependents(base, g) /\ r \in DOMAIN g
    BY <1>5, SameDependents DEF Dependents
  <2>2. DependentDisposed(base, d, g, r)
    BY <1>1, <2>1 DEF Admits
  <2>3. ASSUME Action(g, r) = "remap"
        PROVE  RemapFits(theirs, d, g, r)
    <3>1. RemapFits(base, d, g, r)
      BY <2>2, <2>3 DEF DependentDisposed
    <3>2. r \in Remapped(base, g)
      BY <2>1, <2>3 DEF Remapped
    <3>3. Target(g, r) \in Features(theirs) \ OldNodes(d)
      BY <3>2, TargetsStay
    <3>4. /\ r \in DOMAIN theirs.rules <=> r \in DOMAIN base.rules
          /\ r \in DOMAIN base.rules => theirs.rules[r] = base.rules[r]
          /\ r \in DOMAIN theirs.edges <=> r \in DOMAIN base.edges
          /\ r \in DOMAIN base.edges => theirs.edges[r] = base.edges[r]
      BY <1>1, <1>3, <2>1, AlikeFiles
    <3>5. CASE r \in DOMAIN base.rules
      <4>1. Rewritten(theirs, d, g, r) = Rewritten(base, d, g, r)
        BY <3>4, <3>5 DEF Rewritten
      <4> HIDE DEF g
      <4> QED  BY <3>1, <3>3, <3>4, <3>5, <4>1 DEF RemapFits
    <3>6. CASE r \notin DOMAIN base.rules
      <4> DEFINE x == Moved(d, g, r)
      <4>1. x[1] # x[2] /\ Compatible(base, d, g, r)
        BY <3>1, <3>6 DEF RemapFits
      <4>2. r \in Records(base) /\ r \notin DOMAIN base.nodes
        BY <2>1, Keeping DEF Dependents, Affected
      <4>3. r \in DOMAIN base.edges /\ r \in RemappedEdges(base, g)
        BY <3>2, <3>6, <4>2 DEF Records, RemappedEdges
      <4>4. x \in Reads(base, d)
        BY <4>3, WhatIsRead
      <4>5. Alike(base, theirs, x)
        BY <4>4, ReadsAreAlike
      <4>6. x \in DOMAIN base.edges <=> x \in DOMAIN theirs.edges
        BY <1>1, <4>5, AlikeFiles
      <4>7. RemappedEdges(theirs, g) = RemappedEdges(base, g)
        BY SameDependents
      <4>8. Meeting(theirs, d, g, r) = Meeting(base, d, g, r)
        BY <4>6, <4>7 DEF Meeting
      <4>9. \A y \in Meeting(base, d, g, r) : theirs.edges[y] = base.edges[y]
        <5> SUFFICES ASSUME NEW y \in Meeting(base, d, g, r)
                     PROVE  theirs.edges[y] = base.edges[y]
          OBVIOUS
        <5>1. y \in DOMAIN base.edges /\ (y \in DOMAIN g \/ y = x)
          BY DEF Meeting, RemappedEdges, Remapped, Dependents
        <5>2. Alike(base, theirs, y)
          BY <1>3, <4>5, <5>1
        <5> QED  BY <1>1, <5>1, <5>2, AlikeFiles
      <4>10. Compatible(theirs, d, g, r)
        <5> HIDE DEF g
        <5> QED  BY <3>4, <4>1, <4>3, <4>8, <4>9 DEF Compatible
      <4> HIDE DEF g
      <4> QED  BY <3>3, <3>4, <3>6, <4>1, <4>10 DEF RemapFits
    <3> QED  BY <3>5, <3>6
  <2> QED  BY <2>2, <2>3 DEF DependentDisposed
<1> HIDE DEF g
<1> QED  BY <1>2, <1>4, <1>5 DEF Admits

\* A record that main has not changed is made the same of, on either tree.
LEMMA AlikeAfter ==
    ASSUME NEW base, NEW theirs, NEW d, NEW id, Overtaken(base, theirs, d, id),
           NEW k, Alike(base, theirs, k)
    PROVE  FactsOf(Applied(theirs, d, Governing(theirs, d)), k)
               = FactsOf(Applied(base, d, Governing(base, d)), k)
<1> DEFINE u == Rebased(base, Accounted(base, d, id), theirs)
           mine == Accounted(base, d, id)
           there == Accounted(theirs, d, id)
<1>1. /\ Typed(base) /\ Typed(theirs) /\ References(theirs) /\ Admissible(d)
      /\ Checks(theirs, d) /\ Admits(theirs, d, Governing(theirs, d))
      /\ Governing(theirs, d) = Governing(base, d)
  BY SameGoverning, SameAdmission DEF Overtaken, Valid
<1>2. Typed(mine) /\ Typed(there)
  BY <1>1, RebasedFiles, TypedAfter
<1>3. /\ mine.nodes = NodesAfter(base, d) /\ mine.edges = EdgesAfter(base, d, Governing(base, d))
      /\ mine.rules = RulesAfter(base, d, Governing(base, d))
      /\ there.nodes = NodesAfter(theirs, d)
      /\ there.edges = EdgesAfter(theirs, d, Governing(theirs, d))
      /\ there.rules = RulesAfter(theirs, d, Governing(theirs, d))
  BY DEF Accounted
<1>4. At(there.nodes, k) = At(mine.nodes, k)
  BY <1>3, SameNodes, RebasedFiles DEF Alike, Pick
<1>5. At(there.edges, k) = At(mine.edges, k)
  BY <1>1, <1>3, SameEdges, RebasedFiles DEF Alike, Pick
<1>6. At(there.rules, k) = At(mine.rules, k)
  BY <1>1, <1>3, SameRules, RebasedFiles DEF Alike, Pick
<1>7. FactsOf(there, k) = FactsOf(mine, k)
  <2> HIDE DEF there, mine
  <2>1. Alike(there, mine, k)
    BY <1>4, <1>5, <1>6 DEF Alike
  <2> QED  BY <1>2, <2>1, AlikeFiles
<1>8. \A t : FactsOf(Accounted(t, d, id), k) = FactsOf(Applied(t, d, Governing(t, d)), k)
  BY LedgerAside DEF FactsOf
<1> QED  BY <1>7, <1>8

\* Where a fact is sent is read by the manifest.
LEMMA SuccessorsAreRead ==
    ASSUME NEW t, NEW d, NEW p \in Pending(t, d, Governing(t, d)), NEW a \in p.successors
    PROVE  a[1] \in Reads(t, d)
<1> DEFINE g == Governing(t, d)
           successors(r, f) ==
               IF Action(g, r) # "remap" THEN {}
               ELSE IF r \in DOMAIN t.nodes THEN {<<Target(g, r), "summary">>}
               ELSE IF r \in DOMAIN t.rules THEN {Anchor(f)}
               ELSE {<<Moved(d, g, r), f.field>>}
           pending(f) == [fact |-> f, successors |-> successors(f.rec, f)]
<1>1. Pending(t, d, g) = {pending(f) : f \in {f \in Facts(t) : f.rec \in Accountable(t, d, g)}}
  BY DEF Pending, Accountable
<1>2. PICK f \in Facts(t) : f.rec \in Accountable(t, d, g) /\ p = pending(f)
  <2> HIDE DEF pending, g
  <2> QED  BY <1>1 DEF g
<1> DEFINE r == f.rec
<1>3. a \in successors(r, f)
  BY <1>2
<1>4. r \in DOMAIN g /\ r \in Records(t)
  BY <1>2, FactRecords DEF Accountable, Disposed, Dependents
<1>5. Action(g, r) = "remap"
  BY <1>3
<1>6. CASE r \in DOMAIN t.nodes
  <2>1. a[1] = Target(g, r)
    BY <1>3, <1>5, <1>6
  <2> QED  BY <1>4, <1>5, <1>6, <2>1, WhatIsRead
<1>7. CASE r \notin DOMAIN t.nodes /\ r \in DOMAIN t.rules
  <2>1. a[1] = r
    BY <1>3, <1>5, <1>7 DEF Anchor
  <2> QED  BY <1>4, <2>1, WhatIsRead, Keeping
<1>8. CASE r \notin DOMAIN t.nodes /\ r \notin DOMAIN t.rules
  <2>1. a = <<Moved(d, g, r), f.field>>
    BY <1>3, <1>5, <1>8
  <2>2. a[1] = Moved(d, g, r)
    <3> DEFINE x == Moved(d, g, r)
    <3>1. a = <<x, f.field>>
      BY <2>1
    <3> HIDE DEF x
    <3> QED  BY <3>1 DEF x
  <2>3. r \in RemappedEdges(t, g)
    BY <1>4, <1>5, <1>8 DEF Records, RemappedEdges, Remapped, Dependents
  <2> QED  BY <2>2, <2>3, WhatIsRead
<1> QED  BY <1>6, <1>7, <1>8

\* The facts that are disposed of are the same, with the same anchors to succeed them.
LEMMA SamePending ==
    ASSUME NEW base, NEW theirs, NEW d, NEW id, Overtaken(base, theirs, d, id)
    PROVE  Pending(theirs, d, Governing(theirs, d)) = Pending(base, d, Governing(base, d))
<1> DEFINE g == Governing(base, d)
           successors(t, r, f) ==
               IF Action(g, r) # "remap" THEN {}
               ELSE IF r \in DOMAIN t.nodes THEN {<<Target(g, r), "summary">>}
               ELSE IF r \in DOMAIN t.rules THEN {Anchor(f)}
               ELSE {<<Moved(d, g, r), f.field>>}
           facts(t) == {f \in Facts(t) : f.rec \in Accountable(t, d, g)}
           pending(t, f) == [fact |-> f, successors |-> successors(t, f.rec, f)]
<1>1. Typed(base) /\ Typed(theirs)
  BY DEF Overtaken
<1>2. Governing(theirs, d) = g /\ Accountable(theirs, d, g) = Accountable(base, d, g)
  BY SameGoverning, SameDependents
<1>3. Accountable(base, d, g) \subseteq DOMAIN g
  BY DEF Accountable, Disposed, Dependents
<1>4. \A r \in DOMAIN g : Alike(base, theirs, r)
  BY SameAffected, Keeping
<1>5. \A r \in DOMAIN g : /\ r \in DOMAIN theirs.nodes <=> r \in DOMAIN base.nodes
                          /\ r \in DOMAIN theirs.rules <=> r \in DOMAIN base.rules
                          /\ FactsOf(theirs, r) = FactsOf(base, r)
  BY <1>1, <1>4, AlikeFiles
<1>6. \A t : Pending(t, d, g) = {pending(t, f) : f \in facts(t)}
  BY DEF Pending, Accountable
<1>7. \A f : f \in facts(theirs) <=> f \in facts(base)
  <2> HIDE DEF g
  <2> QED  BY <1>2, <1>3, <1>5 DEF FactsOf
<1>8. \A f \in facts(base) : pending(theirs, f) = pending(base, f)
  <2> SUFFICES ASSUME NEW f \in facts(base)
               PROVE  pending(theirs, f) = pending(base, f)
    OBVIOUS
  <2>1. f.rec \in DOMAIN g
    BY <1>3
  <2>2. successors(theirs, f.rec, f) = successors(base, f.rec, f)
    <3> HIDE DEF g
    <3> QED  BY <1>5, <2>1
  <2> QED  BY <2>2
<1>9. Pending(theirs, d, g) = {pending(theirs, f) : f \in facts(theirs)}
       /\ Pending(base, d, g) = {pending(base, f) : f \in facts(base)}
  BY <1>6
<1> HIDE DEF pending, facts
<1>10. Pending(theirs, d, g) = Pending(base, d, g)
  <2>1. \A p : p \in Pending(theirs, d, g) <=> \E f \in facts(theirs) : p = pending(theirs, f)
    BY <1>9
  <2>2. \A p : p \in Pending(base, d, g) <=> \E f \in facts(base) : p = pending(base, f)
    BY <1>9
  <2>3. \A p : p \in Pending(theirs, d, g) <=> p \in Pending(base, d, g)
    BY <1>7, <1>8, <2>1, <2>2
  <2> QED  BY <2>3
<1> QED  BY <1>2, <1>10

\* So the same lines account for them.
LEMMA SameEntries ==
    ASSUME NEW base, NEW theirs, NEW d, NEW id, Overtaken(base, theirs, d, id)
    PROVE  /\ Succeeded(Outcome(theirs, d))
           /\ Entries(Outcome(theirs, d), id) = Entries(Outcome(base, d), id)
<1> DEFINE pending == Pending(base, d, Governing(base, d))
           mine == Applied(base, d, Governing(base, d))
           there == Applied(theirs, d, Governing(theirs, d))
           successors(t, p) == {f \in Facts(t) : Anchor(f) \in p.successors}
           entry(t, p) == [fact |-> p.fact, successors |-> successors(t, p), by |-> id]
<1>1. /\ Outcome(base, d).tree = mine /\ Outcome(base, d).pending = pending
      /\ Outcome(theirs, d).tree = there /\ Outcome(theirs, d).pending = pending
  BY SamePending DEF Outcome
<1>2. ASSUME NEW p \in pending, NEW a \in p.successors, NEW f, Anchor(f) = a
      PROVE  f \in Facts(there) <=> f \in Facts(mine)
  <2>1. Alike(base, theirs, a[1])
    BY SuccessorsAreRead, ReadsAreAlike
  <2>2. FactsOf(there, a[1]) = FactsOf(mine, a[1])
    BY <2>1, AlikeAfter
  <2>3. f.rec = a[1]
    BY <1>2 DEF Anchor
  <2> HIDE DEF there, mine
  <2> QED  BY <2>2, <2>3 DEF FactsOf
<1>3. Succeeded(Outcome(base, d))
  BY DEF Overtaken
<1> HIDE DEF pending, mine, there
<1>4. \A p \in pending : successors(there, p) = successors(mine, p)
  BY <1>2
<1>5. Succeeded(Outcome(theirs, d))
  BY <1>1, <1>2, <1>3 DEF Succeeded
<1>6. /\ Entries(Outcome(base, d), id)
             = {entry(mine, p) : p \in {p \in pending : successors(mine, p) # {p.fact}}}
      /\ Entries(Outcome(theirs, d), id)
             = {entry(there, p) : p \in {p \in pending : successors(there, p) # {p.fact}}}
  BY <1>1 DEF Entries
<1>7. \A p \in pending : entry(there, p) = entry(mine, p)
  BY <1>4
<1> HIDE DEF successors, entry
<1>8. {p \in pending : successors(there, p) # {p.fact}}
          = {p \in pending : successors(mine, p) # {p.fact}}
  BY <1>4
<1> QED  BY <1>5, <1>6, <1>7, <1>8

\* A manifest of one disposition has a plan when every check of the interpreter passes.
LEMMA PlanAccepted ==
    ASSUME NEW t, NEW m, NEW d, m.dispositions = <<d>>, Checks(t, d), Governed(t, d),
           Admits(t, d, Governing(t, d)), Succeeded(Outcome(t, d))
    PROVE  ~plan_migration(t, m).refused
<1> DEFINE s == Interpreted(t, m.dispositions)
           g == Governing(t, d)
<1>1. s = Step(Fresh(t), d)
  BY InterpretedOne
<1>2. /\ Fresh(t).tree = t /\ Fresh(t).pending = {} /\ Fresh(t).gated = {} /\ ~Fresh(t).refused
  BY DEF Fresh
<1>3. s = [tree |-> Applied(t, d, g), pending |-> {} \cup Pending(t, d, g),
           gated |-> {} \cup Gated(t, d, g), refused |-> FALSE]
  <2> HIDE DEF s, g
  <2> QED  BY <1>1, <1>2 DEF Step, g
<1>4. s = Outcome(t, d) /\ ~s.refused
  BY <1>3 DEF Outcome
<1> HIDE DEF s
<1> QED  BY <1>4 DEF plan_migration, s

\* git adds the lines of a migration to main's, and only if there are none can both sides
\* have changed the ledger.
LEMMA SameLedger ==
    ASSUME NEW base, NEW theirs, NEW d, NEW id, Overtaken(base, theirs, d, id),
           \A x \in base.ledger : x.by # id,
           NEW u, u = Rebased(base, Accounted(base, d, id), theirs)
    PROVE  u.ledger = theirs.ledger \cup Entries(Outcome(base, d), id)
<1> DEFINE entries == Entries(Outcome(base, d), id)
           mine == base.ledger \cup entries
<1>1. u.ledger = Pick(base.ledger, mine, theirs.ledger)
  BY DEF Rebased, Accounted
<1>2. ~Clash(base.ledger, mine, theirs.ledger)
  BY DEF Overtaken, Conflict, Accounted
<1>3. \A x \in entries : x.by = id
  BY DEF Entries
<1> HIDE DEF entries
<1>4. entries = {} => u.ledger = theirs.ledger \cup entries
  BY <1>1 DEF Pick
<1>5. ASSUME entries # {}
      PROVE  u.ledger = theirs.ledger \cup entries
  <2>1. mine # base.ledger
    BY <1>3, <1>5
  <2>2. theirs.ledger = base.ledger \/ theirs.ledger = mine
    BY <1>2, <2>1 DEF Clash
  <2> QED  BY <1>1, <2>1, <2>2 DEF Pick
<1> QED  BY <1>4, <1>5 DEF entries

\* A migration planned on a tree that main has left behind replays on main.
LEMMA OvertakenReplays ==
    ASSUME NEW base, NEW theirs, NEW d, NEW id, Overtaken(base, theirs, d, id),
           \A x \in base.ledger : x.by # id,
           NEW u, u = Rebased(base, Accounted(base, d, id), theirs),
           NEW m, m.id = id, m.dispositions = <<d>>
    PROVE  Replays(theirs, u, m) /\ AppendOnly(theirs, u)
<1> DEFINE there == Accounted(theirs, d, id)
           g == Governing(theirs, d)
<1>1. /\ Checks(theirs, d) /\ Governed(theirs, d) /\ Admits(theirs, d, g)
      /\ Succeeded(Outcome(theirs, d)) /\ g = Governing(base, d)
  BY SameGoverning, SameAdmission, SameEntries
<1>2. /\ Typed(base) /\ Typed(theirs) /\ References(theirs) /\ Admissible(d)
  BY DEF Overtaken, Valid
<1>3. ~plan_migration(theirs, m).refused
  BY <1>1, PlanAccepted
<1>4. plan_migration(theirs, m).tree = there
  BY <1>3, PlanOne
<1>5. Typed(there) /\ Typed(u)
  BY <1>1, <1>2, TypedAfter, RebasedFiles
<1>6. /\ there.nodes = NodesAfter(theirs, d) /\ there.edges = EdgesAfter(theirs, d, g)
      /\ there.rules = RulesAfter(theirs, d, g) /\ there.redirects = RedirectsAfter(theirs, d)
      /\ there.ledger = theirs.ledger \cup Entries(Outcome(theirs, d), id)
  BY DEF Accounted
<1>7. /\ Proper(there.nodes) /\ Proper(there.edges) /\ Proper(there.rules)
      /\ Proper(u.nodes) /\ Proper(u.edges) /\ Proper(u.rules)
  BY <1>5, ProperFiles
<1>8. there.nodes = u.nodes
  <2>1. \A k : At(there.nodes, k) = At(u.nodes, k)
    BY <1>6, SameNodes
  <2> HIDE DEF there
  <2> QED  BY <1>7, <2>1, SameFiles
<1>9. there.edges = u.edges
  <2>1. \A k : At(there.edges, k) = At(u.edges, k)
    BY <1>1, <1>6, SameEdges
  <2> HIDE DEF there
  <2> QED  BY <1>7, <2>1, SameFiles
<1>10. there.rules = u.rules
  <2>1. \A k : At(there.rules, k) = At(u.rules, k)
    BY <1>1, <1>6, SameRules
  <2> HIDE DEF there
  <2> QED  BY <1>7, <2>1, SameFiles
<1>11. there.redirects = u.redirects
  BY <1>6, SameRedirects
<1>12. there.ledger = u.ledger
  BY <1>6, SameEntries, SameLedger
<1> HIDE DEF there
<1>13. there = u
  BY <1>5, <1>8, <1>9, <1>10, <1>11, <1>12 DEF Typed
<1>14. theirs.ledger \subseteq u.ledger
  BY SameLedger
<1>15. AppendOnly(theirs, u)
  BY <1>14 DEF AppendOnly, Tombstoned
<1> QED  BY <1>3, <1>4, <1>13, <1>15 DEF Replays

------------------------------------------------------------------------------
(* The invariant: main is a store the validators accept, a migration that is *)
(* under way was planned on one, the one that landed last is what its        *)
(* manifest makes of the store before it, and a migration's number is later  *)
(* than that of every ledger line it may meet.                               *)

Stored == Typed(main) /\ Valid(main)

Owing == FactsAccounted /\ \A f \in owed : f.rec \in settled

Planned ==
    work # None =>
        /\ Typed(work.base) /\ Valid(work.base)
        /\ ~plan_migration(work.base, work.manifest).refused
        /\ work.tree = plan_migration(work.base, work.manifest).tree
        /\ \E d : Single(work.manifest, d) /\ Anchored(d)

Landed ==
    last # None /\ last.green =>
        /\ Typed(last.before) /\ Valid(last.before) /\ Valid(last.after)
        /\ \E m, d : Single(m, d) /\ Replays(last.before, last.after, m)

Before(t, n) == \A x \in t.ledger : x.by \in Nat /\ x.by < n

\* The revert puts back the ledger that the last migration found.
Numbered ==
    /\ commits \in Nat
    /\ Before(main, commits + 1)
    /\ draft # None => 0 < commits /\ Before(main, commits)
    /\ work # None =>
           /\ work.manifest.id \in 1 .. commits
           /\ Before(main, work.manifest.id) /\ Before(work.base, work.manifest.id)
    /\ last # None /\ last.green =>
           /\ Before(last.before, commits)
           /\ work # None => Before(last.before, work.manifest.id)

MigrationInv == TypeOK /\ Stored /\ Owing /\ Planned /\ Landed /\ Numbered

\* An earlier number is before a later one.
LEMMA BeforeLater ==
    ASSUME NEW t, NEW n \in Nat, NEW k \in Nat, Before(t, n), n <= k
    PROVE  Before(t, k)
  BY DEF Before

LEMMA BeforeHandwritten ==
    ASSUME NEW t, NEW u, Handwritten(t, u), NEW n \in Nat, 0 < n, Before(t, n)
    PROVE  Before(u, n)
  BY DEF Before, Handwritten

LEMMA MigrationInit == Init => MigrationInv
<1> SUFFICES ASSUME Init
             PROVE  MigrationInv
  OBVIOUS
<1>1. Stored
  BY MigrationAssumption DEF Init, Stored
<1>2. TypeOK
  BY <1>1, MigrationAssumption DEF Init, TypeOK, Stored
<1>3. Owing /\ Planned /\ Landed
  BY DEF Init, Owing, FactsAccounted, Planned, Landed
<1>4. Numbered
  BY MigrationAssumption DEF Init, Numbered, Before
<1> QED  BY <1>1, <1>2, <1>3, <1>4 DEF MigrationInv

\* What CI lets through keeps the store valid and every settled fact accounted for.
LEMMA CommitKeeps ==
    ASSUME Owing, NEW u, Typed(u), Commit(u), settled' = settled
    PROVE  Stored' /\ Owing'
<1>1. /\ main' = u /\ owed' = owed \cup Owes(u, settled)
      /\ Valid(u) /\ AppendOnly(main, u) /\ Guard(main, u, settled)
  BY DEF Commit, Green
<1>2. ASSUME NEW f \in owed
      PROVE  f \in Facts(u) \cup Tombstoned(u) /\ f.rec \in settled
  <2>1. f.rec \in settled
    BY DEF Owing
  <2>2. CASE f \in Facts(main)
    <3>1. f.rec \in settled \cap Records(main)
      BY <2>1, <2>2, FactRecords
    <3>2. Unaccounted(main, u, f.rec) = {}
      BY <1>1, <3>1 DEF Guard
    <3>3. f \in FactsOf(main, f.rec)
      BY <2>2 DEF FactsOf
    <3> QED  BY <2>1, <3>2, <3>3 DEF Unaccounted
  <2>3. CASE f \in Tombstoned(main)
    <3>1. PICK x \in main.ledger : x.fact = f
      BY <2>3 DEF Tombstoned
    <3> QED  BY <1>1, <2>1, <3>1 DEF AppendOnly
  <2> QED  BY <2>2, <2>3 DEF Owing, FactsAccounted
<1>3. \A f \in Owes(u, settled) : f \in Facts(u) /\ f.rec \in settled
  BY DEF Owes
<1>4. Owing'
  BY <1>1, <1>2, <1>3 DEF Owing, FactsAccounted
<1>5. Stored'
  BY <1>1 DEF Stored
<1> QED  BY <1>4, <1>5

LEMMA EditsKeep ==
    ASSUME MigrationInv, NEW u, Edits(u)
    PROVE  MigrationInv'
<1>1. Stored' /\ Owing'
  BY CommitKeeps DEF MigrationInv, Edits
<1>2. /\ settled' = settled /\ draft' = draft /\ work' = work /\ last' = last
      /\ commits < MaxCommits /\ commits' = commits + 1
  BY DEF Edits
<1>3. TypeOK'
  BY <1>1, <1>2, MigrationAssumption DEF TypeOK, MigrationInv, Stored
<1>4. Planned' /\ Landed'
  BY <1>2 DEF MigrationInv, Planned, Landed
<1>5. Numbered'
  <2>1. main' = u /\ Handwritten(main, u) /\ Numbered
    BY DEF Edits, Commit, MigrationInv
  <2>2. \A n \in Nat : 0 < n /\ Before(main, n) => Before(u, n)
    BY <2>1, BeforeHandwritten
  <2>3. commits \in Nat /\ commits + 1 \in Nat /\ commits + 2 \in Nat
    BY <2>1 DEF Numbered
  <2>4. Before(u, commits + 1)
    BY <2>1, <2>2, <2>3 DEF Numbered
  <2>5. Before(u, commits' + 1)
    BY <1>2, <2>3, <2>4, BeforeLater
  <2>6. work # None => /\ work.manifest.id \in 1 .. commits'
                       /\ Before(u, work.manifest.id)
    BY <1>2, <2>1, <2>2, <2>3 DEF Numbered
  <2>7. last # None /\ last.green => Before(last.before, commits')
    BY <1>2, <2>1, <2>3, BeforeLater DEF Numbered
  <2> QED  BY <1>2, <2>1, <2>3, <2>4, <2>5, <2>6, <2>7 DEF Numbered
<1> QED  BY <1>1, <1>3, <1>4, <1>5 DEF MigrationInv

LEMMA SettleKeeps ==
    ASSUME MigrationInv, settle
    PROVE  MigrationInv'
<1>1. /\ settled' = Seeds /\ owed' = Owes(main, Seeds)
      /\ UNCHANGED <<main, draft, work, last, commits>>
  BY DEF settle
<1>2. Owing'
  BY <1>1 DEF Owing, FactsAccounted, Owes
<1>3. TypeOK' /\ Stored' /\ Planned' /\ Landed' /\ Numbered'
  BY <1>1 DEF MigrationInv, TypeOK, Stored, Planned, Landed, Numbered
<1> QED  BY <1>2, <1>3 DEF MigrationInv

LEMMA DraftKeeps ==
    ASSUME MigrationInv, write_draft
    PROVE  MigrationInv'
<1>1. /\ work = None /\ commits < MaxCommits /\ commits' = commits + 1
      /\ UNCHANGED <<main, settled, owed, work, last>>
  BY DEF write_draft
<1>2. TypeOK'
  BY <1>1, MigrationAssumption DEF MigrationInv, TypeOK
<1>3. Stored' /\ Owing' /\ Planned' /\ Landed'
  BY <1>1 DEF MigrationInv, Stored, Owing, FactsAccounted, Planned, Landed
<1>4. Numbered'
  <2>1. Numbered /\ commits \in Nat
    BY DEF MigrationInv, Numbered
  <2>2. Before(main', commits') /\ Before(main', commits' + 1)
    BY <1>1, <2>1, BeforeLater DEF Numbered
  <2>3. last # None /\ last.green => Before(last.before, commits')
    BY <1>1, <2>1, BeforeLater DEF Numbered
  <2> QED  BY <1>1, <2>1, <2>2, <2>3 DEF Numbered
<1> QED  BY <1>2, <1>3, <1>4 DEF MigrationInv

LEMMA AbandonKeeps ==
    ASSUME MigrationInv, Abandon
    PROVE  MigrationInv'
<1>1. draft' = None /\ work' = None /\ UNCHANGED <<main, settled, owed, last, commits>>
  BY DEF Abandon
<1>2. TypeOK' /\ Stored' /\ Owing' /\ Planned' /\ Landed' /\ Numbered'
  BY <1>1 DEF MigrationInv, TypeOK, Stored, Owing, FactsAccounted, Planned, Landed, Numbered
<1> QED  BY <1>2 DEF MigrationInv

\* A migration under way was planned on what main was, from a draft of whatever age.
LEMMA RunKeeps ==
    ASSUME MigrationInv, run_migration
    PROVE  MigrationInv'
<1>1. PICK m \in Manifests(draft) :
          LET p == plan_migration(main, m)
          IN  ~p.refused /\ work' = [manifest |-> m, base |-> main, tree |-> p.tree]
  BY DEF run_migration
<1>2. /\ work'.manifest = m /\ work'.base = main /\ ~plan_migration(main, m).refused
      /\ work'.tree = plan_migration(main, m).tree
  <2> DEFINE tree == plan_migration(main, m).tree
  <2>1. work' = [manifest |-> m, base |-> main, tree |-> tree]
    BY <1>1
  <2> HIDE DEF tree
  <2> QED  BY <1>1, <2>1
<1>3. draft' = None /\ UNCHANGED <<main, settled, owed, last, commits>>
  BY DEF run_migration
<1>4. m.id = commits /\ \E d : Single(m, d) /\ Anchored(d)
  BY Drafted
<1>5. Planned'
  BY <1>2, <1>4 DEF Planned, MigrationInv, Stored
<1>6. TypeOK' /\ Stored' /\ Owing' /\ Landed'
  BY <1>3 DEF MigrationInv, TypeOK, Stored, Owing, FactsAccounted, Landed
<1>7. Numbered'
  <2>1. draft # None /\ Numbered
    BY DEF run_migration, MigrationInv
  <2>2. commits \in 1 .. commits /\ Before(main, commits)
    BY <2>1 DEF Numbered
  <2> QED  BY <1>2, <1>3, <1>4, <2>1, <2>2 DEF Numbered
<1> QED  BY <1>5, <1>6, <1>7 DEF MigrationInv

\* What a landing does to main: nothing, when its replay is red, or what its manifest says.
LEMMA WhatLands ==
    ASSUME MigrationInv, LandMigration
    PROVE  /\ work' = None /\ UNCHANGED <<settled, draft, commits>>
           /\ owed' = owed \cup Owes(main', settled)
           /\ \/ main' = main /\ ~last'.green
              \/ \E d : /\ Single(work.manifest, d) /\ Valid(main')
                        /\ Replays(main, main', work.manifest)
                        /\ last'.green /\ last'.before = main /\ last'.after = main' /\ last'.op = d.op
<1> DEFINE u == Rebased(work.base, work.tree, main)
           green == Replays(main, u, work.manifest) /\ AppendOnly(main, u)
           op == work.manifest.dispositions[1].op
           stale == Reads(work.base, work.manifest.dispositions[1]) \cap Changed(work.base, main)
<1>1. Valid(u) /\ Push(u) /\ work # None
  BY DEF LandMigration
<1>2. /\ main' = IF green THEN u ELSE main
      /\ last' = [before |-> main, after |-> u, green |-> green, op |-> op, stale |-> stale]
      /\ owed' = owed \cup Owes(main', settled)
  BY <1>1 DEF Push
<1>3. work' = None /\ UNCHANGED <<settled, draft, commits>>
  BY DEF LandMigration
<1>4. PICK d : Single(work.manifest, d)
  BY <1>1 DEF MigrationInv, Planned
<1>5. op = d.op
  BY <1>4 DEF Single
<1>6. green => Replays(main, u, work.manifest)
  OBVIOUS
<1>7. green \in BOOLEAN
  OBVIOUS
<1> HIDE DEF u, green, op, stale
<1>8. last'.before = main /\ last'.after = u /\ last'.op = op /\ last'.green = green
  BY <1>2
<1>9. CASE green
  <2>1. main' = u
    BY <1>2, <1>9
  <2> QED  BY <1>1, <1>2, <1>3, <1>4, <1>5, <1>6, <1>8, <1>9, <2>1
<1>10. CASE ~green
  <2>1. main' = main
    BY <1>2, <1>10
  <2>2. ~last'.green
    BY <1>8, <1>10
  <2> QED  BY <1>2, <1>3, <2>1, <2>2
<1> QED  BY <1>9, <1>10

LEMMA LandKeeps ==
    ASSUME MigrationInv, LandMigration
    PROVE  MigrationInv'
<1>1. /\ work' = None /\ UNCHANGED <<settled, draft, commits>>
      /\ owed' = owed \cup Owes(main', settled)
  BY WhatLands
<1>2. Planned'
  BY <1>1 DEF Planned
<1>3. CASE main' = main /\ ~last'.green
  <2>1. TypeOK' /\ Stored' /\ Landed' /\ Numbered'
    BY <1>1, <1>3 DEF MigrationInv, TypeOK, Stored, Landed, Numbered
  <2>2. Owing'
    BY <1>1, <1>3 DEF MigrationInv, Owing, FactsAccounted, Owes
  <2> QED  BY <1>2, <2>1, <2>2 DEF MigrationInv
<1>4. CASE \E d : /\ Single(work.manifest, d) /\ Valid(main')
                  /\ Replays(main, main', work.manifest)
                  /\ last'.green /\ last'.before = main /\ last'.after = main' /\ last'.op = d.op
  <2> DEFINE m == work.manifest
  <2>1. PICK d : /\ Single(m, d) /\ Replays(main, main', m) /\ Valid(main')
                 /\ last'.before = main /\ last'.after = main' /\ last'.op = d.op
    BY <1>4
  <2> DEFINE p == plan_migration(main, m)
  <2>2. ~p.refused /\ p.tree = main'
    BY <2>1 DEF Replays
  <2>3. Typed(main) /\ Valid(main)
    BY DEF MigrationInv, Stored
  <2>4. /\ Typed(main')
        /\ Facts(main) \subseteq Facts(main') \cup Tombstoned(main')
        /\ Tombstoned(main) \subseteq Tombstoned(main')
    BY <2>1, <2>2, <2>3, Planning
  <2>8. main'.ledger = main.ledger \cup Entries(Outcome(main, d), m.id)
    <3>1. main' = Accounted(main, d, m.id)
      BY <2>1, <2>2, PlanOne DEF Single
    <3> QED  BY <3>1, LedgerAside
  <2> HIDE DEF p
  <2>9. Numbered'
    <3>1. Numbered /\ work # None /\ draft = None
      BY DEF MigrationInv, LandMigration, TypeOK
    <3>2. m.id \in 1 .. commits /\ commits \in Nat /\ Before(main, m.id)
      BY <3>1 DEF Numbered
    <3>3. \A x \in Entries(Outcome(main, d), m.id) : x.by = m.id
      BY DEF Entries
    <3>4. Before(main', commits + 1)
      BY <2>8, <3>2, <3>3 DEF Before
    <3>5. Before(main, commits)
      BY <3>2 DEF Before
    <3> HIDE DEF m
    <3> QED  BY <1>1, <2>1, <3>1, <3>2, <3>4, <3>5 DEF Numbered
  <2>5. Stored' /\ Landed'
    BY <2>1, <2>3, <2>4 DEF Stored, Landed
  <2>6. Owing'
    BY <1>1, <2>4 DEF MigrationInv, Owing, FactsAccounted, Owes
  <2>7. TypeOK'
    BY <1>1, <2>4 DEF MigrationInv, TypeOK
  <2> QED  BY <1>2, <2>5, <2>6, <2>7, <2>9 DEF MigrationInv
<1> QED  BY <1>3, <1>4, WhatLands

------------------------------------------------------------------------------
(* The revert of a migration.                                                *)

\* A node that is not in conflict is main's, or what it was before the migration.
LEMMA RevertedNode ==
    ASSUME NEW base, NEW mine, NEW theirs, Typed(base), Typed(mine), Typed(theirs),
           ~Conflict(base, mine, theirs), NEW u, u = Rebased(base, mine, theirs), NEW n
    PROVE  /\ n \in DOMAIN theirs.nodes /\ n \in DOMAIN u.nodes =>
                  \/ u.nodes[n] = theirs.nodes[n]
                  \/ /\ n \in DOMAIN base.nodes /\ n \in DOMAIN mine.nodes
                     /\ u.nodes[n] = mine.nodes[n] /\ theirs.nodes[n] = base.nodes[n]
           /\ n \in DOMAIN mine.nodes /\ n \notin DOMAIN base.nodes =>
                  n \in DOMAIN u.nodes /\ u.nodes[n] = mine.nodes[n]
<1> DEFINE x == At(base.nodes, n)  y == At(mine.nodes, n)  z == At(theirs.nodes, n)
           picked(k) == Pick(At(base.nodes, k), At(mine.nodes, k), At(theirs.nodes, k))
           ids == {k \in DOMAIN mine.nodes \cup DOMAIN theirs.nodes : picked(k) # None}
<1>1. /\ n \in DOMAIN base.nodes => base.nodes[n] # None
      /\ n \in DOMAIN mine.nodes => mine.nodes[n] # None
      /\ n \in DOMAIN theirs.nodes => theirs.nodes[n] # None
  BY StoreAssumption DEF Typed
<1>2. /\ IF n \in DOMAIN base.nodes THEN x = base.nodes[n] /\ x # None ELSE x = None
      /\ IF n \in DOMAIN mine.nodes THEN y = mine.nodes[n] /\ y # None ELSE y = None
      /\ IF n \in DOMAIN theirs.nodes THEN z = theirs.nodes[n] /\ z # None ELSE z = None
  BY <1>1 DEF At
<1>3. u.nodes = [k \in ids |-> picked(k)]
  BY DEF Rebased, MergeDirectory
<1>4. picked(n) = IF y = x THEN z ELSE y
  BY DEF Pick
<1>5. n \in DOMAIN u.nodes => u.nodes[n] = picked(n)
  <2> HIDE DEF ids, picked
  <2> QED  BY <1>3
<1>6. n \in DOMAIN u.nodes <=> (n \in DOMAIN mine.nodes \cup DOMAIN theirs.nodes /\ picked(n) # None)
  <2>1. DOMAIN u.nodes = ids
    <3> HIDE DEF ids, picked
    <3> QED  BY <1>3
  <2> QED  BY <2>1
<1>7. n \in DOMAIN base.nodes \cup DOMAIN mine.nodes \cup DOMAIN theirs.nodes =>
          y = x \/ z = x \/ (y = z /\ y = None)
  BY DEF Conflict, ClashIn, Clash
<1> HIDE DEF x, y, z, picked
<1> QED  BY <1>2, <1>4, <1>5, <1>6, <1>7

\* A revert takes no URL from a node that stays: what led to a node that was merged away
\* is that node's slug again.
LEMMA RevertKeepsURLs ==
    ASSUME MigrationInv, RevertMigration
    PROVE  Typed(main') /\ Kept(main, main')
<1> DEFINE base == last.after  mine == last.before
           u == Rebased(base, mine, main)
<1>1. last # None /\ last.green /\ ~Conflict(base, mine, main) /\ main' = u
  BY DEF RevertMigration, Commit
<1>2. Typed(main) /\ Typed(mine) /\ Valid(mine)
  BY <1>1 DEF MigrationInv, Stored, Landed
<1>3. PICK m, d : Single(m, d) /\ Replays(mine, base, m)
  BY <1>1 DEF MigrationInv, Landed
<1> DEFINE p == plan_migration(mine, m)
<1>4. ~p.refused /\ p.tree = base
  BY <1>3 DEF Replays
<1>5. Checks(mine, d) /\ Admissible(d) /\ base = Accounted(mine, d, m.id)
  BY <1>3, <1>4, PlanOne DEF Single
<1>6. Typed(base)
  <2> HIDE DEF p
  <2> QED  BY <1>2, <1>3, <1>4, Planning DEF p
<1>7. base.nodes = NodesAfter(mine, d) /\ base.redirects = RedirectsAfter(mine, d)
  <2> HIDE DEF base
  <2> QED  BY <1>5 DEF Accounted
<1>8. \A n : n \in DOMAIN base.nodes <=> n \in DOMAIN mine.nodes /\ (Keeps(d) \/ n \notin OldNodes(d))
  BY <1>7, Keeping
<1>9. \A n \in DOMAIN base.nodes : base.nodes[n].slug = mine.nodes[n].slug
  BY <1>2, <1>5, <1>7, <1>8, NodeRewritten, Keeping
<1>10. Typed(u)
  BY <1>2, RebasedTyped
<1> HIDE DEF base, mine, u, p
<1>11. ASSUME NEW s \in Published(main) \ Published(u), LeadsTo(main, s) \in DOMAIN u.nodes
       PROVE  FALSE
  <2>1. s \notin DOMAIN u.redirects /\ \A n \in DOMAIN u.nodes : u.nodes[n].slug # s
    BY DEF Published
  <2>2. CASE s \notin DOMAIN main.redirects
    <3> DEFINE n == LeadsTo(main, s)
    <3>1. \E k \in DOMAIN main.nodes : main.nodes[k].slug = s
      BY <2>2 DEF Published
    <3>2. n \in DOMAIN main.nodes /\ main.nodes[n].slug = s /\ n \in DOMAIN u.nodes
      BY <1>11, <2>2, <3>1 DEF LeadsTo
    <3> HIDE DEF n
    <3>3. \/ u.nodes[n] = main.nodes[n]
          \/ /\ n \in DOMAIN base.nodes /\ n \in DOMAIN mine.nodes
             /\ u.nodes[n] = mine.nodes[n] /\ main.nodes[n] = base.nodes[n]
      BY <1>1, <1>2, <1>6, <3>2, RevertedNode DEF u
    <3>4. u.nodes[n].slug = s
      BY <1>9, <3>2, <3>3
    <3> QED  BY <2>1, <3>2, <3>4
  <2>3. CASE s \in DOMAIN main.redirects
    <3>1. u.redirects = Pick(base.redirects, mine.redirects, main.redirects)
      BY DEF u, Rebased
    <3>2. ~Clash(base.redirects, mine.redirects, main.redirects)
      BY <1>1 DEF Conflict
    <3>3. u.redirects # main.redirects
      BY <2>1, <2>3
    <3>4. u.redirects = mine.redirects /\ main.redirects = base.redirects
      BY <3>1, <3>2, <3>3 DEF Pick, Clash
    <3>5. s \in DOMAIN base.redirects /\ s \notin DOMAIN mine.redirects
      BY <2>1, <2>3, <3>4
    <3>6. d.op = "merge" /\ \E n \in d.from : mine.nodes[n].slug = s
      <4>1. CASE d.op = "merge"
        <5> DEFINE absorbed == {mine.nodes[n].slug : n \in d.from}
                   slug == mine.nodes[The(d.to)].slug
        <5>1. DOMAIN base.redirects = (DOMAIN mine.redirects \cup absorbed) \ {slug}
          BY <1>7, <4>1 DEF RedirectsAfter
        <5>2. s \in absorbed
          BY <3>5, <5>1
        <5> QED  BY <4>1, <5>2
      <4>2. CASE d.op # "merge"
        <5>1. DOMAIN base.redirects \subseteq DOMAIN mine.redirects
          BY <1>7, <4>2 DEF RedirectsAfter, Minus
        <5> QED  BY <3>5, <5>1
      <4> QED  BY <4>1, <4>2
    <3>7. PICK n \in d.from : mine.nodes[n].slug = s
      BY <3>6
    <3>8. n \in DOMAIN mine.nodes /\ n \notin DOMAIN base.nodes
      BY <1>5, <1>8, <3>6 DEF Checks, OldNodes, Keeps
    <3>9. n \in DOMAIN u.nodes /\ u.nodes[n] = mine.nodes[n]
      BY <1>1, <1>2, <1>6, <3>8, RevertedNode DEF u
    <3> QED  BY <2>1, <3>7, <3>9
  <2> QED  BY <2>2, <2>3
<1> QED  BY <1>1, <1>10, <1>11 DEF Kept, u, base, mine

LEMMA RevertKeeps ==
    ASSUME MigrationInv, RevertMigration
    PROVE  MigrationInv'
<1>1. /\ Commit(main') /\ Typed(main') /\ last' = None
      /\ UNCHANGED <<settled, draft, work, commits>>
  BY RevertKeepsURLs DEF RevertMigration, Commit
<1>2. Stored' /\ Owing'
  BY <1>1, CommitKeeps DEF MigrationInv
<1>3. TypeOK' /\ Planned' /\ Landed'
  BY <1>1 DEF MigrationInv, TypeOK, Planned, Landed
<1>4. Numbered'
  <2>1. last # None /\ last.green /\ Numbered
    BY DEF RevertMigration, MigrationInv
  <2>2. main' = Rebased(last.after, last.before, main)
    BY DEF RevertMigration, Commit
  <2>3. main'.ledger = last.before.ledger \/ main'.ledger = main.ledger
    BY <2>2 DEF Rebased, Pick
  <2>4. \A n : Before(main, n) /\ Before(last.before, n) => Before(main', n)
    BY <2>3 DEF Before
  <2>5. Before(last.before, commits + 1) /\ commits \in Nat
    BY <2>1, BeforeLater DEF Numbered
  <2> QED  BY <1>1, <2>1, <2>4, <2>5 DEF Numbered
<1> QED  BY <1>2, <1>3, <1>4 DEF MigrationInv

------------------------------------------------------------------------------
(* The theorems.                                                             *)

LEMMA MigrationStep == MigrationInv /\ [Next]_vars => MigrationInv'
<1> SUFFICES ASSUME MigrationInv, [Next]_vars
             PROVE  MigrationInv'
  OBVIOUS
<1>1. CASE EditByHand \/ \E n \in Nodes, s \in Slugs : rename_slug(n, s)
  <2>1. PICK u : Edits(u)
    BY <1>1, Edited DEF MigrationInv, Stored
  <2> QED  BY <2>1, EditsKeep
<1>2. CASE settle
  BY <1>2, SettleKeeps
<1>3. CASE write_draft
  BY <1>3, DraftKeeps
<1>4. CASE run_migration
  BY <1>4, RunKeeps
<1>5. CASE LandMigration
  BY <1>5, LandKeeps
<1>6. CASE Abandon
  BY <1>6, AbandonKeeps
<1>7. CASE RevertMigration
  BY <1>7, RevertKeeps
<1>8. CASE UNCHANGED vars
  BY <1>8 DEF vars, MigrationInv, TypeOK, Stored, Owing, FactsAccounted, Planned, Landed, Numbered
<1> QED  BY <1>1, <1>2, <1>3, <1>4, <1>5, <1>6, <1>7, <1>8 DEF Next

LEMMA MigrationInvariant == Spec => []MigrationInv
  BY MigrationInit, MigrationStep, PTL DEF Spec

\* No fact of a settled theme's record is lost: whatever edits, renames, migrations and
\* reverts main takes, it is live or has a ledger line.
THEOREM FactsAreAccounted == Spec => []FactsAccounted
<1>1. MigrationInv => FactsAccounted
  BY DEF MigrationInv, Owing
<1> QED  BY <1>1, MigrationInvariant, PTL

\* The migration that landed last can be undone: CI lets its revert through, unless going
\* back restructures a settled record.
THEOREM RollbackAlwaysHolds == Spec => []RollbackHolds
<1>1. MigrationInv => RollbackHolds
  <2> SUFFICES ASSUME MigrationInv, last # None, last.green, main = last.after,
                      ~UndoRestructures(last.before, last.after)
               PROVE  Green(main, last.before)
    BY DEF RollbackHolds
  <2>1. PICK m, d : Single(m, d) /\ Replays(last.before, last.after, m)
    BY DEF MigrationInv, Landed
  <2> QED  BY <2>1, Undoing DEF MigrationInv, Landed
<1> QED  BY <1>1, MigrationInvariant, PTL

\* What a migration does to a main that its plan is too old for: it replays, unless what the
\* manifest reads has changed.
LEMMA StaleLands ==
    ASSUME MigrationInv, LandMigration
    PROVE  last'.green \/ last'.stale # {}
<1> DEFINE base == work.base
           m == work.manifest
           u == Rebased(base, work.tree, main)
           green == Replays(main, u, m) /\ AppendOnly(main, u)
           stale == Reads(base, m.dispositions[1]) \cap Changed(base, main)
<1>1. /\ work # None /\ ~Conflict(base, work.tree, main) /\ Valid(u) /\ Push(u)
  BY DEF LandMigration
<1>2. last'.green = green /\ last'.stale = stale
  BY <1>1 DEF Push
<1>3. PICK d : Single(m, d) /\ Anchored(d)
  BY <1>1 DEF MigrationInv, Planned
<1>4. m.dispositions = <<d>> /\ m.dispositions[1] = d /\ Admissible(d)
  BY <1>3 DEF Single
<1>5. /\ Typed(base) /\ Valid(base) /\ Typed(main) /\ Valid(main)
      /\ ~plan_migration(base, m).refused /\ work.tree = plan_migration(base, m).tree
  BY <1>1 DEF MigrationInv, Planned, Stored
<1>6. /\ Checks(base, d) /\ Governed(base, d) /\ Admits(base, d, Governing(base, d))
      /\ Succeeded(Outcome(base, d)) /\ work.tree = Accounted(base, d, m.id)
  BY <1>4, <1>5, PlanOne
<1>7. \A x \in base.ledger : x.by # m.id
  BY <1>1 DEF MigrationInv, Numbered, Before
<1> HIDE DEF base, m, green
<1>8. stale = {} => Overtaken(base, main, d, m.id)
  BY <1>1, <1>3, <1>4, <1>5, <1>6 DEF Overtaken
<1>9. stale = {} => Replays(main, u, m) /\ AppendOnly(main, u)
  BY <1>4, <1>6, <1>7, <1>8, OvertakenReplays
<1> HIDE DEF u, stale
<1> QED  BY <1>2, <1>9 DEF green

\* A migration whose plan main has overtaken lands green, unless main has changed a record
\* that its manifest reads: git's conflicts and the validators see all the rest.
THEOREM StaleMigrationsReplay == Spec => []StaleNeverLands
<1>1. Init => StaleNeverLands
  BY DEF Init, StaleNeverLands
<1>2. MigrationInv /\ StaleNeverLands /\ [Next]_vars => StaleNeverLands'
  <2> SUFFICES ASSUME MigrationInv, StaleNeverLands, [Next]_vars
               PROVE  StaleNeverLands'
    OBVIOUS
  <2>1. CASE EditByHand \/ \E n \in Nodes, s \in Slugs : rename_slug(n, s)
    <3>1. PICK u : Edits(u)
      BY <2>1, Edited DEF MigrationInv, Stored
    <3> QED  BY <3>1 DEF Edits, StaleNeverLands
  <2>2. CASE settle \/ write_draft \/ run_migration \/ Abandon \/ UNCHANGED vars
    <3>1. last' = last
      BY <2>2 DEF settle, write_draft, run_migration, Abandon, vars
    <3> QED  BY <3>1 DEF StaleNeverLands
  <2>3. CASE LandMigration
    BY <2>3, StaleLands DEF StaleNeverLands
  <2>4. CASE RevertMigration
    BY <2>4 DEF RevertMigration, StaleNeverLands
  <2> QED  BY <2>1, <2>2, <2>3, <2>4 DEF Next
<1> QED  BY <1>1, <1>2, MigrationInvariant, PTL DEF Spec

\* The interpreter leaves nothing dangling and nothing ungated, on every store that main
\* can be and with every manifest a draft may become.
THEOREM StoreStaysSound == Spec => []StoreSound
<1>1. MigrationInv => NeverDangles
  <2> SUFFICES ASSUME MigrationInv, NEW m \in Manifests(main),
                      NEW p, p = plan_migration(main, m), ~p.refused
               PROVE  /\ References(p.tree)
                      /\ SlugsDiffer(main) => Redirects(p.tree)
                      /\ \A x \in p.tree.ledger :
                             x.successors \subseteq Facts(p.tree) \cup Tombstoned(p.tree)
    BY DEF NeverDangles
  <2>1. PICK d : Single(m, d)
    BY Drafted
  <2>2. Typed(main) /\ Valid(main)
    BY DEF MigrationInv, Stored
  <2>3. /\ References(p.tree) /\ (SlugsDiffer(main) => Redirects(p.tree))
        /\ Facts(main) \subseteq Facts(p.tree) \cup Tombstoned(p.tree)
        /\ Tombstoned(main) \subseteq Tombstoned(p.tree)
        /\ \A x \in p.tree.ledger \ main.ledger : x.successors \subseteq Facts(p.tree)
    BY <2>1, <2>2, Planning
  <2>4. \A x \in main.ledger : x.successors \subseteq Facts(main) \cup Tombstoned(main)
    BY <2>2 DEF Valid, Ledger
  <2> QED  BY <2>3, <2>4
<1>2. MigrationInv => NothingUngated
  <2> SUFFICES ASSUME MigrationInv, work # None,
                      NEW p, p = plan_migration(work.base, work.manifest),
                      NEW r \in Records(p.tree) \ DOMAIN p.tree.nodes
               PROVE  \/ r \in p.gated
                      \/ /\ r \in Records(work.base)
                         /\ r \in Rules => p.tree.rules[r] = work.base.rules[r]
                         /\ r \in Edges => p.tree.edges[r] = work.base.edges[r]
    BY DEF NothingUngated
  <2>1. PICK d : Single(work.manifest, d)
    BY DEF MigrationInv, Planned
  <2> QED  BY <2>1, PlanGated DEF MigrationInv, Planned
<1>3. MigrationInv => TypeOK
  BY DEF MigrationInv
<1> QED  BY <1>1, <1>2, <1>3, MigrationInvariant, PTL DEF StoreSound

\* A published slug is lost only with a node that is removed, and in no merge.
THEOREM URLsAreKept == Spec => URLsKept
<1> DEFINE URLStep == \A s \in Published(main) \ Published(main') :
                       /\ LeadsTo(main, s) \notin DOMAIN main'.nodes
                       /\ (last' # last /\ last' # None) => last'.op # "merge"
<1>1. MigrationInv /\ [Next]_vars => [URLStep]_vars
  <2> SUFFICES ASSUME MigrationInv, Next,
                      NEW s \in Published(main) \ Published(main')
               PROVE  /\ LeadsTo(main, s) \notin DOMAIN main'.nodes
                      /\ (last' # last /\ last' # None) => last'.op # "merge"
    OBVIOUS
  <2>1. CASE EditByHand \/ \E n \in Nodes, k \in Slugs : rename_slug(n, k)
    <3>1. PICK u : Edits(u)
      BY <2>1, Edited DEF MigrationInv, Stored
    <3> QED  BY <3>1 DEF Edits, Commit, Kept
  <2>2. CASE settle \/ write_draft \/ run_migration \/ Abandon
    <3>1. main' = main
      BY <2>2 DEF settle, write_draft, run_migration, Abandon
    <3> QED  BY <3>1
  <2>3. CASE LandMigration
    <3> DEFINE m == work.manifest
    <3>1. PICK d : /\ Single(m, d) /\ Replays(main, main', m) /\ Valid(main')
                   /\ last'.before = main /\ last'.after = main' /\ last'.op = d.op
      BY <2>3, WhatLands
    <3> DEFINE p == plan_migration(main, m)
    <3>2. ~p.refused /\ p.tree = main'
      BY <3>1 DEF Replays
    <3>3. LeadsTo(main, s) \notin DOMAIN main'.nodes /\ d.op # "merge"
      BY <3>1, <3>2, Planning DEF MigrationInv, Stored
    <3> QED  BY <3>1, <3>3
  <2>4. CASE RevertMigration
    <3>1. Kept(main, main') /\ last' = None
      BY <2>4, RevertKeepsURLs DEF RevertMigration
    <3> QED  BY <3>1 DEF Kept
  <2> QED  BY <2>1, <2>2, <2>3, <2>4 DEF Next
<1> QED  BY <1>1, MigrationInvariant, PTL DEF Spec, URLsKept

=============================================================================
