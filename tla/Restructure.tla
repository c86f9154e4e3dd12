---------------------------- MODULE Restructure ----------------------------
(***************************************************************************)
(* The canonical store as tools/validate judges it, and the interpreter of *)
(* migration manifests (validate/migrate.py): pure operators on a store    *)
(* tree and a manifest.  Migration is the system that uses them.           *)
(*                                                                         *)
(* A tree keeps, of each file, what the validators, the interpreter and    *)
(* the guard read.  Left out: FeatureInstances, which no migration may     *)
(* touch; the types of edges, so that an edge is its endpoints; dimensions *)
(* of layer 3; an edge's statement and an assessment's key.                *)
(***************************************************************************)
EXTENDS Naturals, FiniteSets, Sequences

CONSTANTS
    Nodes,        \* ids a concept or a feature may have
    Qualities,    \* the slugs of ontology/taxonomy/qualities.yaml
    Rules,        \* ids a rule may have
    Texts,        \* what a summary may say
    Slugs,        \* slugs a node may have
    MaxHops,      \* MAX_CHAIN_DEPTH
    None          \* no value

Polarities == {"positive", "negative"}   \* a quality edge has assessments instead
Edges == {e \in Nodes \X (Nodes \cup Qualities) : e[1] # e[2]}
IsQuality(e) == e[2] \in Qualities

Node == [kind : {"feature", "concept"}, text : Texts, slug : Slugs, layer : {1, 2},
         realizes : SUBSET Nodes, aliases : SUBSET Nodes]

\* An id says what kind of record it is: an edge's starts with edge., a rule's with rule-.
ASSUME StoreAssumption ==
    /\ MaxHops \in Nat
    /\ Nodes \cap Qualities = {}
    /\ Nodes \cap Edges = {} /\ Nodes \cap Rules = {} /\ Edges \cap Rules = {}
    /\ None \notin Node /\ None \notin Polarities \cup {"assessed"}
    /\ \A nodes \in SUBSET Nodes : None # nodes

\* A directory of files, each under its id, and a tree of them (schema.py).
Directory(dir, ids) == dir = [k \in DOMAIN dir |-> dir[k]] /\ DOMAIN dir \subseteq ids

Typed(t) ==
    /\ t = [nodes |-> t.nodes, edges |-> t.edges, rules |-> t.rules,
            ledger |-> t.ledger, redirects |-> t.redirects]
    /\ Directory(t.nodes, Nodes) /\ \A n \in DOMAIN t.nodes : t.nodes[n] \in Node
    /\ Directory(t.edges, Edges)
    /\ \A e \in DOMAIN t.edges :
           t.edges[e] \in IF IsQuality(e) THEN {"assessed"} ELSE Polarities
    /\ Directory(t.rules, Rules) /\ \A r \in DOMAIN t.rules : t.rules[r] \subseteq Nodes
    /\ Directory(t.redirects, Slugs)
    /\ \A s \in DOMAIN t.redirects : t.redirects[s] \in Nodes

------------------------------------------------------------------------------
(* The facts of a tree (compile.py) and what the validators ask of one.      *)

Features(t) == {n \in DOMAIN t.nodes : t.nodes[n].kind = "feature"}
Concepts(t) == DOMAIN t.nodes \ Features(t)

Fact(r, field, value) == [rec |-> r, field |-> field, value |-> value]
Anchor(f) == <<f.rec, f.field>>

\* A rule's fact is its message, which nothing here changes.
Facts(t) ==
    {Fact(n, "summary", t.nodes[n].text) : n \in DOMAIN t.nodes}
    \cup {Fact(e, "exists", None) : e \in {e \in DOMAIN t.edges : ~IsQuality(e)}}
    \cup {Fact(e, "polarity", t.edges[e]) : e \in {e \in DOMAIN t.edges : ~IsQuality(e)}}
    \cup {Fact(e, "assessments", None) : e \in {e \in DOMAIN t.edges : IsQuality(e)}}
    \cup {Fact(r, "exists", None) : r \in DOMAIN t.rules}

FactsOf(t, r) == {f \in Facts(t) : f.rec = r}
Records(t) == DOMAIN t.nodes \cup DOMAIN t.edges \cup DOMAIN t.rules
Tombstoned(t) == {entry.fact : entry \in t.ledger}

\* Every id a record names is there, and of the right kind.
References(t) ==
    /\ \A n \in DOMAIN t.nodes : t.nodes[n].realizes \subseteq Concepts(t)
    /\ \A e \in DOMAIN t.edges :
           e[1] \in Features(t) /\ (IsQuality(e) \/ e[2] \in Features(t))
    /\ \A r \in DOMAIN t.rules : t.rules[r] \subseteq Features(t)

\* A redirect leads to a node, and no node's own slug is one.
Redirects(t) ==
    \A s \in DOMAIN t.redirects :
        /\ t.redirects[s] \in DOMAIN t.nodes
        /\ \A n \in DOMAIN t.nodes : t.nodes[n].slug # s

\* The dead facts a walk along superseded_by stands at after k hops.
AtHop(t, f) ==
    LET hop[k \in Nat] ==
            IF k = 0 THEN {f} \ Facts(t)
            ELSE UNION {entry.successors : entry \in {x \in t.ledger : x.fact \in hop[k - 1]}}
                     \ Facts(t)
    IN  hop

\* resolve_fact raises: a chain is too long, or leads back to itself.
TooDeep(t, f) == AtHop(t, f)[MaxHops] \cap Tombstoned(t) # {}

Ledger(t) ==
    /\ \A x, y \in t.ledger : x.fact = y.fact => x = y
    /\ \A x \in t.ledger : x.successors \subseteq Facts(t) \cup Tombstoned(t)
    /\ \A x \in t.ledger : ~TooDeep(t, x.fact)

Valid(t) == References(t) /\ Redirects(t) /\ Ledger(t)

\* Mutant: no line is ever removed.
NoLineRemoved(before, after) == before.ledger \subseteq after.ledger

\* No line is edited; one is removed only if its fact lives again.
AppendOnly(before, after) ==
    \A x \in before.ledger :
        IF x.fact \in Tombstoned(after) THEN x \in after.ledger ELSE x.fact \in Facts(after)

------------------------------------------------------------------------------
(* The interpreter.  A disposition is                                        *)
(*   [op, from, to : sets of nodes; demote : old_node = demote-to-concept;    *)
(*    layer; remap : a set of [match : a set of anchors, action, target]]        *)

OldNodes(d) == IF d.op = "move" THEN {} ELSE d.from
Keeps(d) == d.op = "split" /\ d.demote

\* A merge's survivor, or the node an entry sends a record to.
The(nodes) == CHOOSE n \in nodes : TRUE

Mentions(t, r) ==
    CASE r \in DOMAIN t.nodes -> {r}
      [] r \in DOMAIN t.edges -> IF IsQuality(r) THEN {r[1]} ELSE {r[1], r[2]}
      [] OTHER -> t.rules[r]

Affected(t, d) == {r \in Records(t) : Mentions(t, r) \cap OldNodes(d) # {}}

Checks(t, d) ==
    /\ d.from \subseteq DOMAIN t.nodes /\ d.to \subseteq DOMAIN t.nodes
    /\ d.from \cap d.to = {}
    /\ d.op = "merge" => \A n \in d.from, k \in d.to : t.nodes[n].kind = t.nodes[k].kind
    /\ d.op \in {"split", "move"} => d.from \cup d.to \subseteq Features(t)
    /\ d.op = "move" => d.remap = {}

\* A draft has one entry for each anchor, so their order is left out.
Hits(d, a) == {entry \in d.remap : a \in entry.match}

Explicit(t, d, r) ==
    UNION {{<<entry.action, entry.target>> : entry \in Hits(d, Anchor(f))} : f \in FactsOf(t, r)}

\* Every entry matches something, and only what this op touches; no record is given
\* two dispositions.
Governed(t, d) ==
    /\ \A entry \in d.remap :
           LET matched == {f \in Facts(t) : Anchor(f) \in entry.match}
           IN  matched # {} /\ \A f \in matched : f.rec \in Affected(t, d)
    /\ \A r \in Affected(t, d) : Cardinality(Explicit(t, d, r)) <= 1

\* What is done with each record: its entry, or the default of its kind.
Governing(t, d) ==
    LET default(r) == <<IF r \in DOMAIN t.nodes /\ ~Keeps(d) THEN "tombstone" ELSE "untouched",
                        None>>
        explicit == [r \in Affected(t, d) |-> Explicit(t, d, r)]
    IN  [r \in Affected(t, d) |-> IF explicit[r] = {} THEN default(r) ELSE The(explicit[r])]

\* g: what governs each affected record, as Governing has it.
Action(g, r) == g[r][1]
Target(g, r) == g[r][2]

SummaryTargets(t, d) ==
    IF d.op = "remove" THEN DOMAIN t.nodes \ OldNodes(d) ELSE d.to

NodeDisposed(t, d, g, n) ==
    IF Keeps(d) THEN Action(g, n) = "untouched"
    ELSE \/ Action(g, n) = "tombstone"
         \/ Action(g, n) = "remap" /\ Target(g, n) \in SummaryTargets(t, d)

Swap(d, g, r, n) == IF n \in OldNodes(d) THEN Target(g, r) ELSE n
Moved(d, g, e) ==
    <<Swap(d, g, e, e[1]), IF IsQuality(e) THEN e[2] ELSE Swap(d, g, e, e[2])>>
Rewritten(t, d, g, r) == {Swap(d, g, r, n) : n \in t.rules[r]}

\* Everything else that points at an old node; of that, what is remapped, and what is
\* not left as it is.
Dependents(t, g) == DOMAIN g \ DOMAIN t.nodes
Remapped(t, g) == {r \in Dependents(t, g) : Action(g, r) = "remap"}
Disposed(t, g) == {r \in Dependents(t, g) : Action(g, r) # "untouched"}
RemappedEdges(t, g) == Remapped(t, g) \cap DOMAIN t.edges

\* The edges whose claims would meet at the id an edge moves to.  They must agree, and
\* assessments never do.
Meeting(t, d, g, e) ==
    {x \in RemappedEdges(t, g) : Moved(d, g, x) = Moved(d, g, e)}
        \cup (DOMAIN t.edges \cap {Moved(d, g, e)})

Compatible(t, d, g, e) ==
    \A x \in Meeting(t, d, g, e) : x = e \/ (~IsQuality(e) /\ t.edges[x] = t.edges[e])

RemapFits(t, d, g, r) ==
    /\ Target(g, r) \in Features(t) \ OldNodes(d)
    /\ IF r \in DOMAIN t.rules THEN Cardinality(Rewritten(t, d, g, r)) >= 2
       ELSE Moved(d, g, r)[1] # Moved(d, g, r)[2] /\ Compatible(t, d, g, r)

\* Mutant: a dependent may be left as it is.
DisposedOrLeft(t, d, g, r) ==
    Action(g, r) = "remap" => RemapFits(t, d, g, r)

\* An edge or rule that is left untouched would dangle.
DependentDisposed(t, d, g, r) ==
    /\ Action(g, r) # "untouched"
    /\ Action(g, r) = "remap" => RemapFits(t, d, g, r)

Admits(t, d, g) ==
    /\ \A n \in DOMAIN g \cap DOMAIN t.nodes : NodeDisposed(t, d, g, n)
    /\ \A r \in Dependents(t, g) : DependentDisposed(t, d, g, r)

\* The facts an op disposes of, each with the anchors that succeed it.
Pending(t, d, g) ==
    LET successors(r, f) ==
            IF Action(g, r) # "remap" THEN {}
            ELSE IF r \in DOMAIN t.nodes THEN {<<Target(g, r), "summary">>}
            ELSE IF r \in DOMAIN t.rules THEN {Anchor(f)}
            ELSE {<<Moved(d, g, r), f.field>>}
        disposed == Disposed(t, g) \cup (IF Keeps(d) THEN {} ELSE DOMAIN g \cap DOMAIN t.nodes)
    IN  {[fact |-> f, successors |-> successors(f.rec, f)] :
            f \in {f \in Facts(t) : f.rec \in disposed}}

\* The records the gate must admit again: what is written, not what another claim absorbs.
Gated(t, d, g) ==
    ({Moved(d, g, e) : e \in RemappedEdges(t, g)} \ DOMAIN t.edges)
    \cup (Remapped(t, g) \cap DOMAIN t.rules)

Minus(f, keys) == [k \in DOMAIN f \ keys |-> f[k]]

EdgesAfter(t, d, g) ==
    LET kept == DOMAIN t.edges \ Disposed(t, g)
        new == {Moved(d, g, e) : e \in RemappedEdges(t, g)}
        source(k) == CHOOSE e \in RemappedEdges(t, g) : Moved(d, g, e) = k
    IN  [k \in kept \cup new |-> IF k \in kept THEN t.edges[k] ELSE t.edges[source(k)]]

RulesAfter(t, d, g) ==
    [r \in DOMAIN t.rules \ (Disposed(t, g) \ Remapped(t, g)) |->
        IF r \in Remapped(t, g) THEN Rewritten(t, d, g, r) ELSE t.rules[r]]

\* A merge of concepts repoints `realizes`, a removal drops it.
RealizesAfter(t, d, n) ==
    LET realizes == t.nodes[n].realizes
        gone == realizes \cap OldNodes(d)
    IN  IF d.op = "remove" THEN realizes \ gone
        ELSE IF d.op = "merge" /\ gone # {} THEN (realizes \ gone) \cup d.to
        ELSE IF Keeps(d) /\ n \in d.to THEN realizes \cup d.from
        ELSE realizes

NodeAfter(t, d, n) ==
    LET node == t.nodes[n]
    IN  IF n \in d.from /\ Keeps(d)
        THEN [node EXCEPT !.kind = "concept", !.layer = 1, !.realizes = {}, !.aliases = {}]
        ELSE [node EXCEPT
                !.layer = IF d.op = "move" /\ n \in d.from THEN d.layer ELSE @,
                !.realizes = RealizesAfter(t, d, n),
                !.aliases = IF d.op = "merge" /\ n \in d.to /\ node.kind = "feature"
                            THEN @ \cup UNION {{k} \cup t.nodes[k].aliases : k \in d.from}
                            ELSE @]

NodesAfter(t, d) ==
    [n \in DOMAIN t.nodes \ (IF Keeps(d) THEN {} ELSE OldNodes(d)) |-> NodeAfter(t, d, n)]

\* Mutant: a node that goes leaves no redirect.
RedirectsForgotten(t, d) ==
    LET live == {t.nodes[n].slug : n \in d.to}
        gone == (IF d.op = "merge" THEN live ELSE {}) \cup {s \in DOMAIN t.redirects : t.redirects[s] \in d.from}
    IN  IF d.op = "move" \/ Keeps(d) THEN t.redirects ELSE Minus(t.redirects, gone)

\* A merged slug leads to the survivor; a URL to a node that is gone is no redirect.
RedirectsAfter(t, d) ==
    IF d.op = "merge"
    THEN LET absorbed == {t.nodes[n].slug : n \in d.from}
             s == t.nodes[The(d.to)].slug
         IN  [k \in (DOMAIN t.redirects \cup absorbed) \ {s} |->
                 IF k \in absorbed \/ t.redirects[k] \in d.from THEN The(d.to)
                 ELSE t.redirects[k]]
    ELSE IF d.op = "remove" \/ (d.op = "split" /\ ~d.demote)
    THEN Minus(t.redirects, {s \in DOMAIN t.redirects : t.redirects[s] \in d.from})
    ELSE t.redirects

Applied(t, d, g) ==
    [nodes |-> NodesAfter(t, d), edges |-> EdgesAfter(t, d, g), rules |-> RulesAfter(t, d, g),
     ledger |-> t.ledger, redirects |-> RedirectsAfter(t, d)]

\* Dispositions apply in order, each against the tree the one before it left.
Step(s, d) ==
    LET g == Governing(s.tree, d)
    IN  IF s.refused \/ ~Checks(s.tree, d) \/ ~Governed(s.tree, d) \/ ~Admits(s.tree, d, g)
        THEN [s EXCEPT !.refused = TRUE]
        ELSE [tree |-> Applied(s.tree, d, g),
              pending |-> s.pending \cup Pending(s.tree, d, g),
              gated |-> s.gated \cup Gated(s.tree, d, g),
              refused |-> FALSE]

Interpreted(t, dispositions) ==
    LET after[i \in 0 .. Len(dispositions)] ==
            IF i = 0 THEN [tree |-> t, pending |-> {}, gated |-> {}, refused |-> FALSE]
            ELSE Step(after[i - 1], dispositions[i])
    IN  after[Len(dispositions)]

\* Every successor an anchor promised is there once the migration is applied.
Succeeded(s) ==
    \A p \in s.pending : \A a \in p.successors : \E f \in Facts(s.tree) : Anchor(f) = a

\* A fact that succeeds itself has not moved.
Entries(s, id) ==
    LET successors(p) == {f \in Facts(s.tree) : Anchor(f) \in p.successors}
    IN  {[fact |-> p.fact, successors |-> successors(p), by |-> id] :
            p \in {p \in s.pending : successors(p) # {p.fact}}}

\* A migration is its id with its dispositions.  A plan the interpreter refuses has no tree.
plan_migration(t, m) ==
    LET s == Interpreted(t, m.dispositions)
    IN  IF s.refused \/ ~Succeeded(s) THEN [refused |-> TRUE]
        ELSE [tree |-> [s.tree EXCEPT !.ledger = @ \cup Entries(s, m.id)],
              gated |-> s.gated \cap Records(s.tree), refused |-> FALSE]

------------------------------------------------------------------------------
(* The settled-theme guard (consolidate/guard.py) on one commit.             *)

\* diff_class says `restructuring` of a record both trees have.
Restructured(t, u, r) ==
    IF r \in DOMAIN t.nodes
    THEN LET x == t.nodes[r]  y == u.nodes[r]
         IN  \/ x.kind # y.kind
             \/ x.layer # y.layer
             \/ /\ x.realizes # y.realizes
                /\ Cardinality(y.realizes) <= Cardinality(x.realizes)
    ELSE IF r \in DOMAIN t.edges THEN t.edges[r] # u.edges[r]
    ELSE t.rules[r] # u.rules[r]

Unaccounted(t, u, r) == FactsOf(t, r) \ (Facts(u) \cup Tombstoned(u))

\* Mutant: the facts that go are not accounted for.
GuardsStructure(t, u, settled) ==
    \A r \in settled \cap Records(t) : r \in Records(u) /\ ~Restructured(t, u, r)

\* A settled record stays, keeps its structure, and loses no fact without a ledger line.
Guard(t, u, settled) ==
    \A r \in settled \cap Records(t) :
        /\ r \in Records(u)
        /\ ~Restructured(t, u, r)
        /\ Unaccounted(t, u, r) = {}
=============================================================================
