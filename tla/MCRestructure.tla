---------------------------- MODULE MCRestructure ----------------------------
(* A small store for TLC: three features, one concept, a quality and a rule.  *)
EXTENDS Migration, TLC

CONSTANTS a, b, d, c, q, r, t1, t2, sa, sb, sd, sc, sx

MintSlug == (a :> sa) @@ (b :> sb) @@ (d :> sd) @@ (c :> sc)

Written(n, kind, realizes) ==
    [kind |-> kind, text |-> t1, slug |-> MintSlug[n], layer |-> 1,
     realizes |-> realizes, aliases |-> {}]

\* Two of a's edges meet b's when a is merged into b; polarities agree or not.
Store(polarity) ==
    [nodes |-> (a :> Written(a, "feature", {c})) @@ (b :> Written(b, "feature", {}))
                   @@ (d :> Written(d, "feature", {})) @@ (c :> Written(c, "concept", {})),
     edges |-> (<<a, d>> :> "positive") @@ (<<b, d>> :> polarity) @@ (<<a, q>> :> "assessed"),
     rules |-> (r :> {a, d}), ledger |-> {}, redirects |-> (sx :> b)]

\* With a past: a's summary was corrected, b's was and was put back, and a claim was
\* tombstoned and minted again.
Veteran ==
    [Store("positive") EXCEPT
        !.redirects = sx :> a,
        !.ledger = {[fact |-> Fact(a, "summary", t2), by |-> 0,
                     successors |-> {Fact(a, "summary", t1)}],
                    [fact |-> Fact(b, "summary", t1), by |-> 0, successors |-> {}],
                    [fact |-> Fact(<<a, d>>, "exists", None), by |-> 0, successors |-> {}]}]

\* d was deleted and b took its slug, so that d, minted again, will share it.
Namesakes ==
    [Store("positive") EXCEPT
        !.nodes = Minus(@, {d}), !.nodes[b].slug = sd, !.edges = Minus(@, {<<a, d>>, <<b, d>>}),
        !.rules[r] = {a, b}, !.redirects = (sx :> b) @@ (sb :> b)]

Beginnings == {Store(p) : p \in Polarities} \cup {Veteran, Namesakes}
Minted == {a, b, d, c, <<a, d>>, r}

Op(op, from, to, demote, layer) ==
    [op |-> op, from |-> from, to |-> to, demote |-> demote, layer |-> layer, remap |-> {}]

Restructures ==
    {Op("remove", {a}, {}, FALSE, 1), Op("remove", {c}, {}, FALSE, 1),
     Op("move", {a}, {}, FALSE, 2),
     Op("merge", {a}, {b}, FALSE, 1), Op("merge", {b}, {a}, FALSE, 1),
     Op("split", {a}, {b, d}, TRUE, 1), Op("split", {a}, {b, d}, FALSE, 1)}
=============================================================================
