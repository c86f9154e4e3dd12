-------------------------------- MODULE Carving --------------------------------
(***************************************************************************)
(* R4's carve plan (research/draft): the developer's `draft` commands fill *)
(* it with the models' carves, debate, waive, drop and verify them, and    *)
(* mint them.  Every command reads the plan file, works for minutes or     *)
(* hours, and writes back the plan it holds; two terminals may do so at    *)
(* once, and a command may be killed.                                      *)
(*                                                                         *)
(* ThemeCycle has the statuses of a plan among the files of its cycle;     *)
(* here an entry has its contents, as far as a rule reads them.  Sign-off  *)
(* (in ThemeCycle), evidence binding, findings, warnings and the           *)
(* contradictions a debate mints are left out.                             *)
(***************************************************************************)
EXTENDS Naturals, FiniteSets, Sequences

CONSTANTS
    Catalogue,    \* per carve a model may write: what the rules read of it
    NodeOuts,     \* what the ontologist may return: sequences of carves
    EdgeOuts,     \* what the edge drafter may return: sequences of carves
    Splits,       \* what a moderator may split a carve into: sequences of carves
    Revision,     \* per carve, what a moderator may revise it to
    Others,       \* the concepts another theme may commit, as carves of its own
    Terminals,    \* where the developer types
    NoPlan,       \* before the first `draft atomize`
    MaxCarves,    \* the cap on a role's output, nodes or edges
    MaxEntries,   \* bound: entries of the plan
    Often,        \* bound: per command, how often it is typed
    MaxDebates,   \* bound: debates
    MaxRefusals,  \* bound: carves the verifier refuses, landings that fail
    MaxElsewhere  \* bound: nodes another theme commits

Lists == <<"dimensions", "qualities", "nodes", "edges", "quality_edges">>
GATED_LISTS == {"nodes", "edges", "quality_edges"}
Carves == DOMAIN Catalogue

\* Of a carve: the key of its entry and the id of its record; refs, the ids the record
\* names; whether it is a concept; whether layer and dimension fit its kind (shaped); the
\* survey's candidates (from); one source (single); the ontologist's own doubt (flagged).
ASSUME CatalogueAssumption ==
    \A c \in Carves : /\ DOMAIN Catalogue[c] = {"list", "key", "id", "refs", "concept", "shaped",
                                                "from", "single", "flagged"}
                      /\ Catalogue[c].list \in {Lists[i] : i \in 1 .. 5}
                      /\ Catalogue[c].concept \in BOOLEAN
                      /\ Catalogue[c].concept => Catalogue[c].list = "nodes"
                      /\ Catalogue[c].flagged \in BOOLEAN
\* Only features and edges name records: of a concept the plan keeps no `realizes` and no
\* dimension, and a dimension or a quality has no field for one (ontologist.py:270).
ASSUME RefsAssumption ==
    \A c \in Carves : Catalogue[c].concept \/ Catalogue[c].list \in {"dimensions", "qualities"}
                        => Catalogue[c].refs = {}
ASSUME OutputsAssumption ==
    LET of(lists) == Seq({c \in Carves : Catalogue[c].list \in lists})
    IN  /\ NodeOuts \subseteq of({"dimensions", "nodes"}) /\ Splits \subseteq of({"nodes"})
        /\ EdgeOuts \subseteq of({"qualities", "edges", "quality_edges"})
ASSUME CarveBoundsAssumption == MaxDebates \in Nat /\ MaxCarves \in Nat
ASSUME RevisionAssumption ==
    \A c \in DOMAIN Revision : /\ c \in Carves /\ Revision[c] \in Carves
                               /\ Catalogue[c].key = Catalogue[Revision[c]].key
                               /\ Catalogue[c].id = Catalogue[Revision[c]].id
                               /\ Catalogue[c].list = Catalogue[Revision[c]].list
                               /\ Catalogue[c].concept = Catalogue[Revision[c]].concept

VARIABLES
    plan,         \* research/drafts/<cycle>.yaml
    disk,         \* the store in the work tree: per id, the carve its record came from
    remote,       \* the ids with a record on origin/main
    debates,      \* research/debates/
    lost,         \* history: the debate records another of the same id has replaced
    gate,         \* whether the structure review is recorded
    terminal,     \* per terminal, the command it runs
    commands,     \* what is left of Often
    refusals,
    reported,     \* history: the ids some landing has reported landed
    admitted      \* history: the keys the verifier has admitted

debateVars == <<debates, lost>>
carvingVars == <<plan, disk, remote, debateVars, gate, terminal, commands, refusals, reported,
                 admitted>>

Triggers == {"flagged", "merged", "split", "single", "collision", "new"}
PLAN_STATUSES == {"proposed", "waived", "debated", "verified", "minted", "dropped"}
TERMINAL == {"minted", "dropped"}
PlanEntry == [carve : Carves, contested : SUBSET Triggers, debate : 0 .. MaxDebates,
          status : PLAN_STATUSES, verification : {"none", "admitted", "refused"},
          waived : BOOLEAN, blocked : BOOLEAN]

Of(e) == Catalogue[e.carve]
Idle == [pc |-> "idle"]
Indices(p) == 1 .. Len(p)

-----------------------------------------------------------------------------
(* The plan (plan.py, contested.py). *)

\* The n-th of S by the order R, and the subsequence of s at S.
Nth(S, R, n) == CHOOSE i \in S : Cardinality({j \in S : <<j, i>> \in R}) = n
Pick(s, S, R) == [n \in 1 .. Cardinality(S) |-> s[Nth(S, R, n)]]

\* The order of a list's members, and of a plan's entries: list by list (entries).
AsWritten(s) == {q \in Indices(s) \X Indices(s) : q[1] <= q[2]}
ListOf(c) == CHOOSE n \in 1 .. 5 : Lists[n] = Catalogue[c].list
Sorted(s, rank) ==
    {q \in AsWritten(s) : rank[q[1]] = rank[q[2]]}
        \cup {q \in Indices(s) \X Indices(s) : rank[q[1]] < rank[q[2]]}
PlanOrder(p) == Sorted(p, [i \in Indices(p) |-> ListOf(p[i].carve)])

Named(p, key) == {i \in Indices(p) : Of(p[i]).key = key}
find_entry(p, key) == p[Nth(Named(p, key), PlanOrder(p), 1)]

\* Every entry with the key.
set_entry(p, key, new) == [i \in Indices(p) |-> IF i \in Named(p, key) THEN new[i] ELSE p[i]]

Drafted(c) == [carve |-> c, contested |-> IF Catalogue[c].flagged THEN {"flagged"} ELSE {},
               debate |-> 0, status |-> "proposed", verification |-> "none",
               waived |-> FALSE, blocked |-> FALSE]

Proposed(p) == {Of(p[i]).id : i \in {j \in Indices(p) : Of(p[j]).list \in {"dimensions", "qualities"}}}

\* What an entry raises, and what its key is contested for.
Raised(p, i) ==
    LET entry == p[i] carve == Of(entry)
        raised(trigger, when) == IF when THEN {trigger} ELSE {}
    IN  raised("flagged", "flagged" \in entry.contested)
        \cup raised("merged", Cardinality(carve.from) > 1)
        \cup raised("split", \E k \in Named(p, carve.key) : \E j \in Indices(p) \ {k} :
                                 Of(p[k]).from \cap Of(p[j]).from # {})
        \cup raised("single", carve.list \in GATED_LISTS /\ carve.single)
        \cup raised("collision", carve.list = "nodes" /\ carve.id \in DOMAIN disk)
        \cup raised("new", carve.list \in {"dimensions", "qualities"}
                           \/ (carve.list \in {"nodes", "quality_edges"}
                               /\ carve.refs \cap Proposed(p) # {}))
contested_triggers(p, key) ==
    LET asked == {i \in Named(p, key) : ~ p[i].blocked /\ p[i].status \notin TERMINAL}
        all == UNION {Raised(p, i) : i \in asked}
    IN  IF all = {"single"} THEN {} ELSE all

mark_contested(p) ==
    [i \in Indices(p) |->
        IF p[i].status \in TERMINAL THEN p[i]
        ELSE [p[i] EXCEPT !.contested = contested_triggers(p, Of(p[i]).key)]]

open_carves(p) ==
    {Of(p[i]).key : i \in {j \in Indices(p) :
        p[j].contested # {} /\ p[j].debate = 0 /\ ~ p[j].waived
            /\ p[j].status \notin TERMINAL \cup {"waived"} /\ ~ p[j].blocked}}

-----------------------------------------------------------------------------
(* What the models return, cut to the cap (trim.py) and checked. *)

Counted(out, counted) == {i \in Indices(out) : Catalogue[out[i]].list \in counted}
Without(out, cut) == Pick(out, Indices(out) \ cut, AsWritten(out))

\* Any MaxCarves of what is over the cap: the trimmer's choice.
trim_to_cap(out, counted) ==
    LET over == Counted(out, counted)
    IN  IF Cardinality(over) <= MaxCarves THEN {out}
        ELSE {Without(out, cut) : cut \in {S \in SUBSET over : Cardinality(over \ S) = MaxCarves}}

Members(s) == {s[i] : i \in Indices(s)}
Ids(S) == {Catalogue[c].id : c \in S}
Committed(S) == {id \in DOMAIN disk : disk[id] \in S}
OfList(name) == {c \in Carves : Catalogue[c].list = name}
Concepts == {c \in OfList("nodes") : Catalogue[c].concept}
FeatureCarves == OfList("nodes") \ Concepts

\* ontologist.py _check_shape: a defect refuses the output, a misfit blocks its carve.
NodesClean(out) ==
    /\ Ids(Members(out)) \cap DOMAIN disk = {}
    /\ \A i, j \in Indices(out) : i # j => Catalogue[out[i]].key # Catalogue[out[j]].key
NodeMisfits(out) ==
    LET named == Concepts \cup OfList("dimensions")
    IN  {c \in Members(out) : /\ Catalogue[c].list = "nodes"
                              /\ \/ ~ Catalogue[c].shaped
                                 \/ ~ Catalogue[c].refs \subseteq
                                         Ids(Members(out) \cap named) \cup Committed(named)}

\* edges.py: what may be named, and check_shape.
ViewOf(p, kind) ==
    Committed(kind) \cup
        IF gate THEN {}
        ELSE {Of(p[i]).id : i \in {j \in Indices(p) : /\ p[j].carve \in kind
                                                      /\ ~ p[j].blocked /\ p[j].status # "dropped"}}
EdgesClean(p, out) ==
    LET nodes == ViewOf(p, FeatureCarves) \cup ViewOf(p, Concepts)
        quality == Committed(OfList("qualities")) \cup Ids(Members(out) \cap OfList("qualities"))
    IN  \A c \in Members(out) :
          /\ Catalogue[c].list = "edges" => Catalogue[c].refs \subseteq nodes
          /\ Catalogue[c].list = "quality_edges" =>
                 Catalogue[c].refs \subseteq ViewOf(p, FeatureCarves) \cup quality
          /\ Catalogue[c].list = "qualities" => Catalogue[c].id \notin DOMAIN disk
EdgeMisfits(p, out) ==
    {c \in Members(out) : /\ Catalogue[c].list = "edges"
                          /\ Catalogue[c].refs \cap ViewOf(p, Concepts) # {}}

block_entries(out, misfits) ==
    [i \in Indices(out) |-> [Drafted(out[i]) EXCEPT !.blocked = out[i] \in misfits]]

-----------------------------------------------------------------------------
(* Commands. *)

Turn(t, state) == terminal' = [terminal EXCEPT ![t] = state]
In(t, pc) == terminal[t].pc = pc
StoreUnchanged == UNCHANGED <<disk, remote, gate, reported>>
Refusing(n) == refusals + n <= MaxRefusals /\ refusals' = refusals + n

CarvingInit ==
    /\ plan = NoPlan /\ disk = [id \in {} |-> ""] /\ remote = {} /\ debates = <<>> /\ lost = {}
    /\ gate \in BOOLEAN
    /\ terminal = [t \in Terminals |-> Idle] /\ commands = Often /\ refusals = 0
    /\ reported = {} /\ admitted = {}

Types(name) == commands[name] > 0 /\ commands' = [commands EXCEPT ![name] = @ - 1]

\* A command begins: it holds the plan it read.  One with nothing to do is left out.
Load(t, pc, items) ==
    /\ In(t, "idle") /\ Types(pc)
    /\ Turn(t, [pc |-> pc, plan |-> plan, items |-> items, landed |-> {}, taken |-> <<>>])
    /\ UNCHANGED <<plan, debateVars, refusals, admitted>> /\ StoreUnchanged

StartEdging(t) == plan # NoPlan /\ Load(t, "edging", <<>>)

\* A provider's error, unusable output, a refusal or a kill: the plan file stays.
Stop(t) ==
    /\ ~ In(t, "idle")
    /\ Turn(t, Idle)
    /\ UNCHANGED <<plan, debateVars, commands, refusals, admitted>> /\ StoreUnchanged

\* `draft atomize` reads no plan, and replaces the one there is.
run_ontologist(t) ==
    /\ In(t, "idle") /\ Types("atomizing")
    /\ \E out \in NodeOuts : \E kept \in trim_to_cap(out, {"nodes"}) :
          /\ NodesClean(kept)
          /\ plan' = mark_contested(block_entries(kept, NodeMisfits(kept)))
    /\ UNCHANGED <<debateVars, terminal, refusals, admitted>> /\ StoreUnchanged

run_edge_drafter(t) ==
    /\ In(t, "edging")
    /\ \E out \in EdgeOuts : \E kept \in trim_to_cap(out, {"edges", "quality_edges"}) :
          LET p == terminal[t].plan
          IN  /\ EdgesClean(p, kept) /\ Len(p) + Len(kept) <= MaxEntries
              /\ plan' = mark_contested(p \o block_entries(kept, EdgeMisfits(p, kept)))
    /\ Turn(t, Idle)
    /\ UNCHANGED <<debateVars, commands, refusals, admitted>> /\ StoreUnchanged

Debatable(p, key) ==
    Named(p, key) # {} /\ find_entry(p, key).contested # {} /\ find_entry(p, key).debate = 0

StartDebating(t) ==
    /\ plan # NoPlan /\ \E i \in Indices(plan) : Debatable(plan, Of(plan[i]).key)
    /\ Load(t, "debating", <<>>)

\* One sequence of ids, counted in the directory.
next_debate_id(p) == Len(debates) + 1

\* What a resolution makes of the plan (apply_resolution), one operator each.
Settle(p, key, id, status) ==
    set_entry(p, key, [i \in Named(p, key) |-> [p[i] EXCEPT !.status = status, !.debate = id]])
Revise(p, key, id) ==
    LET carve == Revision[find_entry(p, key).carve]
    IN  set_entry(p, key, [i \in Named(p, key) |->
            [p[i] EXCEPT !.status = "debated", !.debate = id, !.carve = carve]])
\* Mutant: a replacement starts from the carve it replaces.
split_copied(c, id, parent) == [parent EXCEPT !.carve = c, !.contested = {}, !.debate = id]

split_entry(c, id, parent) == [Drafted(c) EXCEPT !.contested = {}, !.debate = id, !.status = "debated"]
Split(p, key, id, into) ==
    Settle(p, key, id, "dropped")
        \o [i \in Indices(into) |-> split_entry(into[i], id, find_entry(p, key))]

Resolutions(p, key, id) ==
    {[to |-> Settle(p, key, id, s), named |-> {}] : s \in {"debated", "dropped", "proposed"}}
    \cup {[to |-> Revise(p, key, id), named |-> {}] :
             c \in {find_entry(p, key).carve} \cap DOMAIN Revision}
    \cup {[to |-> Split(p, key, id, into), named |-> {Catalogue[into[i]].key : i \in Indices(into)}] :
             into \in {s \in Splits : Of(find_entry(p, key)).list = "nodes" /\ Len(s) >= 2
                                          /\ Len(p) + Len(s) <= MaxEntries}}

\* The moderator has spoken: the debate takes the next id.
run_debate(t, key) ==
    /\ In(t, "debating")
    /\ Debatable(terminal[t].plan, key)
    /\ LET id == next_debate_id(terminal[t].plan)
       IN  /\ id <= MaxDebates
           /\ Turn(t, [terminal[t] EXCEPT !.pc = "resolving", !.taken = <<key, id>>])
    /\ UNCHANGED <<plan, debateVars, commands, refusals, admitted>> /\ StoreUnchanged

\* Its record is saved under the id, over one another terminal has saved there since; the
\* plan is saved after it.
save_debate(t) ==
    /\ In(t, "resolving")
    /\ LET key == terminal[t].taken[1]
           id == terminal[t].taken[2]
       IN  \E r \in Resolutions(terminal[t].plan, key, id) :
             /\ debates' = [i \in Indices(debates) \cup {id} |->
                               IF i = id THEN [target |-> key, named |-> r.named] ELSE debates[i]]
             /\ lost' = IF id \in Indices(debates) THEN lost \cup {<<id, debates[id]>>} ELSE lost
             /\ Turn(t, [terminal[t] EXCEPT !.plan = r.to, !.pc = "debated", !.taken = <<>>])
    /\ UNCHANGED <<plan, commands, refusals, admitted>> /\ StoreUnchanged

\* The loop over the carves named goes on with the plan it has just saved.
SaveDebated(t) ==
    /\ In(t, "debated")
    /\ plan' = terminal[t].plan
    /\ Turn(t, [terminal[t] EXCEPT !.pc = "debating"])
    /\ UNCHANGED <<debateVars, commands, refusals, admitted>> /\ StoreUnchanged

Ruling(key, new) ==
    /\ plan # NoPlan /\ Types("ruling")
    /\ Named(plan, key) # {}
    /\ plan' = set_entry(plan, key, new)
    /\ UNCHANGED <<debateVars, terminal, refusals, admitted>> /\ StoreUnchanged

waive(key) ==
    /\ Ruling(key, [i \in Named(plan, key) |-> [plan[i] EXCEPT !.status = "waived", !.waived = TRUE]])
    /\ LET e == find_entry(plan, key)
       IN  e.contested # {} /\ (e.debate # 0 => e.status = "proposed")

drop(key) ==
    /\ Ruling(key, [i \in Named(plan, key) |-> [plan[i] EXCEPT !.status = "dropped"]])
    /\ find_entry(plan, key).status # "minted"

Ready(e) ==
    /\ ~ e.blocked
    /\ e.status \in {"debated", "waived"} \/ (e.status = "proposed" /\ e.contested = {})

ReadyIn(p) == {i \in Indices(p) : Of(p[i]).list \in GATED_LISTS /\ Ready(p[i])}
StartVerifying(t) == plan # NoPlan /\ ReadyIn(plan) # {} /\ Load(t, "verifying", <<>>)

\* Each ready entry has its verdict; the last of a key's stamps every entry of the key.
verify_plan(t, passed) ==
    /\ In(t, "verifying")
    /\ LET p == terminal[t].plan
           ready == ReadyIn(p)
           judged(i) == {j \in ready : Of(p[j]).key = Of(p[i]).key}
           last(i) == Nth(judged(i), PlanOrder(p), Cardinality(judged(i)))
       IN  /\ passed \subseteq ready /\ Refusing(Cardinality(ready \ passed))
           /\ plan' = [i \in Indices(p) |->
                  IF judged(i) = {} THEN p[i]
                  ELSE [p[i] EXCEPT !.verification = IF last(i) \in passed THEN "admitted" ELSE "refused",
                                    !.status = IF judged(i) \cap passed # {} THEN "verified" ELSE @]]
           /\ admitted' = admitted \cup {Of(p[i]).key : i \in passed}
    /\ Turn(t, Idle)
    /\ UNCHANGED <<debateVars, commands>> /\ StoreUnchanged

-----------------------------------------------------------------------------
(* Minting (minting.py, land.py). *)

Undebated(e) ==
    /\ ~ e.blocked /\ e.status \notin TERMINAL
    /\ e.contested # {} /\ e.debate = 0 /\ ~ e.waived
NotAdmissible(e) ==
    /\ ~ e.blocked /\ e.status \notin TERMINAL
    /\ Of(e).list \in GATED_LISTS /\ e.verification = "refused"
Mintable(e) ==
    /\ ~ e.blocked /\ e.status \notin TERMINAL
    /\ Of(e).list \in GATED_LISTS => e.verification = "admitted"
MintableIn(p) == {i \in Indices(p) : Mintable(p[i])}

\* Mutant: nodes in the plan's order.
mint_items_as_carved(p) == Pick(p, MintableIn(p), PlanOrder(p))

\* List by list, and of the nodes the concepts first.
MintRank(c) == 2 * ListOf(c) + IF Catalogue[c].concept THEN 0 ELSE 1
MintOrder(p) == Sorted(p, [i \in Indices(p) |-> MintRank(p[i].carve)])
mint_items(p) == Pick(p, MintableIn(p), MintOrder(p))

\* The keys of what mint_items returned, in the same order.
KeysOf(items) == [n \in Indices(items) |-> Of(items[n]).key]
\* Mutant: in the plan's order.
minted_keys_as_carved(p) == KeysOf(Pick(p, MintableIn(p), AsWritten(p)))

minted_keys(p) == KeysOf(mint_items(p))

StartMint(t) ==
    /\ plan # NoPlan /\ gate
    /\ \A i \in Indices(plan) : ~ Undebated(plan[i]) /\ ~ NotAdmissible(plan[i])
    /\ mint_items(plan) # <<>> /\ Load(t, "minting", mint_items(plan))

StoreValid(store) == \A id \in DOMAIN store : Catalogue[store[id]].refs \subseteq DOMAIN store

\* A record is written and committed whatever becomes of it; a push takes all of HEAD.
\* A text that HEAD has already is reported landed.
MintItem(t, n, result) ==
    /\ In(t, "minting") /\ n \in Indices(terminal[t].items)
    /\ n = 1 + Cardinality(terminal[t].landed)
    /\ LET e == terminal[t].items[n]
           id == Of(e).id
           known == id \in DOMAIN disk /\ disk[id] = e.carve
           store == [i \in DOMAIN disk \cup {id} |-> IF i = id THEN e.carve ELSE disk[i]]
       IN  /\ disk' = store
           /\ known => result = "landed"
           /\ Refusing(IF result = "refused" THEN 1 ELSE 0)
           /\ ~ known /\ result = "landed" => StoreValid(store)
           /\ remote' = IF result = "landed" /\ ~ known THEN DOMAIN store ELSE remote
           /\ reported' = IF result = "landed" THEN reported \cup {id} ELSE reported
    /\ Turn(t, [terminal[t] EXCEPT !.landed = @ \cup {<<n, result>>}])
    /\ UNCHANGED <<plan, debateVars, gate, commands, admitted>>

\* The results are zipped back onto the plan the command read.
EndMint(t) ==
    /\ In(t, "minting") /\ Cardinality(terminal[t].landed) = Len(terminal[t].items)
    /\ LET p == terminal[t].plan
           minted == {minted_keys(p)[n] : n \in {m \in Indices(terminal[t].items) :
                                                     <<m, "landed">> \in terminal[t].landed}}
       IN  plan' = [i \in Indices(p) |-> IF Of(p[i]).key \in minted
                                         THEN [p[i] EXCEPT !.status = "minted"] ELSE p[i]]
    /\ Turn(t, Idle)
    /\ UNCHANGED <<debateVars, commands, refusals, admitted>> /\ StoreUnchanged

-----------------------------------------------------------------------------
\* What a draft-only plan must be to close: a blocked carve is no obstacle.
DraftCloses(p) ==
    /\ p # <<>> /\ open_carves(p) = {}
    /\ \A i \in Indices(p) : p[i].status \notin TERMINAL /\ ~ p[i].blocked =>
          /\ p[i].debate # 0 => p[i].status # "proposed"
          /\ Of(p[i]).list \in GATED_LISTS => p[i].verification = "admitted"

\* The structure review is recorded, over a batch of closed drafts.
Release ==
    /\ ~ gate /\ plan # NoPlan /\ DraftCloses(plan)
    /\ gate' = TRUE
    /\ UNCHANGED <<plan, disk, remote, debateVars, terminal, commands, refusals, reported, admitted>>

\* Another theme commits a node.
Elsewhere(c) ==
    /\ Catalogue[c].id \notin DOMAIN disk
    /\ Cardinality(remote \ reported) < MaxElsewhere
    /\ disk' = [i \in DOMAIN disk \cup {Catalogue[c].id} |->
                   IF i = Catalogue[c].id THEN c ELSE disk[i]]
    /\ remote' = remote \cup {Catalogue[c].id}
    /\ UNCHANGED <<plan, debateVars, gate, terminal, commands, refusals, reported, admitted>>

CarveKeys == {Catalogue[c].key : c \in Carves}

CarvingNext ==
    \/ \E t \in Terminals :
          \/ StartEdging(t) \/ StartDebating(t) \/ StartVerifying(t) \/ StartMint(t) \/ Stop(t)
          \/ run_ontologist(t) \/ run_edge_drafter(t)
          \/ \E key \in CarveKeys : run_debate(t, key)
          \/ save_debate(t) \/ SaveDebated(t)
          \/ \E passed \in SUBSET (1 .. MaxEntries) : verify_plan(t, passed)
          \/ EndMint(t)
          \/ \E n \in 1 .. MaxEntries, result \in {"landed", "refused"} : MintItem(t, n, result)
    \/ \E key \in CarveKeys : waive(key) \/ drop(key)
    \/ Release
    \/ \E c \in Others : Elsewhere(c)

-----------------------------------------------------------------------------
IsPlan(p) == \A i \in Indices(p) : p[i] \in PlanEntry
CarvingOK ==
    /\ plan = NoPlan \/ IsPlan(plan)
    /\ \A t \in Terminals : ~ In(t, "idle") => IsPlan(terminal[t].plan)
    /\ Len(debates) <= MaxDebates

InPlan == IF plan = NoPlan THEN {} ELSE {plan[i] : i \in Indices(plan)}

\* The plan says `minted` of a carve only when a landing has reported its record landed
\* (minting.py:217), whichever of a batch were refused and whatever a terminal overwrote.
MintedWasReported == \A e \in InPlan : e.status = "minted" => Of(e).id \in reported

\* The carves a debate has written, which no drafter's check reads; and the ids of one kind
\* of record: nothing keeps a model from giving a concept and a feature one id.
Redrafted == {Revision[c] : c \in DOMAIN Revision} \cup UNION {Members(into) : into \in Splits}
OneKind(id) ==
    \A c, d \in Carves : Catalogue[c].id = id /\ Catalogue[d].id = id => MintRank(c) = MintRank(d)

\* No record of a batch comes before one it names (minting.py:165): a batch that holds all
\* a plan needs never leaves the clone's store with a dangling reference of its own order.
\* Excepted are the carves of a debate, and a name that two kinds of record go by.
OrderSuffices ==
    \A t \in Terminals : In(t, "minting") =>
        LET items == terminal[t].items
        IN  \A i, j \in Indices(items) :
                /\ i < j /\ Of(items[j]).id \in Of(items[i]).refs
                /\ items[i].carve \notin Redrafted /\ OneKind(Of(items[j]).id)
                => Of(items[j]).id \in DOMAIN disk

\* The debate an entry names is on file and about that entry, or split it off, unless the
\* record of a second terminal, which took the id at the same time, has replaced it
\* (debate_record.py:55): through re-atomizing, kills, and plans that overwrite each other.
OnFile(id) == {debates[id]} \cup {x[2] : x \in {y \in lost : y[1] = id}}
DebatesOnFile ==
    \A e \in InPlan : e.debate # 0 =>
        /\ e.debate <= Len(debates)
        /\ \E d \in OnFile(e.debate) : Of(e).key \in {d.target} \cup d.named

\* A carve the structure has no place for is never debated, verified or minted
\* (structure.py:6), whoever names its key, unless another carve has taken its key.
Sole(p, i) == \A j \in Named(p, Of(p[i]).key) : p[j].blocked
BlockedStaysOut ==
    plan # NoPlan => \A i \in Indices(plan) : Sole(plan, i) =>
        /\ plan[i].debate = 0 /\ plan[i].verification = "none" /\ ~ plan[i].waived
        /\ plan[i].status \in {"proposed", "dropped"}

\* What a proof supposes of the carves, which no schema or check of the code ensures: one
\* key stands for one id.
OneIdEach ==
    \A c, d \in Carves : Catalogue[c].key = Catalogue[d].key => Catalogue[c].id = Catalogue[d].id

\* A plan's references hold whatever overwrote it: its batches are in order, its debates
\* are on file, and its blocked carves go nowhere (minting.py:165, debate_record.py:55).
PlanSound == CarvingOK /\ OrderSuffices /\ DebatesOnFile /\ BlockedStaysOut

\* Of a node or an edge nothing is landed unless the verifier has admitted a carve of its
\* key (minting.py:136), a carve split off in a debate included.
GateIsPassed ==
    [][\A t \in Terminals, n \in 1 .. MaxEntries :
          MintItem(t, n, "landed") =>
              LET item == Of(terminal[t].items[n])
              IN  item.list \in GATED_LISTS => item.key \in admitted]_carvingVars
=============================================================================
