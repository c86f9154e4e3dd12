------------------------------ MODULE MCResearch ------------------------------
(* Small instances of the modules of research.  A behaviour is about one of them;    *)
(* the others stay where they start, so that the run explores the sum of their        *)
(* states and not the product.                                                        *)
EXTENDS Judgement, Controversy, Carving, RealityCheck, TLC

CONSTANTS s, t, u, v, f, f2, g, summary, note, nightly, command, here, there

TierOf == (s :> "A") @@ (t :> "C") @@ (u :> "B")
Strangers == {<<s, u>>, <<u, s>>, <<t, u>>, <<u, t>>}

\* A citation whose stages all pass.
Good(out) == [known |-> TRUE, registry |-> FALSE, shaped |-> TRUE, declared |-> TRUE,
              withinCap |-> TRUE, ingested |-> TRUE, resolves |-> TRUE, quoted |-> FALSE,
              ratio |-> "high", adjudged |-> "ocr-noise", elsewhere |-> FALSE,
              sampled |-> FALSE, mandatory |-> FALSE, hasSince |-> FALSE,
              primary |-> out, escalated |-> out, second |-> out]

Said(kind, status) == [kind |-> kind, status |-> status]
Out(as) == [assertions |-> as, since |-> NoValue]
Outs ==
    {Out({}), Out({Said("qualifier", "supported")}), Out({Said("presence", "supported")}),
     Out({Said("presence", "not-supported")}), Out({Said("presence", "contradicted")}),
     Out({Said("presence", "supported"), Said("qualifier", "not-supported")}),
     [assertions |-> {Said("presence", "supported"), Said("since", "supported")},
      since |-> "as-of-supported"]}
Supported == [assertions |-> {Said("presence", "supported")}, since |-> NoValue]

\* Every way to end early, every way the quote may be found, every reading of the models.
Early ==
    {[Good(Supported) EXCEPT !.known = k, !.registry = r, !.shaped = sh, !.declared = d,
                             !.withinCap = c, !.ingested = i, !.resolves = l] :
        k \in BOOLEAN, r \in BOOLEAN, sh \in BOOLEAN, d \in BOOLEAN, c \in BOOLEAN,
        i \in BOOLEAN, l \in BOOLEAN}
Quotes ==
    {[Good(out) EXCEPT !.quoted = TRUE, !.withinCap = c, !.ratio = r, !.adjudged = a,
                       !.elsewhere = e, !.escalated = Supported] :
        out \in Outs, c \in BOOLEAN, r \in {"high", "middle", "low"},
        a \in {"ocr-noise", "fabrication"}, e \in BOOLEAN}
Readings ==
    {[Good(p) EXCEPT !.escalated = e, !.second = o, !.sampled = sa, !.mandatory = ma,
                     !.hasSince = h] :
        p \in Outs, e \in Outs, o \in Outs, sa \in BOOLEAN, ma \in BOOLEAN, h \in BOOLEAN}
AllCases == Early \cup Quotes \cup Readings

\* A note, what a correction makes of it or a second note, and the fact beside them.
AnchorKeys == (f :> note) @@ (f2 :> note) @@ (g :> summary)
Backed == {[source |-> s, verdict |-> "supported", since |-> NoValue]}
Fought == Backed \cup {[source |-> u, verdict |-> "contradicted", since |-> NoValue]}
LedgerRows == {{}, Fought}
FactOrder == <<f, f2, g>>
Texts == {{f, g}, {f2, g}, {f, f2}}

\* The carves of a plan: a dimension and a feature on it, a feature and the concept it
\* realizes, what they may become, and edges between them.
Carve(list, id, refs) ==
    [list |-> list, key |-> id, id |-> id, refs |-> refs, concept |-> FALSE, shaped |-> TRUE,
     from |-> {id}, single |-> FALSE, flagged |-> FALSE]
AConcept(id) == [Carve("nodes", id, {}) EXCEPT !.concept = TRUE]
Terms ==
    ("axis" :> Carve("dimensions", "axis", {}))
    @@ ("static" :> Carve("nodes", "static", {"axis"}))
    @@ ("static2" :> [Carve("nodes", "static", {"axis"}) EXCEPT !.single = TRUE])
    @@ ("typing" :> AConcept("typing"))
    @@ ("theirs" :> AConcept("typing"))
    @@ ("gradual" :> [Carve("nodes", "gradual", {"typing"}) EXCEPT !.flagged = TRUE])
    @@ ("odd" :> [Carve("nodes", "odd", {}) EXCEPT !.shaped = FALSE, !.flagged = TRUE])
    @@ ("left" :> Carve("nodes", "left", {"typing"}))
    @@ ("right" :> Carve("nodes", "right", {}))
    @@ ("safety" :> Carve("qualities", "safety", {}))
    @@ ("helps" :> Carve("quality_edges", "helps", {"gradual", "safety"}))
    @@ ("misfit" :> Carve("edges", "misfit", {"gradual", "typing"}))
    @@ ("needs" :> Carve("edges", "needs", {"gradual", "static"}))
Ontologies == {<<"axis", "static">>, <<"gradual", "typing", "odd">>}
Edgings == {<<"safety", "helps", "misfit">>}
Halves == {<<"left", "right">>}
Revised == "static" :> "static2"
Typed == [atomizing |-> 1, edging |-> 1, debating |-> 2, ruling |-> 1, verifying |-> 1, minting |-> 1]

\* Two features of one exclusive dimension, one of a dimension that reaches one language.
Dimensions ==
    {[members |-> {"dynamic", "static"}, dimension |-> TRUE, exclusive |-> TRUE,
      reaches |-> {"python", "c"}],
     [members |-> {"macros", "templates"}, dimension |-> TRUE, exclusive |-> FALSE,
      reaches |-> {"c"}]}
Sheet(dynamic, static, macros) ==
    [feature \in {"dynamic", "static", "macros"} |->
        CASE feature = "dynamic" -> dynamic [] feature = "static" -> static
          [] feature = "macros" -> macros]
Sheets == {Sheet("present", "present", "unsourced"), Sheet("absent", "unmappable", "unmappable")}

ConsoleSymmetry == Permutations(Consoles)

\* A constant whose value is a name is evaluated once.
Tiers == TierOf
Unrelated == Strangers
KeyOf == AnchorKeys
Carved == Terms

\* Landings of one record that take turns, in a world that moves; or landings that cross, in
\* one that stands still.  Facts are assessed by one worker at a time.
InTurn == crossed' = {} /\ pull' # "crossed"
AtOnce == changes' = 0 /\ alone' = {}
OneAssesses == Cardinality({w \in Workers : worker'[w].pc \in {"assess", "review"}}) <= 1

\* Two debates at one terminal, whose rulings are typed between the commands; or two
\* terminals and one debate; or a debate at either terminal at once, under one id.
OneTerminal ==
    /\ Cardinality({x \in Terminals : terminal'[x] # Idle}) <= 1
    /\ commands'.ruling # commands.ruling => \A x \in Terminals : terminal[x] = Idle
OneDebate == Len(debates') <= 1
OneDebater == commands'.debating >= 1
OnlyDebates == \A name \in {"ruling", "verifying", "minting"} : commands'[name] = Often[name]

\* The premise of a theorem about Carving is true of the carves above.
ASSUME InstanceAssumption == OneIdEach

VARIABLE focus

ResearchInit ==
    /\ focus \in {"judge", "assess", "cross", "carve", "race", "debate", "answer"}
    /\ JudgementInit /\ (focus = "judge" \/ claim = [hasSince |-> FALSE, absent |-> FALSE])
    /\ ControversyInit
    /\ CarvingInit /\ (focus = "carve" \/ gate)
    /\ RealityInit

ResearchNext ==
    /\ UNCHANGED focus
    /\ \/ focus = "judge" /\ JudgementNext
             /\ UNCHANGED <<controversyVars, carvingVars, realityVars>>
       \/ /\ focus \in {"assess", "cross"} /\ ControversyNext /\ OneAssesses
          /\ IF focus = "assess" THEN InTurn ELSE AtOnce
          /\ UNCHANGED <<judgementVars, carvingVars, realityVars>>
       \/ /\ focus \in {"carve", "race", "debate"} /\ CarvingNext
          /\ CASE focus = "carve" -> OneTerminal /\ OneDebater
               [] focus = "race" -> OneDebate /\ OneDebater
               [] focus = "debate" -> OneDebate /\ OnlyDebates
          /\ UNCHANGED <<judgementVars, controversyVars, realityVars>>
       \/ focus = "answer" /\ RealityNext
             /\ UNCHANGED <<judgementVars, controversyVars, carvingVars>>

ResearchSpec == ResearchInit /\ [][ResearchNext]_<<judgementVars, controversyVars, carvingVars,
                                                    realityVars, focus>>
=============================================================================
