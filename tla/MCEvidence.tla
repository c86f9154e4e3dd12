------------------------------ MODULE MCEvidence ------------------------------
(* Small instances of the modules around the sourcing queue.  A behaviour is   *)
(* about one of them; the others stay where they start, so that the run        *)
(* explores the sum of their states and not the product.                       *)
EXTENDS Verification, Currency, MCChunking, TLC

CONSTANTS s, t, u, f, g, x, y, short, n, m, lines, pages_, b1, b2, b3, nightly, gate

Citing == (f :> <<s, t>>) @@ (g :> <<t>>)
Tiers == (s :> "A") @@ (t :> "C") @@ (u :> "B")
NoLocators == {<<y, lines>>}

VARIABLE focus

\* The verifiers start with no source acquired or with both of theirs.
Acquired(held) ==
    /\ originals = [src \in Sources |-> [name \in Names |->
                       IF src \in held /\ name = n THEN x ELSE None]]
    /\ manifest = [src \in Sources |->
                       IF src \in held THEN [original |-> n, hash |-> x, kinds |-> None,
                                            floor |-> "unset"]
                       ELSE None]

\* In earlier nights t has been bounced until the budget was spent.
Spent == <<[kind |-> "pending-source", source |-> t, reason |-> "partially-ingested",
                 bounces |-> Budget, open |-> TRUE]>>

EvidenceInit ==
    /\ focus \in {"acquire", "verify", "currency", "adopt", "chunk"}
    /\ CurrencyInit /\ page[t] = b1 /\ page[u] = b1 /\ (page[s] = b1 \/ focus = "currency")
    /\ VerificationInit
    /\ ChunkingInit /\ (focus = "chunk" \/ (paged /\ Len(kinds) = 1))
    /\ NothingStored
    /\ \/ NothingAcquired /\ queue = <<>>
       \/ focus = "verify" /\ queue = <<>> /\ Acquired({s, t})
       \/ focus = "verify" /\ queue = Spent /\ NothingAcquired

\* The sources do not meet in ingestion: one is enough.
OneSource == \A src \in {t, u} : last'[src] = last[src] /\ originals'[src] = originals[src]

\* Nor do their pages, nor a page and the records that are superseded.
OnePage ==
    /\ \A src \in {t, u} :
           page'[src] = page[src] /\ linkJob'.source # src /\ editionJob'.source # src
    /\ UNCHANGED records

EvidenceNext ==
    /\ UNCHANGED focus /\ (focus # "chunk" => UNCHANGED chunkingVars)
    /\ \/ focus = "acquire" /\ IngestionNext /\ OneSource
             /\ UNCHANGED <<verificationVars, currencyVars>>
       \/ /\ focus = "verify" /\ UNCHANGED currencyVars
          /\ \/ \E src \in {s, t} : ingest_source(src, None, "unset")
                                    /\ UNCHANGED verificationVars
             \/ Verify /\ UNCHANGED ingestionVars
             \/ \E p \in Verifiers : KillVerifier(p)
       \/ /\ UNCHANGED <<ingestionVars, verificationVars>>
          /\ \/ focus = "currency" /\ CurrencyNext /\ OnePage
             \/ focus = "adopt" /\ CurrencyNext /\ UNCHANGED <<pages, linkVars, editionVars>>
       \/ focus = "chunk" /\ ChunkingNext
             /\ UNCHANGED <<queue, ingestionVars, verificationVars, currencyVars>>

EvidenceSpec == EvidenceInit /\ [][EvidenceNext]_<<queue, ingestionVars, verificationVars,
                                                  currencyVars, chunkingVars, focus>>
=============================================================================
