---------------------------- MODULE EvidenceProofs ----------------------------
(***************************************************************************)
(* What ingestion, verification and the currency jobs guarantee for any    *)
(* sources, texts, facts and pages while they share the sourcing queue:    *)
(* refused sources stay visible, drift is filed, findings do not stack,    *)
(* what a run skips is current, bounces and issues stay bounded, what is   *)
(* done is on main, and the ledger of superseded sources follows the       *)
(* records.  And what the chunker guarantees for any document.             *)
(***************************************************************************)
EXTENDS Verification, Currency, Chunking, FiniteSetTheorems, SequenceTheorems,
        WellFoundedInduction, TLAPS

\* Verification has ingestion with it (its Init and Next); the currency jobs beside them.
EvidenceInit == Init /\ CurrencyInit
EvidenceNext ==
    \/ Next /\ UNCHANGED currencyVars
    \/ CurrencyNext /\ UNCHANGED <<ingestionVars, verificationVars>>
evidenceVars == <<queue, ingestionVars, verificationVars, currencyVars>>
EvidenceSpec == EvidenceInit /\ [][EvidenceNext]_evidenceVars

-----------------------------------------------------------------------------
(* The queue. *)

\* What a finding is about, and that a drift of a source is on the queue.
Pair(i) == <<queue[i].kind, queue[i].source, queue[i].reason>>
Filed(s) ==
    \E id \in Rows : /\ queue[id].source = s /\ queue[id].reason = "content-drift"
                     /\ queue[id].kind = "link-checker"

\* What one call of `file` does (store.py:163): it appends an open entry where none
\* matches, or gives the one that matches its reason.
LEMMA FileStep ==
    ASSUME QueueOK, NEW kind \in EntryKinds, NEW s \in Sources, NEW reason \in Reasons,
           File(kind, s, reason)
    PROVE  /\ QueueOK'
           /\ \/ /\ Selected(kind, s, reason) = {}
                 /\ queue' = Append(queue, [kind |-> kind, source |-> s, reason |-> reason,
                                            bounces |-> 0, open |-> TRUE])
              \/ \E id \in Selected(kind, s, reason) :
                    queue' = [queue EXCEPT ![id].reason = reason]
<1> DEFINE new == [kind |-> kind, source |-> s, reason |-> reason, bounces |-> 0, open |-> TRUE]
<1>1. new \in Entry
  BY DEF Entry
<1>2. PICK found \in Rows \cup {NoEntry} :
          Select(kind, s, reason, found) /\ Upsert(kind, s, reason, found)
  BY DEF File
<1>3. CASE found = NoEntry
  <2>1. Selected(kind, s, reason) = {}
    <3>1. NoEntry \notin Selected(kind, s, reason)
      BY NoEntryAssumption DEF Selected, Rows
    <3>2. QED
      BY <1>2, <1>3, <3>1 DEF Select
  <2>2. queue' = Append(queue, new)
    BY <1>2, <1>3 DEF Upsert
  <2>3. QED
    BY <1>1, <2>1, <2>2 DEF QueueOK
<1>4. CASE found # NoEntry
  <2>1. found \in Selected(kind, s, reason)
    BY <1>2, <1>4 DEF Select
  <2>2. queue' = [queue EXCEPT ![found].reason = reason]
    BY <1>2, <1>4 DEF Upsert
  <2>3. found \in Rows /\ queue[found] \in Entry
    BY <2>1 DEF Selected, QueueOK, Rows
  <2>4. [queue[found] EXCEPT !.reason = reason] \in Entry
    BY <2>3 DEF Entry
  <2>5. queue' \in Seq(Entry)
    BY <2>2, <2>3, <2>4 DEF QueueOK, Rows
  <2>6. QED
    BY <2>1, <2>2, <2>5 DEF QueueOK
<1>5. QED
  BY <1>3, <1>4

\* Filing a finding of a currency job leaves every row as it is and adds at most its own.
LEMMA FindingStep ==
    ASSUME QueueOK, NEW kind \in EntryKinds \ {"pending-source"}, NEW s \in Sources,
           NEW reason \in Reasons, File(kind, s, reason)
    PROVE  /\ Rows \subseteq Rows' /\ \A id \in Rows : queue'[id] = queue[id]
           /\ FindingsDoNotStack => FindingsDoNotStack'
           /\ \E id \in Rows' : queue'[id].kind = kind /\ queue'[id].source = s
                                /\ queue'[id].reason = reason
<1> DEFINE new == [kind |-> kind, source |-> s, reason |-> reason, bounces |-> 0, open |-> TRUE]
<1>1. CASE Selected(kind, s, reason) = {} /\ queue' = Append(queue, new)
  <2>1. /\ Rows' = Rows \cup {Len(queue) + 1} /\ Len(queue) \in Nat
        /\ \A id \in Rows : queue'[id] = queue[id]
        /\ queue'[Len(queue) + 1] = new
    BY <1>1 DEF Rows, QueueOK
  <2>2. ASSUME FindingsDoNotStack PROVE FindingsDoNotStack'
    <3>1. \A i \in Rows : queue[i].open => Pair(i) # <<kind, s, reason>>
      BY <1>1 DEF Selected, Matches, Pair
    <3>2. QED
      BY <2>1, <2>2, <3>1 DEF FindingsDoNotStack, Pair
  <2>3. QED
    BY <2>1, <2>2
<1>2. ASSUME NEW id \in Selected(kind, s, reason), queue' = [queue EXCEPT ![id].reason = reason]
      PROVE  queue' = queue /\ id \in Rows /\ queue[id].kind = kind /\ queue[id].source = s
                /\ queue[id].reason = reason
  <2>1. id \in Rows /\ queue[id].kind = kind /\ queue[id].source = s /\ queue[id].reason = reason
    BY DEF Selected, Matches
  <2>2. queue[id] \in Entry
    BY <2>1 DEF QueueOK, Rows
  <2>3. [queue[id] EXCEPT !.reason = reason] = queue[id]
    BY <2>1, <2>2 DEF Entry
  <2>4. queue' = queue
    BY <1>2, <2>1, <2>3 DEF QueueOK, Rows
  <2>5. QED
    BY <2>1, <2>4
<1>3. CASE \E id \in Selected(kind, s, reason) : queue' = [queue EXCEPT ![id].reason = reason]
  <2>1. PICK id \in Rows : queue' = queue /\ queue[id].kind = kind /\ queue[id].source = s
                           /\ queue[id].reason = reason
    BY <1>2, <1>3
  <2>2. Rows' = Rows
    BY <2>1 DEF Rows
  <2>3. QED
    BY <2>1, <2>2 DEF FindingsDoNotStack
<1>4. kind \in EntryKinds
  OBVIOUS
<1>5. \/ Selected(kind, s, reason) = {} /\ queue' = Append(queue, new)
      \/ \E id \in Selected(kind, s, reason) : queue' = [queue EXCEPT ![id].reason = reason]
  BY <1>4, FileStep
<1>6. QED
  BY <1>1, <1>3, <1>5

\* No row of a currency job changes, and none is added.
FindingsKept ==
    /\ \A id \in Rows : queue[id].kind # "pending-source" => id \in Rows' /\ queue'[id] = queue[id]
    /\ \A id \in Rows' : queue'[id].kind # "pending-source" => id \in Rows /\ queue'[id] = queue[id]

\* What ingestion files and resolves concerns nobody else (the kinds differ).
LEMMA KeptFindings ==
    ASSUME FindingsKept
    PROVE  /\ FindingsDoNotStack => FindingsDoNotStack'
           /\ \A s \in Sources : Filed(s) => Filed(s)'
<1>1. ASSUME FindingsDoNotStack PROVE FindingsDoNotStack'
  <2>1. SUFFICES ASSUME NEW i \in Rows', NEW j \in Rows', i # j, queue'[i].open, queue'[j].open,
                        queue'[i].kind # "pending-source",
                        <<queue'[i].kind, queue'[i].source, queue'[i].reason>> =
                        <<queue'[j].kind, queue'[j].source, queue'[j].reason>>
                 PROVE  FALSE
    BY DEF FindingsDoNotStack
  <2>2. queue'[j].kind # "pending-source"
    BY <2>1
  <2>3. i \in Rows /\ j \in Rows /\ queue'[i] = queue[i] /\ queue'[j] = queue[j]
    BY <2>1, <2>2 DEF FindingsKept
  <2>4. QED
    BY <1>1, <2>1, <2>3 DEF FindingsDoNotStack
<1>2. QED
  BY <1>1 DEF FindingsKept, Filed

\* Filing a pending source opens an issue or keeps one open, whatever its reason.
LEMMA PendingStep ==
    ASSUME QueueOK, NEW s \in Sources, NEW reason \in Reasons, File("pending-source", s, reason)
    PROVE  /\ QueueOK' /\ FindingsKept
           /\ OpenIssues(s)' # {}
           /\ \A x \in Sources : OpenIssues(x) # {} => OpenIssues(x)' # {}
<1> DEFINE new == [kind |-> "pending-source", source |-> s, reason |-> reason,
                   bounces |-> 0, open |-> TRUE]
<1>1. CASE queue' = Append(queue, new)
  <2>1. /\ Rows' = Rows \cup {Len(queue) + 1} /\ Len(queue) + 1 \notin Rows
        /\ \A id \in Rows : queue'[id] = queue[id]
        /\ queue'[Len(queue) + 1] = new
    BY <1>1 DEF Rows, QueueOK
  <2>2. FindingsKept
    BY <2>1 DEF FindingsKept
  <2>3. Len(queue) + 1 \in OpenIssues(s)'
    BY <2>1 DEF OpenIssues
  <2>4. \A x \in Sources : OpenIssues(x) \subseteq OpenIssues(x)'
    BY <2>1 DEF OpenIssues
  <2>5. QED
    BY <2>2, <2>3, <2>4, FileStep DEF EntryKinds
<1>2. ASSUME NEW id \in Selected("pending-source", s, reason),
             queue' = [queue EXCEPT ![id].reason = reason]
      PROVE  FindingsKept /\ id \in OpenIssues(s)'
             /\ \A x \in Sources : OpenIssues(x) \subseteq OpenIssues(x)'
  <2>1. id \in Rows /\ queue[id].open /\ queue[id].kind = "pending-source" /\ queue[id].source = s
    BY DEF Selected, Matches
  <2>2. queue[id] \in Entry
    BY <2>1 DEF QueueOK, Rows
  <2>3. Rows' = Rows /\ \A o \in Rows : queue'[o] = IF o = id THEN [queue[id] EXCEPT !.reason = reason]
                                                    ELSE queue[o]
    BY <1>2, <2>1 DEF QueueOK, Rows
  <2>4. queue'[id].open = queue[id].open /\ queue'[id].kind = queue[id].kind
        /\ queue'[id].source = queue[id].source
    BY <2>1, <2>2, <2>3 DEF Entry
  <2>5. FindingsKept
    BY <2>1, <2>3, <2>4 DEF FindingsKept
  <2>6. \A x \in Sources : OpenIssues(x) \subseteq OpenIssues(x)'
    BY <2>3, <2>4 DEF OpenIssues
  <2>7. id \in OpenIssues(s)'
    BY <2>1, <2>3, <2>4 DEF OpenIssues
  <2>8. QED
    BY <2>5, <2>6, <2>7
<1>3. CASE \E id \in Selected("pending-source", s, reason) :
               queue' = [queue EXCEPT ![id].reason = reason]
  BY <1>2, <1>3, FileStep DEF EntryKinds
<1>4. QED
  BY <1>1, <1>3, FileStep DEF EntryKinds

\* Resolving a source closes its issues and no other's.
LEMMA ResolveStep ==
    ASSUME QueueOK, NEW s \in Sources, Resolve("pending-source", s)
    PROVE  /\ QueueOK' /\ FindingsKept
           /\ \A x \in Sources \ {s} : OpenIssues(x)' = OpenIssues(x)
<1>1. Rows' = Rows /\ \A id \in Rows :
          queue'[id] = IF queue[id].open /\ queue[id].kind = "pending-source" /\ queue[id].source = s
                       THEN [queue[id] EXCEPT !.open = FALSE] ELSE queue[id]
  BY DEF Resolve, Rows, QueueOK
<1>2. \A id \in Rows : queue[id] \in Entry
  BY DEF QueueOK, Rows
<1>3. \A id \in Rows : queue'[id] \in Entry /\ queue'[id].kind = queue[id].kind
                      /\ queue'[id].source = queue[id].source
  BY <1>1, <1>2 DEF Entry
<1>4. QueueOK'
  <2>1. queue' = [id \in 1 .. Len(queue) |-> queue'[id]]
    BY DEF Resolve, Rows
  <2>2. \A id \in 1 .. Len(queue) : queue'[id] \in Entry
    BY <1>3 DEF Rows
  <2>3. Len(queue) \in Nat
    BY DEF QueueOK
  <2>4. QED
    BY <2>1, <2>2, <2>3 DEF QueueOK
<1>5. FindingsKept
  BY <1>1, <1>3 DEF FindingsKept
<1>6. \A x \in Sources \ {s} : OpenIssues(x)' = OpenIssues(x)
  BY <1>1, <1>3 DEF OpenIssues
<1>7. QED
  BY <1>4, <1>5, <1>6

-----------------------------------------------------------------------------
(* Ingestion. *)

\* The original a manifest names is there, and is the one it was written for, unless a
\* killed put has overwritten it or one is at it.
OriginalsHeld ==
    \A s \in Sources : manifest[s] # None =>
        /\ originals[s][manifest[s].original] \in Texts
        /\ s \notin torn /\ (putting = None \/ putting.source # s)
              => originals[s][manifest[s].original] = manifest[s].hash

\* So is the one whose manifest is still to be written.
PuttingHeld ==
    putting # None => originals[putting.source][putting.manifest.original] = putting.manifest.hash

\* Chunks that are there are those of the last promoted ingestion.
ChunksOfRow ==
    \A s \in Sources \ torn : row[s] # None /\ row[s].promoted /\ chunks[s] # None =>
        chunks[s] = [text |-> row[s].hash, kinds |-> row[s].kinds, tools |-> row[s].tools]

IngestionInv == IngestionOK /\ OriginalsHeld /\ PuttingHeld /\ ChunksOfRow

\* The overrides of a run change neither the original nor its hash.
LEMMA OverriddenManifest ==
    ASSUME IngestionInv, NEW s \in Sources, manifest[s] # None,
           NEW chosen \in KindLists \cup {None}, NEW floor \in Floors
    PROVE  LET m == Overridden(s, chosen, floor)
           IN  m \in Manifest /\ m.original = manifest[s].original /\ m.hash = manifest[s].hash
               /\ Preference(m) \in KindLists
<1>1. manifest[s] \in Manifest
  BY DEF IngestionInv, IngestionOK
<1>2. Overridden(s, chosen, floor) \in Manifest
  BY <1>1 DEF Overridden, Manifest
<1>3. QED
  BY <1>1, <1>2, KindsAssumption DEF Overridden, Manifest, Preference

\* Storing a manifest with the same original keeps the invariant.
LEMMA SameOriginal ==
    ASSUME IngestionInv, NEW s \in Sources, manifest[s] # None, NEW m \in Manifest,
           m.original = manifest[s].original, m.hash = manifest[s].hash,
           manifest' = [manifest EXCEPT ![s] = m], UNCHANGED <<originals, torn, putting>>
    PROVE  /\ manifest' \in [Sources -> Manifest \cup {None}]
           /\ OriginalsHeld' /\ PuttingHeld'
<1>1. manifest' \in [Sources -> Manifest \cup {None}]
  BY DEF IngestionInv, IngestionOK
<1>2. ASSUME NEW x \in Sources
      PROVE  manifest'[x] # None => /\ manifest[x] # None
                                    /\ manifest'[x].original = manifest[x].original
                                    /\ manifest'[x].hash = manifest[x].hash
  BY DEF IngestionInv, IngestionOK
<1>3. OriginalsHeld'
  BY <1>2 DEF IngestionInv, OriginalsHeld
<1>4. QED
  BY <1>1, <1>3 DEF IngestionInv, PuttingHeld

\* A run that reads the original stores its chunks, or none.
LEMMA FinishStep ==
    ASSUME IngestionInv, NEW s \in Sources, manifest[s] # None, NEW m \in Manifest,
           m.original = manifest[s].original, m.hash = manifest[s].hash, putting = None,
           Preference(m) \in KindLists, NEW promoted \in BOOLEAN, FinishIngest(s, m, promoted),
           UNCHANGED <<originals, torn, tools>>
    PROVE  /\ row' \in [Sources -> Ingested \cup {None}]
           /\ chunks' \in [Sources -> Chunks \cup {None}]
           /\ embedded' \subseteq Sources
           /\ last' \in [Sources -> {"none", "ok", "failed"}]
           /\ ChunksOfRow'
<1> DEFINE ingested == [hash |-> m.hash, kinds |-> Preference(m), floor |-> m.floor,
                        tools |-> tools, promoted |-> promoted]
<1> USE DEF IngestionInv, IngestionOK
<1>1. originals[s][m.original] \in Texts /\ (s \notin torn => originals[s][m.original] = m.hash)
  BY DEF OriginalsHeld
<1>2. ingested \in Ingested
  BY DEF Ingested, Manifest
<1>3. Fresh(s, m) \in Chunks
  BY <1>1 DEF Fresh, Chunks
<1>4. /\ row' = [row EXCEPT ![s] = ingested]
      /\ chunks' = [chunks EXCEPT ![s] = IF promoted THEN Fresh(s, m) ELSE None]
      /\ embedded' = embedded \ {s}
      /\ last' = [last EXCEPT ![s] = IF promoted THEN "ok" ELSE "failed"]
  BY DEF FinishIngest
<1>5. row' \in [Sources -> Ingested \cup {None}] /\ chunks' \in [Sources -> Chunks \cup {None}]
  BY <1>2, <1>3, <1>4
<1>6. ASSUME NEW x \in Sources \ torn', row'[x] # None, row'[x].promoted, chunks'[x] # None
      PROVE  chunks'[x] = [text |-> row'[x].hash, kinds |-> row'[x].kinds, tools |-> row'[x].tools]
  <2>1. CASE x = s
    <3>1. row'[x] = ingested /\ chunks'[x] = IF promoted THEN Fresh(s, m) ELSE None
      BY <1>4, <2>1
    <3>2. chunks'[x] = Fresh(s, m)
      BY <1>6, <3>1
    <3>3. QED
      BY <1>1, <1>6, <2>1, <3>1, <3>2 DEF Fresh
  <2>2. CASE x # s
    BY <1>4, <1>6, <2>2 DEF ChunksOfRow
  <2>3. QED
    BY <2>1, <2>2
<1>7. QED
  BY <1>4, <1>5, <1>6 DEF ChunksOfRow

\* ingest_source with its overrides, whichever way it ends (pipeline.py:99): the stored
\* chunks are those of the row, and a failure leaves an open issue.
LEMMA IngestStep ==
    ASSUME QueueOK, IngestionInv, RefusedIsVisible, NEW s \in Sources,
           NEW chosen \in KindLists \cup {None}, NEW floor \in Floors,
           ingest_source(s, chosen, floor)
    PROVE  QueueOK' /\ FindingsKept /\ IngestionInv' /\ RefusedIsVisible'
<1> DEFINE m == Overridden(s, chosen, floor)
<1>1. UNCHANGED <<originals, tools, putting, torn>> /\ putting = None
  BY DEF ingest_source, IngestMissing, IngestStored, private
<1>2. CASE IngestMissing(s)
  <2>1. "acquisition-failed" \in Reasons
    BY DEF Reasons, PendingReasons
  <2>2. File("pending-source", s, "acquisition-failed") /\ UNCHANGED <<manifest, row, chunks, embedded>>
        /\ last' = [last EXCEPT ![s] = "failed"]
    BY <1>2 DEF IngestMissing, private, stored
  <2>3. IngestionInv'
    BY <1>1, <2>2 DEF IngestionInv, IngestionOK, OriginalsHeld, PuttingHeld, ChunksOfRow
  <2>4. QueueOK' /\ FindingsKept /\ OpenIssues(s)' # {}
        /\ \A x \in Sources : OpenIssues(x) # {} => OpenIssues(x)' # {}
    BY <2>1, <2>2, PendingStep
  <2>5. RefusedIsVisible'
    BY <2>2, <2>4 DEF RefusedIsVisible, IngestionInv, IngestionOK
  <2>6. QED
    BY <2>3, <2>4, <2>5
<1>3. CASE manifest[s] # None /\ IngestStored(s, m)
  <2>1. /\ m \in Manifest /\ m.original = manifest[s].original /\ m.hash = manifest[s].hash
        /\ Preference(m) \in KindLists
    BY <1>3, OverriddenManifest
  <2>2. manifest' = [manifest EXCEPT ![s] = m]
    BY <1>3 DEF IngestStored
  <2>3. manifest' \in [Sources -> Manifest \cup {None}] /\ OriginalsHeld' /\ PuttingHeld'
    <3> HIDE DEF m
    <3> QED
      BY <1>1, <1>3, <2>1, <2>2, SameOriginal
  <2>4. "partially-ingested" \in Reasons
    BY DEF Reasons, PendingReasons
  <2>5. CASE IsCurrent(s, m) /\ last' = [last EXCEPT ![s] = "ok"] /\ UNCHANGED <<stored, queue>>
    <3>1. IngestionInv'
      BY <1>1, <2>3, <2>5 DEF IngestionInv, IngestionOK, ChunksOfRow, stored
    <3>2. QueueOK' /\ FindingsKept
      BY <2>5 DEF QueueOK, FindingsKept, Rows
    <3>3. \A x \in Sources : OpenIssues(x)' = OpenIssues(x)
      BY <2>5 DEF OpenIssues, Rows
    <3>4. RefusedIsVisible'
      BY <2>5, <3>3 DEF RefusedIsVisible, IngestionInv, IngestionOK
    <3>5. QED
      BY <3>1, <3>2, <3>4
  <2>6. CASE /\ File("pending-source", s, "partially-ingested")
             /\ last' = [last EXCEPT ![s] = "failed"] /\ UNCHANGED stored
    <3>1. IngestionInv'
      BY <1>1, <2>3, <2>6 DEF IngestionInv, IngestionOK, ChunksOfRow, stored
    <3>2. QueueOK' /\ FindingsKept /\ OpenIssues(s)' # {}
          /\ \A x \in Sources : OpenIssues(x) # {} => OpenIssues(x)' # {}
      BY <2>4, <2>6, PendingStep
    <3>3. RefusedIsVisible'
      BY <2>6, <3>2 DEF RefusedIsVisible, IngestionInv, IngestionOK
    <3>4. QED
      BY <3>1, <3>2, <3>3
  <2>7. ASSUME NEW promoted \in BOOLEAN, FinishIngest(s, m, promoted)
        PROVE  IngestionInv' /\ last' = [last EXCEPT ![s] = IF promoted THEN "ok" ELSE "failed"]
    <3>1. /\ row' \in [Sources -> Ingested \cup {None}]
          /\ chunks' \in [Sources -> Chunks \cup {None}]
          /\ embedded' \subseteq Sources
          /\ last' \in [Sources -> {"none", "ok", "failed"}]
          /\ ChunksOfRow'
      <4> HIDE DEF m
      <4> QED
        BY <1>1, <1>3, <2>1, <2>7, FinishStep
    <3>2. IngestionInv'
      BY <1>1, <2>3, <3>1 DEF IngestionInv, IngestionOK
    <3>3. QED
      BY <2>7, <3>2 DEF FinishIngest
  <2>8. CASE File("pending-source", s, "partially-ingested") /\ FinishIngest(s, m, FALSE)
    <3>1. QueueOK' /\ FindingsKept /\ OpenIssues(s)' # {}
          /\ \A x \in Sources : OpenIssues(x) # {} => OpenIssues(x)' # {}
      BY <2>4, <2>8, PendingStep
    <3>2. RefusedIsVisible'
      BY <2>7, <2>8, <3>1 DEF RefusedIsVisible, IngestionInv, IngestionOK
    <3>3. QED
      BY <2>7, <2>8, <3>1, <3>2
  <2>9. CASE Resolve("pending-source", s) /\ FinishIngest(s, m, TRUE)
    <3>1. QueueOK' /\ FindingsKept /\ \A x \in Sources \ {s} : OpenIssues(x)' = OpenIssues(x)
      BY <2>9, ResolveStep
    <3>2. RefusedIsVisible'
      BY <2>7, <2>9, <3>1 DEF RefusedIsVisible, IngestionInv, IngestionOK
    <3>3. QED
      BY <2>7, <2>9, <3>1, <3>2
  <2>10. QED
    BY <1>3, <2>5, <2>6, <2>8, <2>9 DEF IngestStored
<1>4. QED
  BY <1>2, <1>3 DEF ingest_source

\* Acquisitions, one write at a time, killed between the two or not (snapshot.py:82).
LEMMA AcquireStep ==
    ASSUME IngestionInv, Acquire
    PROVE  IngestionInv' /\ UNCHANGED <<queue, last>>
<1> USE DEF IngestionInv, IngestionOK
<1>1. ASSUME NEW s \in Sources, NEW t \in Texts, NEW n \in Names,
             NEW k \in KindLists \cup {None}, NEW f \in Floors, Put(s, t, n, k, f)
      PROVE  IngestionInv' /\ UNCHANGED <<queue, last>>
  <2> DEFINE new == [original |-> n, hash |-> t, kinds |-> KindsFor(s, k), floor |-> FloorFor(s, f)]
  <2>1. /\ originals' = [originals EXCEPT ![s][n] = t]
        /\ putting' = [source |-> s, manifest |-> new] /\ putting = None
        /\ UNCHANGED <<manifest, tools, row, chunks, embedded, last, torn, queue>>
    BY <1>1 DEF Put, stored
  <2>2. KindsFor(s, k) \in KindLists \cup {None} /\ FloorFor(s, f) \in Floors
    BY DEF KindsFor, FloorFor, Manifest, Floors
  <2>3. new \in Manifest
    BY <2>2 DEF Manifest
  <2>4. originals' \in [Sources -> [Names -> Texts \cup {None}]]
        /\ \A x \in Sources, o \in Names :
              originals'[x][o] = IF x = s /\ o = n THEN t ELSE originals[x][o]
    BY <2>1
  <2>5. putting' \in Putting
    BY <2>1, <2>3 DEF Putting
  <2>6. OriginalsHeld'
    <3>1. SUFFICES ASSUME NEW x \in Sources, manifest[x] # None
                   PROVE  /\ originals'[x][manifest[x].original] \in Texts
                          /\ x \notin torn /\ x # s
                                => originals'[x][manifest[x].original] = manifest[x].hash
      BY <2>1, <2>5, NoneAssumption DEF OriginalsHeld
    <3>2. manifest[x] \in Manifest /\ manifest[x].original \in Names
      BY <3>1 DEF Manifest
    <3>3. QED
      BY <2>1, <2>4, <3>1, <3>2 DEF OriginalsHeld
  <2>7. PuttingHeld'
    BY <2>1, <2>4 DEF PuttingHeld
  <2>8. ChunksOfRow'
    BY <2>1 DEF ChunksOfRow
  <2>9. QED
    BY <2>1, <2>3, <2>4, <2>5, <2>6, <2>7, <2>8
<1>2. CASE WriteManifest
  <2>1. /\ putting # None /\ putting' = None
        /\ manifest' = [manifest EXCEPT ![putting.source] = putting.manifest]
        /\ UNCHANGED <<originals, tools, row, chunks, embedded, last, torn, queue>>
    BY <1>2 DEF WriteManifest, stored
  <2>2. putting.source \in Sources /\ putting.manifest \in Manifest /\ putting.manifest.hash \in Texts
    BY <2>1 DEF Putting, Manifest
  <2>3. \A x \in Sources : manifest'[x] = IF x = putting.source THEN putting.manifest ELSE manifest[x]
    BY <2>1
  <2>4. OriginalsHeld'
    BY <2>1, <2>2, <2>3 DEF OriginalsHeld, PuttingHeld
  <2>5. QED
    BY <2>1, <2>2, <2>4 DEF PuttingHeld, ChunksOfRow
<1>3. CASE PutKilled
  <2>1. /\ putting # None /\ putting' = None
        /\ torn' = torn \cup {s \in {putting.source} :
                  manifest[s] # None /\ originals[s][manifest[s].original] # manifest[s].hash}
        /\ UNCHANGED <<originals, manifest, tools, row, chunks, embedded, last, queue>>
    BY <1>3 DEF PutKilled, private, stored
  <2>2. putting.source \in Sources
    BY <2>1 DEF Putting
  <2>3. QED
    BY <2>1, <2>2 DEF OriginalsHeld, PuttingHeld, ChunksOfRow
<1>4. QED
  BY <1>1, <1>2, <1>3 DEF Acquire

-----------------------------------------------------------------------------
(* Currency. *)

Job == [source : Sources \cup {NoBody}, findings : SUBSET Reasons]
JobsOK ==
    /\ linkJob \in Job /\ (linkJob # Resting => linkJob.source \in Sources)
    /\ editionJob \in Job /\ (editionJob # Resting => editionJob.source \in Sources)
    /\ now \in Nat

WitnessedOK == witnessed \in [Sources -> Bodies \cup {NoBody}] /\ cut \subseteq Sources

\* The baseline moves when a page is recorded and the drift is filed after that: in
\* between the job has it, and later the queue, whether or not somebody has closed it.
DriftInv ==
    \A s \in Sources \ cut : witnessed[s] # NoBody /\ baseline[s] # witnessed[s] =>
        Filed(s) \/ (linkJob.source = s /\ "content-drift" \in linkJob.findings)

\* An adoption under way has written its record, and the ledger once it is past it.
LedgerInv ==
    /\ \A s \in Sources : tombstones[s] # NoBody => superseded[s] # NoBody
    /\ \/ adopting = <<>>
       \/ \E old \in Sources, new \in Sources, step \in {"ledger", "file"} :
              /\ adopting = <<old, new, step>> /\ superseded[old] = new
              /\ step = "file" => tombstones[old] = new

CurrencyInv == CurrencyOK /\ WitnessedOK /\ JobsOK /\ DriftInv /\ LedgerInv

\* The body of DriftIsFiled.
DriftStep ==
    \A s \in Sources \ cut :
        /\ s \in linkRows' \ linkRows
        /\ witnessed[s] # NoBody /\ witnessed'[s] # witnessed[s]
        => \E id \in Rows : /\ queue[id].source = s /\ queue[id].reason = "content-drift"
                            /\ queue[id].kind = "link-checker"

QueueInv == QueueOK /\ FindingsDoNotStack /\ RefusedIsVisible

\* Rows that stay as they are keep what is filed and what is open.
LEMMA KeptRows ==
    ASSUME Rows \subseteq Rows', \A id \in Rows : queue'[id] = queue[id], UNCHANGED last
    PROVE  /\ RefusedIsVisible => RefusedIsVisible'
           /\ \A s \in Sources : Filed(s) => Filed(s)'
<1>1. \A s \in Sources : OpenIssues(s) \subseteq OpenIssues(s)'
  BY DEF OpenIssues
<1>2. RefusedIsVisible => RefusedIsVisible'
  BY <1>1 DEF RefusedIsVisible
<1>3. QED
  BY <1>2 DEF Filed

\* A finding that is filed keeps the queue as it should be, and is on it.
LEMMA FiledFinding ==
    ASSUME QueueInv, UNCHANGED last, NEW kind \in EntryKinds \ {"pending-source"},
           NEW s \in Sources, NEW reason \in Reasons, File(kind, s, reason)
    PROVE  /\ QueueInv'
           /\ \A x \in Sources : Filed(x) => Filed(x)'
           /\ kind = "link-checker" /\ reason = "content-drift" => Filed(s)'
<1>1. QueueOK'
  BY FileStep DEF QueueInv
<1>2. /\ Rows \subseteq Rows' /\ \A id \in Rows : queue'[id] = queue[id]
      /\ FindingsDoNotStack'
      /\ \E id \in Rows' : queue'[id].kind = kind /\ queue'[id].source = s
                           /\ queue'[id].reason = reason
  BY FindingStep DEF QueueInv
<1>3. RefusedIsVisible' /\ \A x \in Sources : Filed(x) => Filed(x)'
  BY <1>2, KeptRows DEF QueueInv
<1>4. QED
  BY <1>1, <1>2, <1>3 DEF QueueInv, Filed

\* The link checker's steps (links.py:60, jobs/link_checker.py:67).
LinkStep ==
    \/ \E s \in Sources : CheckLink(s) \/ LinkDead(s)
    \/ \E reason \in Reasons : FileLinkFinding(reason)
    \/ LinkDone

LEMMA LinkSteps ==
    ASSUME QueueInv, CurrencyInv, LinkStep, UNCHANGED last
    PROVE  QueueInv' /\ CurrencyInv' /\ DriftStep
<1> USE DEF CurrencyInv, CurrencyOK, WitnessedOK, JobsOK
<1>1. ASSUME NEW s \in Sources, CheckLink(s)
      PROVE  QueueInv' /\ CurrencyInv' /\ DriftStep
  <2>1. /\ linkJob = Resting /\ linkJob' = [source |-> s, findings |-> LinkFindings(s)]
        /\ baseline' = [baseline EXCEPT ![s] = page[s]]
        /\ UNCHANGED <<page, now, linkRows, witnessed, checkedAt, editionRows, editionJob,
                       superseded, tombstones, adopting, cut, queue>>
    BY <1>1 DEF CheckLink, pages, editionVars, records
  <2>2. LinkFindings(s) \subseteq Reasons /\ linkJob.findings = {}
    BY <2>1 DEF LinkFindings, Reasons, Resting
  <2>3. DriftInv'
    <3>1. SUFFICES ASSUME NEW x \in Sources \ cut, witnessed[x] # NoBody, baseline'[x] # witnessed[x]
                   PROVE  Filed(x) \/ (s = x /\ "content-drift" \in LinkFindings(s))
      BY <2>1 DEF DriftInv, Filed, Rows
    <3>2. CASE baseline[x] # witnessed[x]
      BY <2>2, <3>1, <3>2 DEF DriftInv
    <3>3. CASE baseline[x] = witnessed[x]
      BY <2>1, <3>1, <3>3 DEF LinkFindings
    <3>4. QED
      BY <3>2, <3>3
  <2>4. CurrencyOK' /\ WitnessedOK' /\ JobsOK' /\ LedgerInv'
    BY <2>1, <2>2, BodiesAssumption DEF LedgerInv, Job
  <2>5. QueueInv' /\ DriftStep
    BY <2>1 DEF QueueInv, QueueOK, FindingsDoNotStack, RefusedIsVisible, OpenIssues, Rows, DriftStep
  <2>6. QED
    BY <2>3, <2>4, <2>5
<1>2. ASSUME NEW s \in Sources, LinkDead(s)
      PROVE  QueueInv' /\ CurrencyInv' /\ DriftStep
  <2>1. /\ linkJob = Resting /\ linkJob' = [source |-> s, findings |-> {"link-dead"}]
        /\ UNCHANGED <<page, now, baseline, linkRows, witnessed, checkedAt, editionRows, editionJob,
                       superseded, tombstones, adopting, cut, queue>>
    BY <1>2 DEF LinkDead, linkVars, editionVars, records
  <2>2. linkJob.findings = {} /\ "link-dead" \in Reasons
    BY <2>1 DEF Resting, Reasons
  <2>3. DriftInv'
    BY <2>1, <2>2 DEF DriftInv, Filed, Rows
  <2>4. CurrencyOK' /\ WitnessedOK' /\ JobsOK' /\ LedgerInv'
    BY <2>1, <2>2 DEF LedgerInv, Job
  <2>5. QueueInv' /\ DriftStep
    BY <2>1 DEF QueueInv, QueueOK, FindingsDoNotStack, RefusedIsVisible, OpenIssues, Rows, DriftStep
  <2>6. QED
    BY <2>3, <2>4, <2>5
<1>3. ASSUME NEW reason \in Reasons, FileLinkFinding(reason)
      PROVE  QueueInv' /\ CurrencyInv' /\ DriftStep
  <2>1. /\ reason \in linkJob.findings /\ File("link-checker", linkJob.source, reason)
        /\ linkJob' = [linkJob EXCEPT !.findings = @ \ {reason}]
        /\ UNCHANGED <<page, now, baseline, linkRows, witnessed, checkedAt, editionRows, editionJob,
                       superseded, tombstones, adopting, cut>>
    BY <1>3 DEF FileLinkFinding, pages, editionVars, records
  <2>2. linkJob.source \in Sources /\ "link-checker" \in EntryKinds \ {"pending-source"}
    BY <2>1 DEF Resting, EntryKinds
  <2>3. /\ QueueInv' /\ \A x \in Sources : Filed(x) => Filed(x)'
        /\ \A x \in Sources : x = linkJob.source /\ reason = "content-drift" => Filed(x)'
    <3>1. PICK s \in Sources : s = linkJob.source
      BY <2>2
    <3>2. File("link-checker", s, reason)
      BY <2>1, <3>1
    <3>3. /\ QueueInv' /\ \A x \in Sources : Filed(x) => Filed(x)'
          /\ reason = "content-drift" => Filed(s)'
      BY <2>2, <3>2, FiledFinding
    <3>4. QED
      BY <3>1, <3>3
  <2>4. linkJob'.source = linkJob.source /\ linkJob'.findings = linkJob.findings \ {reason}
        /\ linkJob' \in Job
    BY <2>1 DEF Job
  <2>5. DriftInv'
    BY <2>1, <2>2, <2>3, <2>4 DEF DriftInv, Filed
  <2>6. CurrencyOK' /\ WitnessedOK' /\ JobsOK' /\ LedgerInv'
    BY <2>1, <2>2, <2>4 DEF LedgerInv, Job
  <2>7. DriftStep
    BY <2>1 DEF DriftStep
  <2>8. QED
    BY <2>3, <2>5, <2>6, <2>7
<1>4. CASE LinkDone
  <2>1. /\ linkJob # Resting /\ linkJob.findings = {} /\ linkJob' = Resting
        /\ linkRows' = linkRows \cup {linkJob.source}
        /\ witnessed' = [witnessed EXCEPT ![linkJob.source] = baseline[linkJob.source]]
        /\ UNCHANGED <<page, now, baseline, checkedAt, editionRows, editionJob,
                       superseded, tombstones, adopting, cut, queue>>
    BY <1>4 DEF LinkDone, pages, editionVars, records
  <2>2. linkJob.source \in Sources
    BY <2>1
  <2>3. DriftInv'
    BY <2>1, <2>2 DEF DriftInv, Filed, Rows, Resting
  <2>4. CurrencyOK' /\ WitnessedOK' /\ JobsOK' /\ LedgerInv'
    BY <2>1, <2>2 DEF LedgerInv, Job, Resting
  <2>5. DriftStep
    BY <2>1, <2>2 DEF DriftStep, DriftInv, Filed
  <2>6. QueueInv'
    BY <2>1 DEF QueueInv, QueueOK, FindingsDoNotStack, RefusedIsVisible, OpenIssues, Rows
  <2>7. QED
    BY <2>3, <2>4, <2>5, <2>6
<1>5. QED
  BY <1>1, <1>2, <1>3, <1>4 DEF LinkStep

\* The edition check's, those of `supersede`, and what happens around the jobs.
LEMMA OtherSteps ==
    ASSUME QueueInv, CurrencyInv, CurrencyNext, ~ LinkStep, UNCHANGED last
    PROVE  QueueInv' /\ CurrencyInv' /\ DriftStep
<1> USE DEF CurrencyInv, CurrencyOK, WitnessedOK, JobsOK
<1>1. CASE UNCHANGED <<linkVars, cut>> /\ QueueInv' /\ (\A s \in Sources : Filed(s) => Filed(s)')
           /\ CurrencyOK' /\ JobsOK' /\ LedgerInv'
  BY <1>1 DEF linkVars, DriftInv, DriftStep
<1>2. ASSUME UNCHANGED queue
      PROVE  QueueInv' /\ (\A s \in Sources : Filed(s) => Filed(s)')
  BY <1>2 DEF QueueInv, QueueOK, FindingsDoNotStack, RefusedIsVisible, OpenIssues, Rows, Filed
<1>3. ASSUME NEW s \in Sources, NEW fetched \in BOOLEAN, CheckEdition(s, fetched)
      PROVE  QueueInv' /\ CurrencyInv' /\ DriftStep
  <2>1. /\ checkedAt' = [checkedAt EXCEPT ![s] = now]
        /\ editionJob' = [source |-> s, findings |-> IF fetched /\ page[s] \notin Announcing
                                                     THEN {"edition-mismatch"} ELSE {}]
        /\ UNCHANGED <<page, now, linkVars, editionRows, superseded, tombstones, adopting, cut, queue>>
    BY <1>3 DEF CheckEdition, records
  <2>2. editionJob' \in Job /\ editionJob'.source = s /\ editionJob'.findings \subseteq Reasons
    BY <2>1 DEF Job, Reasons
  <2>3. CurrencyOK' /\ JobsOK' /\ LedgerInv'
    BY <2>1, <2>2 DEF linkVars, LedgerInv
  <2>4. QED
    BY <1>1, <1>2, <2>1, <2>3
<1>4. CASE EditionDone
  <2>1. /\ editionJob # Resting /\ editionJob' = Resting
        /\ editionRows' = editionRows \cup {editionJob.source}
        /\ UNCHANGED <<page, now, linkVars, checkedAt, superseded, tombstones, adopting, cut>>
    BY <1>4 DEF EditionDone, pages, records
  <2>2. PICK s \in Sources : s = editionJob.source
    BY <2>1
  <2>3. QueueInv' /\ (\A x \in Sources : Filed(x) => Filed(x)')
    <3>1. CASE UNCHANGED queue
      BY <1>2, <3>1
    <3>2. CASE File("edition-check", s, "edition-mismatch")
      BY <3>2, FiledFinding DEF EntryKinds, Reasons
    <3>3. QED
      BY <1>4, <2>2, <3>1, <3>2 DEF EditionDone
  <2>4. CurrencyOK' /\ JobsOK' /\ LedgerInv'
    BY <2>1, <2>2 DEF linkVars, LedgerInv, Job, Resting
  <2>5. QED
    BY <1>1, <2>1, <2>3, <2>4
<1>5. ASSUME NEW old \in Sources, NEW new \in Sources, Supersede(old, new)
      PROVE  QueueInv' /\ CurrencyInv' /\ DriftStep
  <2>1. /\ adopting = <<>> /\ superseded' = [superseded EXCEPT ![old] = new]
        /\ adopting' = <<old, new, "ledger">>
        /\ UNCHANGED <<page, now, linkVars, checkedAt, editionRows, editionJob, tombstones, cut, queue>>
    BY <1>5 DEF Supersede, pages, editionVars
  <2>2. new # NoBody /\ superseded'[old] = new /\ \A s \in Sources : s # old => superseded'[s] = superseded[s]
    BY <2>1, BodiesAssumption
  <2>3. LedgerInv'
    BY <2>1, <2>2 DEF LedgerInv
  <2>4. CurrencyOK' /\ JobsOK'
    BY <2>1 DEF linkVars
  <2>5. QED
    BY <1>1, <1>2, <2>1, <2>3, <2>4
<1>6. CASE Bury
  <2>1. /\ adopting # <<>> /\ adopting[3] = "ledger"
        /\ tombstones' = [tombstones EXCEPT ![adopting[1]] = adopting[2]]
        /\ adopting' = [adopting EXCEPT ![3] = "file"]
        /\ UNCHANGED <<page, now, linkVars, checkedAt, editionRows, editionJob, superseded, cut, queue>>
    BY <1>6 DEF Bury, pages, editionVars
  <2>2. PICK old \in Sources, new \in Sources :
            adopting = <<old, new, "ledger">> /\ superseded[old] = new
    BY <2>1 DEF LedgerInv
  <2>3. adopting' = <<old, new, "file">> /\ tombstones' = [tombstones EXCEPT ![old] = new]
    BY <2>1, <2>2
  <2>4. new # NoBody
    BY BodiesAssumption
  <2>5. LedgerInv'
    BY <2>1, <2>2, <2>3, <2>4 DEF LedgerInv
  <2>6. CurrencyOK' /\ JobsOK'
    BY <2>1, <2>2, <2>3 DEF linkVars
  <2>7. QED
    BY <1>1, <1>2, <2>1, <2>5, <2>6
<1>7. CASE Announce
  <2>1. /\ adopting # <<>> /\ File("edition-check", adopting[1], "edition-superseded")
        /\ adopting' = <<>>
        /\ UNCHANGED <<page, now, linkVars, checkedAt, editionRows, editionJob, superseded,
                       tombstones, cut>>
    BY <1>7 DEF Announce, pages, editionVars
  <2>2. PICK s \in Sources : s = adopting[1]
    BY <2>1 DEF LedgerInv
  <2>3. QueueInv' /\ (\A x \in Sources : Filed(x) => Filed(x)')
    BY <2>1, <2>2, FiledFinding DEF EntryKinds, Reasons
  <2>4. CurrencyOK' /\ JobsOK' /\ LedgerInv'
    BY <2>1 DEF linkVars, LedgerInv
  <2>5. QED
    BY <1>1, <2>1, <2>3, <2>4
<1>8. ASSUME NEW s \in Sources, NEW body \in Bodies, PageChanges(s, body)
      PROVE  QueueInv' /\ CurrencyInv' /\ DriftStep
  <2>1. /\ page' = [page EXCEPT ![s] = body]
        /\ UNCHANGED <<now, linkVars, checkedAt, editionRows, editionJob, superseded, tombstones,
                       adopting, cut, queue>>
    BY <1>8 DEF PageChanges, editionVars, records
  <2>2. CurrencyOK' /\ JobsOK' /\ LedgerInv'
    BY <2>1 DEF linkVars, LedgerInv
  <2>3. QED
    BY <1>1, <1>2, <2>1, <2>2
<1>9. CASE Tick
  <2>1. /\ now' = now + 1
        /\ UNCHANGED <<page, linkVars, checkedAt, editionRows, editionJob, superseded, tombstones,
                       adopting, cut, queue>>
    BY <1>9 DEF Tick, editionVars, records
  <2>2. CurrencyOK' /\ JobsOK' /\ LedgerInv'
    BY <2>1 DEF linkVars, LedgerInv
  <2>3. QED
    BY <1>1, <1>2, <2>1, <2>2
<1>10. CASE DropCheckpoint
  <2>1. /\ linkRows' \subseteq linkRows /\ editionRows' \subseteq editionRows
        /\ UNCHANGED <<page, now, baseline, linkJob, witnessed, checkedAt, editionJob, superseded,
                       tombstones, adopting, cut, queue>>
    BY <1>10 DEF DropCheckpoint, pages, records
  <2>2. CurrencyOK' /\ WitnessedOK' /\ JobsOK' /\ LedgerInv'
    BY <2>1 DEF LedgerInv
  <2>3. DriftInv' /\ DriftStep
    BY <2>1 DEF DriftInv, DriftStep, Filed, Rows
  <2>4. QED
    BY <1>2, <2>1, <2>2, <2>3
<1>11. CASE JobKilled
  <2>1. UNCHANGED <<page, now, baseline, linkRows, witnessed, checkedAt, editionRows, superseded,
                    tombstones, queue>>
    BY <1>11 DEF JobKilled, pages
  <2>2. \/ linkJob # Resting /\ linkJob' = Resting /\ cut' = cut \cup {linkJob.source}
           /\ UNCHANGED <<editionJob, adopting>>
        \/ editionJob # Resting /\ editionJob' = Resting /\ cut' = cut \cup {editionJob.source}
           /\ UNCHANGED <<linkJob, adopting>>
        \/ adopting' = <<>> /\ UNCHANGED <<linkJob, editionJob, cut>>
    BY <1>11 DEF JobKilled
  <2>3. CurrencyOK' /\ WitnessedOK' /\ JobsOK'
    BY <2>1, <2>2 DEF Job, Resting
  <2>4. LedgerInv'
    BY <2>1, <2>2 DEF LedgerInv
  <2>5. DriftInv' /\ DriftStep
    BY <2>1, <2>2 DEF DriftInv, DriftStep, Filed, Rows
  <2>6. QED
    BY <1>2, <2>1, <2>3, <2>4, <2>5
<1>12. ASSUME NEW id \in Rows, CloseEntry(id)
       PROVE  QueueInv' /\ CurrencyInv' /\ DriftStep
  <2>1. /\ queue[id].kind # "pending-source" /\ queue' = [queue EXCEPT ![id].open = FALSE]
        /\ UNCHANGED <<page, now, linkVars, checkedAt, editionRows, editionJob, superseded,
                       tombstones, adopting, cut>>
    BY <1>12 DEF CloseEntry, editionVars, records
  <2>2. \A o \in Rows : queue[o] \in Entry
    BY DEF QueueInv, QueueOK, Rows
  <2>3. Rows' = Rows
        /\ \A o \in Rows : queue'[o] = IF o = id THEN [queue[id] EXCEPT !.open = FALSE] ELSE queue[o]
    BY <2>1 DEF QueueInv, QueueOK, Rows
  <2>10. QueueOK'
    <3>1. [queue[id] EXCEPT !.open = FALSE] \in Entry
      BY <2>2 DEF Entry
    <3>2. QED
      BY <2>1, <3>1 DEF QueueInv, QueueOK, Rows
  <2>4. \A o \in Rows : /\ queue'[o].kind = queue[o].kind /\ queue'[o].source = queue[o].source
                        /\ queue'[o].reason = queue[o].reason
                        /\ queue'[o].open => queue[o].open
                        /\ queue[o].kind = "pending-source" => queue'[o].open = queue[o].open
    <3>1. /\ queue'[id].kind = queue[id].kind /\ queue'[id].source = queue[id].source
          /\ queue'[id].reason = queue[id].reason /\ queue'[id].open = FALSE
      BY <2>2, <2>3 DEF Entry
    <3>2. ASSUME NEW o \in Rows, o # id PROVE queue'[o] = queue[o]
      BY <2>3, <3>2
    <3>3. ASSUME NEW o \in Rows
          PROVE  /\ queue'[o].kind = queue[o].kind /\ queue'[o].source = queue[o].source
                 /\ queue'[o].reason = queue[o].reason
      BY <3>1, <3>2
    <3>4. ASSUME NEW o \in Rows, queue'[o].open PROVE queue[o].open
      BY <3>1, <3>2, <3>4
    <3>5. ASSUME NEW o \in Rows, queue[o].kind = "pending-source" PROVE queue'[o].open = queue[o].open
      BY <2>1, <3>2, <3>5
    <3>6. QED
      BY <3>3, <3>4, <3>5
  <2>5. \A s \in Sources : OpenIssues(s)' = OpenIssues(s)
    BY <2>3, <2>4 DEF OpenIssues
  <2>6. QueueInv'
    BY <2>1, <2>3, <2>4, <2>5, <2>10 DEF QueueInv, FindingsDoNotStack, RefusedIsVisible
  <2>7. \A s \in Sources : Filed(s) => Filed(s)'
    BY <2>3, <2>4 DEF Filed
  <2>8. CurrencyOK' /\ JobsOK' /\ LedgerInv'
    BY <2>1 DEF linkVars, LedgerInv
  <2>9. QED
    BY <1>1, <2>1, <2>6, <2>7, <2>8
<1>13. QED
  BY <1>3, <1>4, <1>5, <1>6, <1>7, <1>8, <1>9, <1>10, <1>11, <1>12 DEF CurrencyNext, LinkStep

-----------------------------------------------------------------------------
(* Verification. *)

\* How everybody but a verifier changes the queue: rows keep their kind and their bounces,
\* new ones have not been bounced, and a source gets an issue only when it has none open.
QueueMoves ==
    /\ Rows \subseteq Rows'
    /\ \A id \in Rows : queue'[id].kind = queue[id].kind /\ queue'[id].bounces = queue[id].bounces
    /\ \A id \in Rows' \ Rows : queue'[id].bounces = 0
    /\ \A s \in Sources : \/ OpenIssues(s)' \subseteq OpenIssues(s)
                          \/ OpenIssues(s) = {} /\ \E id \in Rows' : OpenIssues(s)' \subseteq {id}

\* The two statements of `file` at once.
LEMMA FileMoves ==
    ASSUME QueueOK, NEW kind \in EntryKinds, NEW s \in Sources, NEW reason \in Reasons,
           File(kind, s, reason)
    PROVE  QueueMoves
<1> DEFINE new == [kind |-> kind, source |-> s, reason |-> reason, bounces |-> 0, open |-> TRUE]
<1>1. CASE Selected(kind, s, reason) = {} /\ queue' = Append(queue, new)
  <2>1. /\ Rows' = Rows \cup {Len(queue) + 1}
        /\ \A id \in Rows : queue'[id] = queue[id]
        /\ queue'[Len(queue) + 1] = new
    BY <1>1 DEF Rows, QueueOK
  <2>2. ASSUME NEW x \in Sources, ~ (kind = "pending-source" /\ x = s)
        PROVE  OpenIssues(x)' \subseteq OpenIssues(x)
    BY <2>1, <2>2 DEF OpenIssues
  <2>3. ASSUME kind = "pending-source"
        PROVE  OpenIssues(s) = {} /\ OpenIssues(s)' \subseteq {Len(queue) + 1}
    <3>1. OpenIssues(s) = {}
      BY <1>1, <2>3 DEF Selected, Matches, OpenIssues
    <3>2. QED
      BY <2>1, <3>1 DEF OpenIssues
  <2>4. QED
    BY <2>1, <2>2, <2>3 DEF QueueMoves
<1>2. ASSUME NEW id \in Selected(kind, s, reason), queue' = [queue EXCEPT ![id].reason = reason]
      PROVE  QueueMoves
  <2>1. id \in Rows /\ queue[id] \in Entry
    BY DEF Selected, QueueOK, Rows
  <2>2. Rows' = Rows /\ \A o \in Rows : queue'[o] = IF o = id THEN [queue[id] EXCEPT !.reason = reason]
                                                    ELSE queue[o]
    BY <1>2, <2>1 DEF QueueOK, Rows
  <2>3. \A o \in Rows : /\ queue'[o].kind = queue[o].kind /\ queue'[o].bounces = queue[o].bounces
                        /\ queue'[o].open = queue[o].open /\ queue'[o].source = queue[o].source
    BY <2>1, <2>2 DEF Entry
  <2>4. QED
    BY <2>2, <2>3 DEF QueueMoves, OpenIssues
<1>3. QED
  BY <1>1, <1>2, FileStep

LEMMA ResolveMoves ==
    ASSUME QueueOK, NEW s \in Sources, Resolve("pending-source", s)
    PROVE  QueueMoves
<1>1. Rows' = Rows /\ \A id \in Rows :
          queue'[id] = IF queue[id].open /\ queue[id].kind = "pending-source" /\ queue[id].source = s
                       THEN [queue[id] EXCEPT !.open = FALSE] ELSE queue[id]
  BY DEF Resolve, Rows, QueueOK
<1>2. \A id \in Rows : queue[id] \in Entry
  BY DEF QueueOK, Rows
<1>3. \A id \in Rows : /\ queue'[id].kind = queue[id].kind /\ queue'[id].bounces = queue[id].bounces
                       /\ queue'[id].source = queue[id].source
                       /\ queue'[id].open => queue[id].open
  <2>1. SUFFICES ASSUME NEW id \in Rows
                 PROVE  /\ queue'[id].kind = queue[id].kind /\ queue'[id].bounces = queue[id].bounces
                        /\ queue'[id].source = queue[id].source
                        /\ queue'[id].open => queue[id].open
    OBVIOUS
  <2>2. CASE queue'[id] = queue[id]
    BY <2>2
  <2>3. CASE queue'[id] = [queue[id] EXCEPT !.open = FALSE]
    BY <1>2, <2>3 DEF Entry
  <2>4. QED
    BY <1>1, <2>2, <2>3
<1>4. QED
  BY <1>1, <1>3 DEF QueueMoves, OpenIssues

LEMMA CloseMoves ==
    ASSUME QueueOK, NEW id \in Rows, queue' = [queue EXCEPT ![id].open = FALSE]
    PROVE  QueueMoves
<1>1. Rows' = Rows /\ \A o \in Rows : queue'[o] = IF o = id THEN [queue[id] EXCEPT !.open = FALSE]
                                                  ELSE queue[o]
  BY DEF QueueOK, Rows
<1>2. queue[id] \in Entry
  BY DEF QueueOK, Rows
<1>3. /\ queue'[id].kind = queue[id].kind /\ queue'[id].bounces = queue[id].bounces
      /\ queue'[id].source = queue[id].source /\ ~ queue'[id].open
  BY <1>1, <1>2 DEF Entry
<1>4. \A o \in Rows : /\ queue'[o].kind = queue[o].kind /\ queue'[o].bounces = queue[o].bounces
                      /\ queue'[o].source = queue[o].source
                      /\ queue'[o].open => queue[o].open
  BY <1>1, <1>3
<1>5. QED
  BY <1>1, <1>4 DEF QueueMoves, OpenIssues

LEMMA NothingMoves == UNCHANGED queue => QueueMoves
BY DEF QueueMoves, Rows, OpenIssues

\* What ingestion does to the queue (pipeline.py:81, 173).
LEMMA IngestionMoves == ASSUME QueueOK, IngestionNext PROVE QueueMoves
<1>1. "partially-ingested" \in Reasons /\ "acquisition-failed" \in Reasons
      /\ "pending-source" \in EntryKinds
  BY DEF Reasons, PendingReasons, EntryKinds
<1>2. ASSUME NEW s \in Sources, NEW k \in KindLists \cup {None}, NEW f \in Floors,
             ingest_source(s, k, f)
      PROVE  QueueMoves
  <2>1. \/ UNCHANGED queue \/ Resolve("pending-source", s)
        \/ File("pending-source", s, "acquisition-failed")
        \/ File("pending-source", s, "partially-ingested")
    BY <1>2 DEF ingest_source, IngestMissing, IngestStored
  <2>2. QED
    BY <1>1, <2>1, NothingMoves, ResolveMoves, FileMoves
<1>3. CASE Acquire
  BY <1>3, NothingMoves DEF Acquire, Put, WriteManifest, PutKilled
<1>4. ASSUME NEW s \in Sources, NEW k \in KindLists \cup {None}, NEW f \in Floors,
             IngestKilled(s, k, f)
      PROVE  QueueMoves
  BY <1>4, NothingMoves DEF IngestKilled
<1>5. CASE Embed \/ UpgradeTools \/ \E s \in Sources : DeleteRows(s)
  BY <1>5, NothingMoves DEF Embed, UpgradeTools, DeleteRows
<1>6. CASE reingest_all
  BY <1>2, <1>6 DEF reingest_all, Floors
<1>7. QED
  BY <1>2, <1>3, <1>4, <1>5, <1>6 DEF IngestionNext, Ingest

\* What the currency jobs, `supersede` and the human do to it.
LEMMA CurrencyMoves == ASSUME QueueOK, JobsOK, LedgerInv, CurrencyNext PROVE QueueMoves
<1>1. "link-checker" \in EntryKinds /\ "edition-check" \in EntryKinds
      /\ "edition-mismatch" \in Reasons /\ "edition-superseded" \in Reasons
  BY DEF EntryKinds, Reasons
<1>2. ASSUME NEW reason \in Reasons, FileLinkFinding(reason)
      PROVE  QueueMoves
  <2>1. linkJob.source \in Sources
    BY <1>2 DEF FileLinkFinding, JobsOK, Resting
  <2>2. QED
    BY <1>1, <1>2, <2>1, FileMoves DEF FileLinkFinding
<1>3. CASE EditionDone
  <2>1. editionJob.source \in Sources
    BY <1>3 DEF EditionDone, JobsOK
  <2>2. QED
    BY <1>1, <1>3, <2>1, FileMoves, NothingMoves DEF EditionDone
<1>4. CASE Announce
  <2>1. PICK s \in Sources : s = adopting[1]
    BY <1>4 DEF Announce, LedgerInv
  <2>2. QED
    BY <1>1, <1>4, <2>1, FileMoves DEF Announce
<1>5. ASSUME NEW id \in Rows, CloseEntry(id) PROVE QueueMoves
  BY <1>5, CloseMoves DEF CloseEntry
<1>6. CASE \/ \E s \in Sources :
                 \/ CheckLink(s) \/ LinkDead(s)
                 \/ \E fetched \in BOOLEAN : CheckEdition(s, fetched)
                 \/ \E t \in Sources : Supersede(s, t)
                 \/ \E body \in Bodies : PageChanges(s, body)
           \/ LinkDone \/ Bury \/ Tick \/ DropCheckpoint \/ JobKilled
  BY <1>6, NothingMoves DEF CheckLink, LinkDead, CheckEdition, Supersede, PageChanges, LinkDone, Bury,
                            Tick, DropCheckpoint, JobKilled
<1>7. QED
  BY <1>2, <1>3, <1>4, <1>5, <1>6 DEF CurrencyNext

\* What a verifier remembers of the queue between its two statements: an issue, or that
\* there was none to file into.
FoundPending ==
    \A p \in Verifiers :
        /\ verifier[p].pc \in {"file", "refile", "bounce"} /\ verifier[p].found # NoEntry =>
               verifier[p].found \in Rows /\ queue[verifier[p].found].kind = "pending-source"
        /\ At(p, "bounce") => verifier[p].found # NoEntry
        /\ At(p, "file") => verifier[p].left # <<>>

Bouncing(id) == {p \in Verifiers : At(p, "bounce") /\ verifier[p].found = id}
Opening(s) ==
    {p \in Verifiers : /\ verifier[p].pc \in {"file", "refile"}
                       /\ verifier[p].target = s /\ verifier[p].found = NoEntry}

\* The bounces an issue has and is about to get; the issues a source has and is about to get.
BudgetInv ==
    \A id \in Rows :
        queue[id].bounces + Cardinality(Bouncing(id)) <= Budget + Cardinality(Verifiers) - 1
IssuesInv ==
    \A s \in Sources :
        Cardinality(OpenIssues(s)) + Cardinality(Opening(s)) <= Cardinality(Verifiers) + 1

Claims == FoundPending /\ BudgetInv /\ IssuesInv

\* What the last decisions minted is on the register, or in the memory of whoever holds the
\* emptied file, but for what is exposed; and of two that write at once both mints are.
WritersInv ==
    /\ (\A q \in Verifiers : ~ At(q, "dump")) =>
           \A f \in Facts : conflicts[f] \subseteq register \cup exposed
    /\ \A q \in Writers, f \in Facts : conflicts[f] \subseteq verifier[q].loaded \cup exposed
    /\ \A p, q \in Writers : p # q => Mints(p) \subseteq exposed

\* The row of the fact the nightly job is at is not settled before its decision is on main.
RowsInv ==
    /\ \A p \in Nightly : ~ At(p, "idle") => rows[verifier[p].fact] = "none"
    /\ \A p \in Nightly : verifier[p].pc \in {"select", "refile", "bounce"} =>
           conflicts[verifier[p].fact] = {}
    /\ ConflictsAreLanded

RegisterInv == WritersInv /\ RowsInv

VerificationInv == VerificationOK /\ Claims /\ RegisterInv

LEMMA BouncesType == ASSUME QueueOK, NEW id \in Rows PROVE queue[id].bounces \in Nat
<1>1. queue[id] \in Entry
  BY DEF QueueOK, Rows
<1>2. QED
  BY <1>1 DEF Entry

\* A nonempty set of numbers has a least one.
LEMMA LeastIssue ==
    ASSUME NEW S \in SUBSET Nat, S # {}
    PROVE  \E least \in S : \A other \in S : least <= other
<1> DEFINE R == OpToRel(<, Nat)
<1>1. IsWellFoundedOn(R, Nat)
  BY NatLessThanWellFounded
<1>2. \A n, m \in Nat : n < m => <<n, m>> \in R
  BY DEF OpToRel
<1> HIDE DEF R
<1>3. PICK least \in S : \A other \in S : ~ (<<other, least>> \in R)
  BY <1>1, WFMin
<1>4. ASSUME NEW other \in S PROVE least <= other
  <2>1. other \in Nat /\ least \in Nat
    OBVIOUS
  <2>2. ~ (other < least)
    BY <1>2, <1>3, <2>1
  <2>3. QED
    BY <2>1, <2>2
<1>5. QED
  BY <1>4

\* The sets that are counted are finite.
LEMMA Counted ==
    ASSUME QueueOK
    PROVE  /\ \A id : IsFiniteSet(Bouncing(id)) /\ Cardinality(Bouncing(id)) \in Nat
                      /\ Cardinality(Bouncing(id)) <= Cardinality(Verifiers)
           /\ \A s : IsFiniteSet(Opening(s)) /\ Cardinality(Opening(s)) \in Nat
                     /\ Cardinality(Opening(s)) <= Cardinality(Verifiers)
           /\ \A s : IsFiniteSet(OpenIssues(s)) /\ Cardinality(OpenIssues(s)) \in Nat
           /\ Cardinality(Verifiers) \in Nat /\ Cardinality(Verifiers) >= 1
<1>1. IsFiniteSet(Rows)
  BY FS_Interval DEF Rows, QueueOK
<1>2. ASSUME NEW s PROVE IsFiniteSet(OpenIssues(s)) /\ Cardinality(OpenIssues(s)) \in Nat
  <2>1. OpenIssues(s) \subseteq Rows
    BY DEF OpenIssues
  <2>2. QED
    BY <1>1, <2>1, FS_Subset, FS_CardinalityType
<1>3. IsFiniteSet(Verifiers) /\ Cardinality(Verifiers) \in Nat /\ Cardinality(Verifiers) >= 1
  <2>1. IsFiniteSet(Verifiers) /\ Verifiers # {}
    BY VerifiersAssumption
  <2>2. Cardinality(Verifiers) \in Nat /\ Cardinality(Verifiers) # 0
    BY <2>1, FS_CardinalityType, FS_EmptySet
  <2>3. QED
    BY <2>1, <2>2
<1>4. ASSUME NEW T \in SUBSET Verifiers
      PROVE  IsFiniteSet(T) /\ Cardinality(T) \in Nat /\ Cardinality(T) <= Cardinality(Verifiers)
  BY <1>3, FS_Subset, FS_CardinalityType
<1>5. \A id : Bouncing(id) \in SUBSET Verifiers
  BY DEF Bouncing
<1>6. \A s : Opening(s) \in SUBSET Verifiers
  BY DEF Opening
<1>7. QED
  BY <1>2, <1>3, <1>4, <1>5, <1>6

\* What a decision mints depends on its fact and its pairs.
LEMMA SameMints ==
    ASSUME NEW q \in Verifiers, verifier'[q] = verifier[q]
           \/ (verifier'[q].fact = verifier[q].fact /\ verifier'[q].pairs = verifier[q].pairs)
    PROVE  Mints(q)' = Mints(q)
<1>1. verifier'[q].fact = verifier[q].fact /\ verifier'[q].pairs = verifier[q].pairs
  OBVIOUS
<1>2. IsAdmissible(q)' = IsAdmissible(q)
  BY <1>1 DEF IsAdmissible
<1>3. QED
  BY <1>1, <1>2 DEF Mints

\* The steps of the others leave what the verifiers claim as it is.
LEMMA OthersKeep ==
    ASSUME QueueOK, QueueOK', QueueMoves, VerificationInv, UNCHANGED verificationVars
    PROVE  VerificationInv'
<1>1. UNCHANGED <<verifier, register, onMain, rows, conflicts, exposed, canaries>>
  BY DEF verificationVars, books
<1>2. (\A id : Bouncing(id)' = Bouncing(id)) /\ \A s : Opening(s)' = Opening(s)
  BY <1>1 DEF Bouncing, Opening, At
<1>3. VerificationOK'
  BY <1>1 DEF VerificationInv, VerificationOK, QueueMoves
<1>4. FoundPending'
  BY <1>1 DEF VerificationInv, Claims, FoundPending, QueueMoves, At
<1>5. RegisterInv'
  <2>1. RowsInv'
    BY <1>1 DEF VerificationInv, RegisterInv, RowsInv, ConflictsAreLanded, At
  <2>2. Writers' = Writers /\ \A q \in Verifiers : Mints(q)' = Mints(q)
    BY <1>1, SameMints DEF Writers
  <2>3. WritersInv'
    BY <1>1, <2>2 DEF VerificationInv, RegisterInv, WritersInv, Writers, At
  <2>4. QED
    BY <2>1, <2>3 DEF RegisterInv
<1>6. BudgetInv'
  <2>1. SUFFICES ASSUME NEW id \in Rows'
                 PROVE  queue'[id].bounces + Cardinality(Bouncing(id))
                            <= Budget + Cardinality(Verifiers) - 1
    BY <1>2 DEF BudgetInv
  <2>2. CASE id \in Rows
    BY <2>2 DEF VerificationInv, Claims, BudgetInv, QueueMoves
  <2>3. CASE id \notin Rows
    <3>1. Bouncing(id) = {}
      BY <2>3 DEF VerificationInv, Claims, FoundPending, Bouncing, At
    <3>2. Cardinality(Bouncing(id)) = 0 /\ queue'[id].bounces = 0
      BY <2>3, <3>1, FS_EmptySet DEF QueueMoves
    <3>3. QED
      BY <3>2, Counted, BudgetAssumption
  <2>4. QED
    BY <2>2, <2>3
<1>7. IssuesInv'
  <2>1. SUFFICES ASSUME NEW s \in Sources
                 PROVE  Cardinality(OpenIssues(s)') + Cardinality(Opening(s))
                            <= Cardinality(Verifiers) + 1
    BY <1>2 DEF IssuesInv
  <2>2. CASE OpenIssues(s)' \subseteq OpenIssues(s)
    <3>1. IsFiniteSet(OpenIssues(s)) /\ Cardinality(OpenIssues(s)) \in Nat
          /\ Cardinality(Opening(s)) \in Nat /\ Cardinality(Verifiers) \in Nat
      BY Counted
    <3>2. Cardinality(OpenIssues(s)') \in Nat /\ Cardinality(OpenIssues(s)') <= Cardinality(OpenIssues(s))
      BY <2>2, <3>1, FS_Subset, FS_CardinalityType
    <3>3. Cardinality(OpenIssues(s)) + Cardinality(Opening(s)) <= Cardinality(Verifiers) + 1
      BY DEF VerificationInv, Claims, IssuesInv
    <3>4. QED
      BY <3>1, <3>2, <3>3
  <2>3. CASE \E id \in Rows' : OpenIssues(s)' \subseteq {id}
    <3>1. PICK id \in Rows' : OpenIssues(s)' \subseteq {id}
      BY <2>3
    <3>2. Cardinality(OpenIssues(s)') \in Nat /\ Cardinality(OpenIssues(s)') <= 1
      <4>1. IsFiniteSet({id}) /\ Cardinality({id}) = 1
        BY FS_Singleton
      <4>2. IsFiniteSet(OpenIssues(s)') /\ Cardinality(OpenIssues(s)') <= Cardinality({id})
        BY <3>1, <4>1, FS_Subset
      <4>3. QED
        BY <4>1, <4>2, FS_CardinalityType
    <3>3. QED
      BY <3>2, Counted
  <2>4. QED
    BY <2>2, <2>3 DEF QueueMoves
<1>8. QED
  BY <1>3, <1>4, <1>5, <1>6, <1>7 DEF VerificationInv, Claims

\* A verifier that leaves the queue alone claims what the queue allows it to.
LEMMA BecomeKeeps ==
    ASSUME QueueOK, VerificationOK, Claims, NEW p \in Verifiers, NEW w \in Verifier, Become(p, w),
           UNCHANGED queue,
           w.pc \in {"file", "refile", "bounce"} /\ w.found # NoEntry =>
               w.found \in Rows /\ queue[w.found].kind = "pending-source",
           w.pc = "bounce" => w.found # NoEntry /\ queue[w.found].bounces < Budget,
           w.pc = "file" => w.left # <<>>,
           w.pc \in {"file", "refile"} /\ w.found = NoEntry => OpenIssues(w.target) = {}
    PROVE  Claims'
<1>1. /\ verifier' = [verifier EXCEPT ![p] = w]
      /\ \A q \in Verifiers : verifier'[q] = IF q = p THEN w ELSE verifier[q]
      /\ Rows' = Rows /\ \A s : OpenIssues(s)' = OpenIssues(s)
  BY DEF Become, VerificationOK, Rows, OpenIssues
<1>2. FoundPending'
  BY <1>1 DEF Claims, FoundPending, At
<1>4. BudgetInv'
  <2>1. SUFFICES ASSUME NEW id \in Rows
                 PROVE  queue[id].bounces + Cardinality(Bouncing(id)')
                            <= Budget + Cardinality(Verifiers) - 1
    BY <1>1 DEF BudgetInv
  <2>2. queue[id].bounces \in Nat
    BY BouncesType
  <2>3. CASE w.pc = "bounce" /\ w.found = id
    <3>1. Bouncing(id)' \subseteq Verifiers
      BY DEF Bouncing
    <3>2. Cardinality(Bouncing(id)') <= Cardinality(Verifiers) /\ Cardinality(Bouncing(id)') \in Nat
      BY <3>1, VerifiersAssumption, FS_Subset, FS_CardinalityType
    <3>3. QED
      BY <2>2, <2>3, <3>2, Counted, BudgetAssumption
  <2>4. CASE ~ (w.pc = "bounce" /\ w.found = id)
    <3>1. Bouncing(id)' \subseteq Bouncing(id)
      BY <1>1, <2>4 DEF Bouncing, At
    <3>2. Cardinality(Bouncing(id)') <= Cardinality(Bouncing(id)) /\ Cardinality(Bouncing(id)') \in Nat
      BY <3>1, Counted, FS_Subset, FS_CardinalityType
    <3>3. QED
      BY <2>2, <3>2, Counted, BudgetAssumption DEF Claims, BudgetInv
  <2>5. QED
    BY <2>3, <2>4
<1>5. IssuesInv'
  <2>1. SUFFICES ASSUME NEW s \in Sources
                 PROVE  Cardinality(OpenIssues(s)) + Cardinality(Opening(s)')
                            <= Cardinality(Verifiers) + 1
    BY <1>1 DEF IssuesInv
  <2>2. CASE w.pc \in {"file", "refile"} /\ w.target = s /\ w.found = NoEntry
    <3>1. Opening(s)' \subseteq Verifiers
      BY DEF Opening
    <3>2. Cardinality(Opening(s)') <= Cardinality(Verifiers) /\ Cardinality(Opening(s)') \in Nat
      BY <3>1, VerifiersAssumption, FS_Subset, FS_CardinalityType
    <3>3. Cardinality(OpenIssues(s)) = 0
      BY <2>2, FS_EmptySet
    <3>4. QED
      BY <3>2, <3>3, Counted
  <2>3. CASE ~ (w.pc \in {"file", "refile"} /\ w.target = s /\ w.found = NoEntry)
    <3>1. Opening(s)' \subseteq Opening(s)
      BY <1>1, <2>3 DEF Opening
    <3>2. Cardinality(Opening(s)') <= Cardinality(Opening(s)) /\ Cardinality(Opening(s)') \in Nat
      BY <3>1, Counted, FS_Subset, FS_CardinalityType
    <3>3. QED
      BY <3>2, Counted DEF Claims, IssuesInv
  <2>4. QED
    BY <2>2, <2>3
<1>6. QED
  BY <1>2, <1>4, <1>5 DEF Claims

\* The second statement of a verifier's `file`, on what the first one saw (store.py:176).
LEMMA UpsertStep ==
    ASSUME QueueOK, VerificationOK, Claims, NEW p \in Verifiers, NEW w \in Verifier, Become(p, w),
           verifier[p].pc \in {"file", "refile"}, w.pc \in {"pairs", "idle"},
           NEW reason \in PendingReasons,
           Upsert("pending-source", verifier[p].target, reason, verifier[p].found)
    PROVE  /\ QueueOK' /\ FindingsKept /\ Claims' /\ Rows \subseteq Rows'
           /\ \A s \in Sources : OpenIssues(s) \subseteq OpenIssues(s)'
<1> DEFINE target == verifier[p].target
           found == verifier[p].found
           new == [kind |-> "pending-source", source |-> target, reason |-> reason,
                   bounces |-> 0, open |-> TRUE]
<1>1. /\ verifier[p] \in Verifier /\ target \in Sources /\ reason \in Reasons
      /\ \A q \in Verifiers : verifier'[q] = IF q = p THEN w ELSE verifier[q]
  BY DEF Become, VerificationOK, Verifier, Reasons
<1>2. /\ \A id : Bouncing(id)' = Bouncing(id)
      /\ \A s : Opening(s)' = Opening(s) \ {p}
  BY <1>1 DEF Bouncing, Opening, At
<1>3. CASE found = NoEntry
  <2>1. queue' = Append(queue, new)
    BY <1>3 DEF Upsert
  <2>2. /\ Rows' = Rows \cup {Len(queue) + 1} /\ Len(queue) + 1 \notin Rows
        /\ \A id \in Rows : queue'[id] = queue[id]
        /\ queue'[Len(queue) + 1] = new
    BY <2>1 DEF Rows, QueueOK
  <2>3. QueueOK'
    <3>1. new \in Entry
      BY <1>1 DEF Entry, EntryKinds
    <3>2. QED
      BY <2>1, <3>1 DEF QueueOK
  <2>4. FindingsKept
    BY <2>2 DEF FindingsKept
  <2>5. \A s \in Sources : OpenIssues(s)' = IF s = target THEN OpenIssues(s) \cup {Len(queue) + 1}
                                            ELSE OpenIssues(s)
    BY <2>2 DEF OpenIssues
  <2>6. FoundPending'
    BY <1>1, <2>2 DEF Claims, FoundPending, At
  <2>7. BudgetInv'
    <3>1. SUFFICES ASSUME NEW id \in Rows'
                   PROVE  queue'[id].bounces + Cardinality(Bouncing(id))
                              <= Budget + Cardinality(Verifiers) - 1
      BY <1>2 DEF BudgetInv
    <3>2. CASE id \in Rows
      BY <2>2, <3>2 DEF Claims, BudgetInv
    <3>3. CASE id = Len(queue) + 1
      <4>1. Bouncing(id) = {}
        BY <2>2, <3>3 DEF Claims, FoundPending, Bouncing, At
      <4>2. Cardinality(Bouncing(id)) = 0
        BY <4>1, FS_EmptySet
      <4>3. queue'[id] = new
        BY <2>2, <3>3
      <4>4. queue'[id].bounces = 0
        BY <4>3
      <4>5. QED
        BY <4>2, <4>4, Counted, BudgetAssumption
    <3>4. QED
      BY <2>2, <3>2, <3>3
  <2>8. IssuesInv'
    <3>1. SUFFICES ASSUME NEW s \in Sources
                   PROVE  Cardinality(OpenIssues(s)') + Cardinality(Opening(s) \ {p})
                              <= Cardinality(Verifiers) + 1
      BY <1>2 DEF IssuesInv
    <3>2. CASE s = target
      <4>1. p \in Opening(s)
        BY <1>3, <3>2 DEF Opening
      <4>2. Cardinality(Opening(s) \ {p}) = Cardinality(Opening(s)) - 1
        BY <4>1, Counted, FS_RemoveElement
      <4>3. OpenIssues(s)' = OpenIssues(s) \cup {Len(queue) + 1} /\ Len(queue) + 1 \notin OpenIssues(s)
        BY <2>2, <2>5, <3>2 DEF OpenIssues
      <4>4. Cardinality(OpenIssues(s)') = Cardinality(OpenIssues(s)) + 1
        BY <4>3, Counted, FS_AddElement
      <4>5. QED
        BY <4>2, <4>4, Counted DEF Claims, IssuesInv
    <3>3. CASE s # target
      <4>1. Opening(s) \ {p} = Opening(s) /\ OpenIssues(s)' = OpenIssues(s)
        BY <2>5, <3>3 DEF Opening
      <4>2. QED
        BY <4>1 DEF Claims, IssuesInv
    <3>4. QED
      BY <3>2, <3>3
  <2>9. QED
    BY <2>2, <2>3, <2>4, <2>5, <2>6, <2>7, <2>8 DEF Claims
<1>4. CASE found # NoEntry
  <2>1. queue' = [queue EXCEPT ![found].reason = reason]
    BY <1>4 DEF Upsert
  <2>2. found \in Rows /\ queue[found].kind = "pending-source" /\ queue[found] \in Entry
    BY <1>4 DEF Claims, FoundPending, QueueOK, Rows
  <2>3. Rows' = Rows /\ \A o \in Rows : queue'[o] = IF o = found THEN [queue[found] EXCEPT !.reason = reason]
                                                    ELSE queue[o]
    BY <2>1, <2>2 DEF QueueOK, Rows
  <2>4. \A o \in Rows : /\ queue'[o].kind = queue[o].kind /\ queue'[o].source = queue[o].source
                        /\ queue'[o].open = queue[o].open /\ queue'[o].bounces = queue[o].bounces
    BY <2>2, <2>3 DEF Entry
  <2>5. QueueOK'
    <3>1. [queue[found] EXCEPT !.reason = reason] \in Entry
      BY <1>1, <2>2 DEF Entry
    <3>2. QED
      BY <2>1, <2>2, <3>1 DEF QueueOK, Rows
  <2>6. FindingsKept
    BY <2>2, <2>3, <2>4 DEF FindingsKept
  <2>7. \A s : OpenIssues(s)' = OpenIssues(s)
    BY <2>3, <2>4 DEF OpenIssues
  <2>8. FoundPending'
    BY <1>1, <2>3, <2>4 DEF Claims, FoundPending, At
  <2>9. BudgetInv'
    BY <1>2, <2>3, <2>4 DEF Claims, BudgetInv
  <2>10. IssuesInv'
    <3>1. \A s : Opening(s) \ {p} = Opening(s)
      BY <1>4 DEF Opening
    <3>2. QED
      BY <1>2, <2>7, <3>1 DEF Claims, IssuesInv
  <2>11. QED
    BY <2>3, <2>5, <2>6, <2>7, <2>8, <2>9, <2>10 DEF Claims
<1>5. QED
  BY <1>3, <1>4

\* The bounce a verifier decided on when the budget allowed it (admissibility.py:83).
LEMMA BounceStep ==
    ASSUME QueueOK, VerificationOK, Claims, NEW p \in Verifiers, NEW w \in Verifier, Become(p, w),
           At(p, "bounce"), w.pc = "idle", Bounce(verifier[p].found)
    PROVE  /\ QueueOK' /\ FindingsKept /\ Claims' /\ Rows \subseteq Rows'
           /\ \A s \in Sources : OpenIssues(s) \subseteq OpenIssues(s)'
<1> DEFINE found == verifier[p].found
           bounced == [queue[found] EXCEPT !.bounces = queue[found].bounces + 1]
<1>1. \A q \in Verifiers : verifier'[q] = IF q = p THEN w ELSE verifier[q]
  BY DEF Become, VerificationOK
<1>2. /\ \A id : Bouncing(id)' = Bouncing(id) \ {p}
      /\ \A s : Opening(s)' = Opening(s)
  BY <1>1 DEF Bouncing, Opening, At
<1>3. found \in Rows /\ queue[found].kind = "pending-source" /\ queue[found] \in Entry
  BY DEF Claims, FoundPending, QueueOK, Rows, At
<1>4. queue' = [queue EXCEPT ![found] = bounced]
  BY <1>3 DEF Bounce, QueueOK, Rows
<1>5. bounced \in Entry /\ bounced.bounces = queue[found].bounces + 1
      /\ bounced.kind = queue[found].kind /\ bounced.source = queue[found].source
      /\ bounced.open = queue[found].open
  BY <1>3 DEF Entry
<1> HIDE DEF bounced
<1>6. Rows' = Rows /\ \A o \in Rows : queue'[o] = IF o = found THEN bounced ELSE queue[o]
  BY <1>3, <1>4 DEF QueueOK, Rows
<1>7. QueueOK'
  BY <1>3, <1>4, <1>5 DEF QueueOK, Rows
<1>8. FindingsKept
  BY <1>3, <1>5, <1>6 DEF FindingsKept
<1>9. \A s : OpenIssues(s)' = OpenIssues(s)
  BY <1>5, <1>6 DEF OpenIssues
<1>10. FoundPending'
  BY <1>1, <1>5, <1>6 DEF Claims, FoundPending, At
<1>11. BudgetInv'
  <2>1. SUFFICES ASSUME NEW id \in Rows
                 PROVE  queue'[id].bounces + Cardinality(Bouncing(id) \ {p})
                            <= Budget + Cardinality(Verifiers) - 1
    BY <1>2, <1>6 DEF BudgetInv
  <2>2. queue[id].bounces + Cardinality(Bouncing(id)) <= Budget + Cardinality(Verifiers) - 1
        /\ queue[id].bounces \in Nat
    BY BouncesType DEF Claims, BudgetInv
  <2>3. CASE id = found
    <3>1. p \in Bouncing(id)
      BY <2>3 DEF Bouncing
    <3>2. Cardinality(Bouncing(id) \ {p}) = Cardinality(Bouncing(id)) - 1
      BY <3>1, Counted, FS_RemoveElement
    <3>3. QED
      BY <1>5, <1>6, <2>2, <2>3, <3>2, Counted
  <2>4. CASE id # found
    <3>1. Bouncing(id) \ {p} = Bouncing(id)
      BY <2>4 DEF Bouncing
    <3>2. QED
      BY <1>6, <2>2, <2>4, <3>1
  <2>5. QED
    BY <2>3, <2>4
<1>12. IssuesInv'
  BY <1>2, <1>9 DEF Claims, IssuesInv
<1>13. QED
  BY <1>6, <1>7, <1>8, <1>9, <1>10, <1>11, <1>12 DEF Claims

\* Where verifier p is next, and what its fact's books say then.
LEMMA RowsStep ==
    ASSUME VerificationOK, RowsInv, NEW p \in Verifiers, NEW w \in Verifier, Become(p, w),
           NEW f \in Facts, w.pc # "idle" => w.fact = f, exposed \subseteq exposed',
           \A x \in Facts : rows[x] = "done" => conflicts[x] \subseteq onMain' \cup exposed',
           p \notin Nightly => UNCHANGED <<rows, conflicts>>,
           p \in Nightly =>
               /\ \A x \in Facts \ {f} : rows'[x] = rows[x] /\ conflicts'[x] = conflicts[x]
               /\ rows'[f] = "done" => conflicts'[f] \subseteq onMain' \cup exposed'
               /\ w.pc # "idle" => rows'[f] = "none"
               /\ w.pc \in {"select", "refile", "bounce"} => conflicts'[f] = {}
    PROVE  RowsInv'
<1>1. \A q \in Verifiers : verifier'[q] = IF q = p THEN w ELSE verifier[q]
  BY DEF Become, VerificationOK
<1>2. CASE p \notin Nightly
  <2>1. \A q \in Nightly : verifier'[q] = verifier[q]
    BY <1>1, <1>2, VerifiersAssumption
  <2>2. ConflictsAreLanded'
    BY <1>2 DEF ConflictsAreLanded
  <2>3. QED
    BY <1>2, <2>1, <2>2 DEF RowsInv, At
<1>3. CASE p \in Nightly
  <2>1. \A q \in Nightly : q = p
    BY <1>3, VerifiersAssumption
  <2>2. verifier'[p] = w
    BY <1>1
  <2>4. ConflictsAreLanded'
    <3>1. SUFFICES ASSUME NEW x \in Facts, rows'[x] = "done"
                   PROVE  conflicts'[x] \subseteq onMain' \cup exposed'
      BY DEF ConflictsAreLanded
    <3>2. CASE x = f
      BY <1>3, <3>1, <3>2
    <3>3. CASE x # f
      BY <1>3, <3>1, <3>3
    <3>4. QED
      BY <3>2, <3>3
  <2>5. \A q \in Nightly : ~ At(q, "idle")' => rows'[verifier'[q].fact] = "none"
    BY <1>3, <2>1, <2>2 DEF At
  <2>6. \A q \in Nightly : verifier'[q].pc \in {"select", "refile", "bounce"} =>
            conflicts'[verifier'[q].fact] = {}
    BY <1>3, <2>1, <2>2
  <2>7. QED
    BY <2>4, <2>5, <2>6 DEF RowsInv
<1>4. QED
  BY <1>2, <1>3

\* A verifier that does not write, or no longer does, leaves the register's account alone.
LEMMA LeaveKeeps ==
    ASSUME VerificationOK, WritersInv, NEW p \in Verifiers, NEW w \in Verifier, Become(p, w),
           w.pc \notin {"mint", "dump"}, UNCHANGED register, exposed \subseteq exposed',
           \A f \in Facts : conflicts'[f] \subseteq conflicts[f],
           At(p, "dump") => verifier[p].loaded \subseteq exposed'
    PROVE  WritersInv'
<1>1. /\ verifier'[p] = w
      /\ \A q \in Verifiers \ {p} : verifier'[q] = verifier[q]
  BY DEF Become, VerificationOK
<1>2. Writers' = Writers \ {p} /\ \A q \in Writers' : Mints(q)' = Mints(q)
  <2>1. Writers' = Writers \ {p}
    BY <1>1 DEF Writers
  <2>2. ASSUME NEW q \in Writers' PROVE Mints(q)' = Mints(q)
    <3>1. q \in Verifiers /\ verifier'[q] = verifier[q]
      BY <1>1, <2>1 DEF Writers
    <3>2. QED
      BY <3>1, SameMints
  <2>3. QED
    BY <2>1, <2>2
<1>3. ASSUME \A q \in Verifiers : ~ At(q, "dump")', NEW f \in Facts
      PROVE  conflicts'[f] \subseteq register' \cup exposed'
  <2>1. \A q \in Verifiers \ {p} : ~ At(q, "dump")
    BY <1>1, <1>3 DEF At
  <2>2. CASE At(p, "dump")
    <3>1. conflicts[f] \subseteq verifier[p].loaded \cup exposed
      BY <2>2 DEF WritersInv, Writers, At
    <3>2. QED
      BY <2>2, <3>1
  <2>3. CASE ~ At(p, "dump")
    <3>1. conflicts[f] \subseteq register \cup exposed
      BY <2>1, <2>3 DEF WritersInv
    <3>2. QED
      BY <3>1
  <2>4. QED
    BY <2>2, <2>3
<1>4. ASSUME NEW q \in Writers', NEW f \in Facts
      PROVE  conflicts'[f] \subseteq verifier'[q].loaded \cup exposed'
  <2>1. q \in Writers /\ verifier'[q] = verifier[q]
    BY <1>1, <1>2, <1>4 DEF Writers
  <2>2. conflicts[f] \subseteq verifier[q].loaded \cup exposed
    BY <2>1 DEF WritersInv
  <2>3. QED
    BY <2>1, <2>2
<1>5. ASSUME NEW o \in Writers', NEW q \in Writers', o # q
      PROVE  Mints(o)' \subseteq exposed'
  <2>1. Mints(o) \subseteq exposed /\ Mints(o)' = Mints(o)
    BY <1>2, <1>5 DEF WritersInv
  <2>2. QED
    BY <2>1
<1>6. QED
  BY <1>3, <1>4, <1>5 DEF WritersInv

\* What every step of a verifier keeps.
Kept ==
    /\ QueueOK' /\ FindingsKept /\ VerificationInv'
    /\ \A s \in Sources : OpenIssues(s) \subseteq OpenIssues(s)'

LEMMA QuietQueue ==
    ASSUME QueueOK, UNCHANGED queue
    PROVE  /\ QueueOK' /\ FindingsKept /\ Rows' = Rows
           /\ \A s \in Sources : OpenIssues(s) \subseteq OpenIssues(s)'
BY DEF QueueOK, FindingsKept, Rows, OpenIssues

LEMMA IdleType == Idle \in Verifier /\ Idle.pc = "idle" /\ Idle.found = NoEntry
<1>1. (CHOOSE f \in Facts : TRUE) \in Facts /\ (CHOOSE s \in Sources : TRUE) \in Sources
  BY FactsAssumption
<1>2. QED
  BY <1>1 DEF Idle, Verifier, Points

\* A verifier's record, taken apart and put together.
LEMMA VerifierFields ==
    ASSUME NEW v \in Verifier
    PROVE  /\ v.pc \in Points /\ v.fact \in Facts /\ v.left \in Seq(Sources)
           /\ v.pairs \subseteq Rules!Pair /\ v.target \in Sources /\ v.found \in Nat \cup {NoEntry}
           /\ v.loaded \subseteq Conflict
BY DEF Verifier

\* One more verdict on a pair of the fact.
LEMMA WithStep ==
    ASSUME VerificationOK, NEW p \in Verifiers, NEW s \in Sources, NEW verdict \in Rules!PairVerdicts,
           verifier[p].left # <<>>
    PROVE  /\ With(p, s, verdict) \in Verifier
           /\ With(p, s, verdict).pc = "pairs" /\ With(p, s, verdict).fact = verifier[p].fact
           /\ With(p, s, verdict).found = verifier[p].found
<1> DEFINE v == verifier[p]
           pair == [source |-> s, verdict |-> verdict, since |-> "none"]
<1>1. v \in Verifier
  BY DEF VerificationOK
<1>2. pair \in Rules!Pair
  BY DEF Rules!Pair, Rules!SinceStatuses
<1>3. Tail(v.left) \in Seq(Sources) /\ v.pairs \cup {pair} \subseteq Rules!Pair
  BY <1>1, <1>2, VerifierFields
<1> DEFINE pairs == v.pairs \cup {pair}
           others == Tail(v.left)
<1>4. With(p, s, verdict) = [v EXCEPT !.pc = "pairs", !.left = others, !.pairs = pairs]
  BY DEF With
<1> HIDE DEF pair, pairs, others
<1>5. "pairs" \in Points /\ others \in Seq(Sources) /\ pairs \in SUBSET Rules!Pair
  BY <1>3 DEF Points, pairs, others
<1>6. QED
  BY <1>1, <1>4, <1>5 DEF Verifier

\* What a decision mints is about the fact and sources.
LEMMA MintsType ==
    ASSUME VerificationOK, NEW p \in Verifiers
    PROVE  /\ Mints(p) \subseteq {verifier[p].fact} \X Sources /\ verifier[p].fact \in Facts
           /\ Mints(p) \subseteq Conflict
<1>1. verifier[p] \in Verifier
  BY DEF VerificationOK
<1>2. verifier[p].fact \in Facts /\ verifier[p].pairs \subseteq Rules!Pair
  BY <1>1, VerifierFields
<1>3. Rules!Minted(verifier[p].pairs, IsAdmissible(p)) \subseteq Sources
  BY <1>2 DEF Rules!Minted, Rules!Pair
<1>4. QED
  BY <1>2, <1>3 DEF Mints, Conflict

LEMMA TypeStep ==
    ASSUME VerificationOK, NEW p \in Verifiers, NEW w \in Verifier, Become(p, w),
           Rows \subseteq Rows', w.found \in Rows \cup {NoEntry},
           register' \subseteq Conflict, onMain' \subseteq Conflict, exposed' \subseteq Conflict,
           rows' \in [Facts -> {"none", "done", "halted"}],
           conflicts' \in [Facts -> SUBSET Conflict],
           canaries' \in {"unasked", "caught", "passed"}
    PROVE  VerificationOK'
<1>1. verifier' \in [Verifiers -> Verifier]
      /\ \A q \in Verifiers : verifier'[q] = IF q = p THEN w ELSE verifier[q]
  BY DEF Become, VerificationOK
<1>2. QED
  BY <1>1 DEF VerificationOK

\* A verifier goes on within its fact, and the books do not change.
LEMMA SettledStep ==
    ASSUME VerificationOK, RegisterInv, NEW p \in Verifiers, NEW w \in Verifier, Become(p, w),
           UNCHANGED books, canaries' \in {"unasked", "caught", "passed"}, Rows \subseteq Rows',
           w.found \in Rows \cup {NoEntry},
           w.pc # "idle" => w.fact = verifier[p].fact /\ ~ At(p, "idle"),
           w.pc \notin {"select", "refile", "bounce", "mint", "dump"}, ~ At(p, "dump")
    PROVE  VerificationOK' /\ RegisterInv'
<1>1. UNCHANGED <<register, onMain, rows, conflicts, exposed>>
  BY DEF books
<1>2. VerificationOK'
  <2>1. /\ register' \subseteq Conflict /\ onMain' \subseteq Conflict /\ exposed' \subseteq Conflict
        /\ rows' \in [Facts -> {"none", "done", "halted"}]
        /\ conflicts' \in [Facts -> SUBSET Conflict]
    BY <1>1 DEF VerificationOK
  <2>2. QED
    BY <2>1, TypeStep
<1>3. RegisterInv'
  <2>1. w.fact \in Facts /\ RowsInv /\ WritersInv
    BY VerifierFields DEF RegisterInv
  <2>2. \A x \in Facts : rows[x] = "done" => conflicts[x] \subseteq onMain' \cup exposed'
    BY <1>1, <2>1 DEF RowsInv, ConflictsAreLanded
  <2>3. p \in Nightly /\ w.pc # "idle" => rows[w.fact] = "none"
    BY <2>1 DEF RowsInv
  <2>4. RowsInv'
    BY <1>1, <2>1, <2>2, <2>3, RowsStep
  <2>5. WritersInv'
    BY <1>1, <2>1, LeaveKeeps
  <2>6. QED
    BY <2>4, <2>5 DEF RegisterInv
<1>4. QED
  BY <1>2, <1>3

\* A verifier goes on, and neither the queue nor the books change.
LEMMA MoveStep ==
    ASSUME QueueOK, VerificationInv, NEW p \in Verifiers, NEW w \in Verifier, Become(p, w),
           UNCHANGED <<queue, register, onMain, rows, conflicts>>,
           exposed \subseteq exposed', exposed' \subseteq Conflict,
           canaries' \in {"unasked", "caught", "passed"},
           w.found \in Rows \cup {NoEntry},
           w.pc \in {"file", "refile", "bounce"} /\ w.found # NoEntry =>
               w.found \in Rows /\ queue[w.found].kind = "pending-source",
           w.pc \notin {"bounce", "mint", "dump"},
           At(p, "dump") => verifier[p].loaded \subseteq exposed',
           w.pc = "file" => w.left # <<>>,
           w.pc \in {"file", "refile"} /\ w.found = NoEntry => OpenIssues(w.target) = {},
           p \in Nightly /\ w.pc # "idle" => rows[w.fact] = "none",
           p \in Nightly /\ w.pc \in {"select", "refile"} => conflicts[w.fact] = {}
    PROVE  Kept
<1>1. VerificationOK /\ Claims /\ RegisterInv
  BY DEF VerificationInv
<1>2. QueueOK' /\ FindingsKept /\ Rows' = Rows /\ \A s \in Sources : OpenIssues(s) \subseteq OpenIssues(s)'
  BY QuietQueue
<1>3. VerificationOK'
  <2>1. /\ register' \subseteq Conflict /\ onMain' \subseteq Conflict /\ exposed' \subseteq Conflict
        /\ rows' \in [Facts -> {"none", "done", "halted"}]
        /\ conflicts' \in [Facts -> SUBSET Conflict]
    BY <1>1 DEF VerificationOK
  <2>2. QED
    BY <1>1, <1>2, <2>1, TypeStep
<1>4. Claims'
  BY <1>1, BecomeKeeps
<1>5. RegisterInv'
  <2>1. w.fact \in Facts /\ RowsInv /\ WritersInv
    BY <1>1, VerifierFields DEF RegisterInv
  <2>2. \A x \in Facts : rows[x] = "done" => conflicts[x] \subseteq onMain' \cup exposed'
    BY <2>1 DEF RowsInv, ConflictsAreLanded
  <2>3. RowsInv'
    BY <1>1, <2>1, <2>2, RowsStep
  <2>4. WritersInv'
    BY <1>1, <2>1, LeaveKeeps
  <2>5. QED
    BY <2>3, <2>4 DEF RegisterInv
<1>6. QED
  BY <1>2, <1>3, <1>4, <1>5 DEF Kept, VerificationInv

\* Nor is anything exposed.
LEMMA QuietStep ==
    ASSUME QueueOK, VerificationInv, NEW p \in Verifiers, NEW w \in Verifier, Become(p, w),
           UNCHANGED <<queue, books>>, canaries' \in {"unasked", "caught", "passed"},
           w.found \in Rows \cup {NoEntry},
           w.pc \in {"file", "refile", "bounce"} /\ w.found # NoEntry =>
               w.found \in Rows /\ queue[w.found].kind = "pending-source",
           w.pc \notin {"bounce", "mint", "dump"}, ~ At(p, "dump"),
           w.pc = "file" => w.left # <<>>,
           w.pc \in {"file", "refile"} /\ w.found = NoEntry => OpenIssues(w.target) = {},
           p \in Nightly /\ w.pc # "idle" => rows[w.fact] = "none",
           p \in Nightly /\ w.pc \in {"select", "refile"} => conflicts[w.fact] = {}
    PROVE  Kept
<1>1. UNCHANGED <<register, onMain, rows, conflicts, exposed>> /\ exposed' \subseteq Conflict
  BY DEF books, VerificationInv, VerificationOK
<1>2. QED
  BY <1>1, MoveStep

\* The pairs of a fact (pipeline.py of verify, one after the other).
LEMMA CheckSteps ==
    ASSUME QueueOK, VerificationInv, NEW p \in Verifiers, Check(p)
    PROVE  Kept
<1>1. VerificationOK /\ Claims /\ RegisterInv /\ verifier[p] \in Verifier
      /\ canaries \in {"unasked", "caught", "passed"} /\ verifier[p].found \in Rows \cup {NoEntry}
  BY DEF VerificationInv, VerificationOK
<1>2. ASSUME NEW f \in Facts, TakeUp(p, f)
      PROVE  Kept
  <2> DEFINE w == [Idle EXCEPT !.pc = "pairs", !.fact = f, !.left = Cites[f]]
  <2>1. w \in Verifier /\ w.pc = "pairs" /\ w.fact = f /\ w.found = NoEntry
    <3>1. Cites[f] \in Seq(Sources) /\ "pairs" \in Points
      BY FactsAssumption DEF Points
    <3>2. QED
      BY <3>1, IdleType DEF Verifier
  <2>2. Become(p, w) /\ UNCHANGED <<queue, books, canaries>>
        /\ (p \in Nightly => rows[f] = "none") /\ ~ At(p, "dump")
    BY <1>2 DEF TakeUp, At
  <2> HIDE DEF w
  <2>3. QED
    BY <1>1, <2>1, <2>2, QuietStep
<1>3. ASSUME NEW s \in Sources, NEW verdict \in Rules!PairVerdicts, At(p, "pairs"),
             verifier[p].left # <<>>, Become(p, With(p, s, verdict)), UNCHANGED <<queue, books, canaries>>
      PROVE  Kept
  <2>1. (p \in Nightly => rows[verifier[p].fact] = "none") /\ ~ At(p, "dump")
    BY <1>1, <1>3 DEF RegisterInv, RowsInv, At
  <2>2. QED
    BY <1>1, <1>3, <2>1, WithStep, QuietStep
<1>4. ASSUME NEW s \in Sources, NEW verdict \in Rules!PairVerdicts, CheckPair(p, s, verdict)
      PROVE  Kept
  BY <1>3, <1>4 DEF CheckPair, Checking
<1>5. ASSUME NEW s \in Sources, PairRaises(p, s)
      PROVE  Kept
  BY <1>3, <1>5 DEF PairRaises, Checking, Rules!PairVerdicts
<1>6. ASSUME NEW s \in Sources, SelectIssue(p, s)
      PROVE  Kept
  <2>1. PICK id \in Rows \cup {NoEntry} :
            /\ Select("pending-source", s, "not-ingested", id)
            /\ Become(p, [verifier[p] EXCEPT !.pc = "file", !.target = s, !.found = id])
    BY <1>6 DEF SelectIssue
  <2> DEFINE w == [verifier[p] EXCEPT !.pc = "file", !.target = s, !.found = id]
  <2>2. /\ w \in Verifier /\ w.pc = "file" /\ w.fact = verifier[p].fact /\ w.target = s
        /\ w.found = id /\ w.left # <<>>
    <3>1. "file" \in Points /\ id \in Nat \cup {NoEntry}
      BY <2>1 DEF Points, Rows
    <3>2. verifier[p].left # <<>>
      BY <1>6 DEF SelectIssue, Checking
    <3>3. QED
      BY <1>1, <3>1, <3>2 DEF Verifier
  <2>3. id # NoEntry => queue[id].kind = "pending-source"
    BY <2>1 DEF Select, Selected, Matches
  <2>4. id = NoEntry => OpenIssues(s) = {}
    BY <2>1, NoEntryAssumption DEF Select, Selected, Matches, OpenIssues, Rows
  <2>5. (p \in Nightly => rows[verifier[p].fact] = "none") /\ ~ At(p, "dump")
    BY <1>1, <1>6 DEF SelectIssue, Checking, RegisterInv, RowsInv, At
  <2>6. UNCHANGED <<queue, books, canaries>> /\ Become(p, w)
    BY <1>6, <2>1 DEF SelectIssue
  <2> HIDE DEF w
  <2>7. QED
    BY <1>1, <2>1, <2>2, <2>3, <2>4, <2>5, <2>6, QuietStep
<1>7. CASE FileIssue(p)
  <2> DEFINE w == With(p, verifier[p].target, "source-unavailable")
  <2>1. At(p, "file") /\ Become(p, w) /\ UNCHANGED <<books, canaries>>
        /\ Upsert("pending-source", verifier[p].target, "not-ingested", verifier[p].found)
    BY <1>7 DEF FileIssue
  <2>2. w \in Verifier /\ w.pc = "pairs" /\ w.fact = verifier[p].fact /\ w.found = verifier[p].found
    <3>1. verifier[p].left # <<>>
      BY <1>1, <2>1 DEF Claims, FoundPending
    <3>2. verifier[p].target \in Sources /\ "source-unavailable" \in Rules!PairVerdicts
      BY <1>1, VerifierFields DEF Rules!PairVerdicts
    <3>3. QED
      BY <1>1, <3>1, <3>2, WithStep
  <2> HIDE DEF w
  <2>3. /\ QueueOK' /\ FindingsKept /\ Claims' /\ Rows \subseteq Rows'
        /\ \A s \in Sources : OpenIssues(s) \subseteq OpenIssues(s)'
    BY <1>1, <2>1, <2>2, UpsertStep DEF At, PendingReasons
  <2>4. VerificationOK' /\ RegisterInv'
    BY <1>1, <2>1, <2>2, <2>3, SettledStep DEF At
  <2>5. QED
    BY <2>3, <2>4 DEF Kept, VerificationInv
<1>8. QED
  BY <1>2, <1>4, <1>5, <1>6, <1>7 DEF Check

\* A verifier is done with its fact and has nothing minted: the row is settled.
LEMMA FinishBooks ==
    ASSUME VerificationOK, RegisterInv, NEW p \in Verifiers, Finish(p), Rows \subseteq Rows',
           UNCHANGED <<register, onMain, exposed, canaries>>, ~ At(p, "dump"),
           conflicts' = IF p \in Nightly THEN [conflicts EXCEPT ![verifier[p].fact] = {}]
                        ELSE conflicts
    PROVE  VerificationOK' /\ RegisterInv'
<1>1. Become(p, Idle) /\ SetRow(p, "done") /\ verifier[p] \in Verifier /\ verifier[p].fact \in Facts
  BY VerifierFields DEF Finish, VerificationOK
<1>2. /\ rows' \in [Facts -> {"none", "done", "halted"}]
      /\ conflicts' \in [Facts -> SUBSET Conflict]
      /\ \A x \in Facts : conflicts'[x] \subseteq conflicts[x]
  BY <1>1 DEF SetRow, VerificationOK
<1>3. VerificationOK'
  <2>1. /\ register' \subseteq Conflict /\ onMain' \subseteq Conflict /\ exposed' \subseteq Conflict
        /\ canaries' \in {"unasked", "caught", "passed"}
    BY DEF VerificationOK
  <2>2. QED
    BY <1>1, <1>2, <2>1, IdleType, TypeStep
<1>4. RowsInv'
  <2> DEFINE f == verifier[p].fact
  <2>1. RowsInv /\ \A x \in Facts : rows[x] = "done" => conflicts[x] \subseteq onMain' \cup exposed'
    BY DEF RegisterInv, RowsInv, ConflictsAreLanded
  <2>2. ASSUME p \in Nightly
        PROVE  /\ \A x \in Facts \ {f} : rows'[x] = rows[x] /\ conflicts'[x] = conflicts[x]
               /\ conflicts'[f] = {}
    BY <1>1, <2>2 DEF SetRow, VerificationOK
  <2>3. p \notin Nightly => UNCHANGED <<rows, conflicts>>
    BY <1>1 DEF SetRow
  <2>4. QED
    BY <1>1, <2>1, <2>2, <2>3, IdleType, RowsStep
<1>5. WritersInv'
  BY <1>1, <1>2, IdleType, LeaveKeeps DEF RegisterInv
<1>6. QED
  BY <1>3, <1>4, <1>5 DEF RegisterInv

\* A verifier that becomes idle claims nothing.
LEMMA IdleClaims ==
    ASSUME QueueOK, VerificationInv, NEW p \in Verifiers, Become(p, Idle), UNCHANGED queue
    PROVE  Claims'
BY IdleType, BecomeKeeps DEF VerificationInv

\* What mint_verification_record answers is remembered, and the nightly job goes on to land
\* the register; the row is settled only when there is nothing to land.
LEMMA AnsweredStep ==
    ASSUME QueueOK, VerificationInv, NEW p \in Verifiers, Answered(p), ~ At(p, "idle"),
           UNCHANGED <<queue, onMain, canaries>>, register' \subseteq Conflict,
           exposed \subseteq exposed', exposed' \subseteq Conflict
    PROVE  /\ QueueOK' /\ FindingsKept /\ VerificationOK' /\ Claims' /\ RowsInv'
           /\ \A s \in Sources : OpenIssues(s) \subseteq OpenIssues(s)'
           /\ \A x \in Facts : conflicts'[x] \subseteq conflicts[x] \cup Mints(p)
           /\ \E w \in Verifier : Become(p, w) /\ w.pc \in {"land", "idle"}
<1> DEFINE f == verifier[p].fact
           minted == Mints(p)
<1>1. VerificationOK /\ Claims /\ RowsInv /\ verifier[p] \in Verifier /\ f \in Facts
      /\ minted \subseteq Conflict
      /\ canaries \in {"unasked", "caught", "passed"} /\ verifier[p].found \in Rows \cup {NoEntry}
  BY MintsType DEF VerificationInv, VerificationOK, RegisterInv
<1>2. conflicts' = IF p \in Nightly THEN [conflicts EXCEPT ![f] = minted] ELSE conflicts
  BY DEF Answered, Remember
<1>3. \/ /\ p \in Nightly /\ minted # {} /\ UNCHANGED rows
         /\ Become(p, [verifier[p] EXCEPT !.pc = "land"])
      \/ ~ (p \in Nightly /\ minted # {}) /\ Finish(p)
  BY DEF Answered
<1> HIDE DEF minted
<1>4. /\ conflicts' \in [Facts -> SUBSET Conflict]
      /\ p \in Nightly => conflicts'[f] = minted /\ \A x \in Facts \ {f} : conflicts'[x] = conflicts[x]
      /\ \A x \in Facts : conflicts'[x] \subseteq conflicts[x] \cup minted
  BY <1>1, <1>2 DEF VerificationOK
<1>5. QueueOK' /\ FindingsKept /\ Rows' = Rows /\ \A s \in Sources : OpenIssues(s) \subseteq OpenIssues(s)'
  BY QuietQueue
<1>6. onMain' \subseteq Conflict /\ \A x \in Facts : rows[x] = "done" => conflicts[x] \subseteq onMain' \cup exposed'
  BY <1>1 DEF VerificationOK, RowsInv, ConflictsAreLanded
<1>7. CASE p \in Nightly /\ minted # {}
  <2> DEFINE w == [verifier[p] EXCEPT !.pc = "land"]
  <2>1. Become(p, w) /\ UNCHANGED rows
    BY <1>3, <1>7
  <2>2. w \in Verifier /\ w.pc = "land" /\ w.fact = f /\ w.found = verifier[p].found
    BY <1>1 DEF Verifier, Points
  <2> HIDE DEF w
  <2>3. VerificationOK'
    <3>1. rows' \in [Facts -> {"none", "done", "halted"}]
      BY <1>1, <2>1 DEF VerificationOK
    <3>2. QED
      BY <1>1, <1>4, <1>5, <1>6, <2>1, <2>2, <3>1, TypeStep
  <2>4. Claims'
    BY <1>1, <2>1, <2>2, BecomeKeeps
  <2>5. RowsInv'
    <3>1. rows'[f] = "none"
      BY <1>1, <1>7, <2>1 DEF RowsInv
    <3>2. QED
      BY <1>1, <1>4, <1>6, <1>7, <2>1, <2>2, <3>1, RowsStep
  <2>6. QED
    BY <1>4, <1>5, <2>1, <2>2, <2>3, <2>4, <2>5 DEF minted
<1>8. CASE ~ (p \in Nightly /\ minted # {})
  <2>1. Become(p, Idle) /\ SetRow(p, "done")
    BY <1>3, <1>8 DEF Finish
  <2>2. /\ rows' \in [Facts -> {"none", "done", "halted"}]
        /\ p \notin Nightly => UNCHANGED <<rows, conflicts>>
        /\ p \in Nightly => conflicts'[f] = {} /\ \A x \in Facts \ {f} : rows'[x] = rows[x]
    BY <1>1, <1>2, <1>4, <1>8, <2>1 DEF SetRow, VerificationOK
  <2>3. VerificationOK'
    BY <1>1, <1>4, <1>5, <1>6, <2>1, <2>2, IdleType, TypeStep
  <2>4. Claims'
    BY <2>1, IdleClaims
  <2>5. RowsInv'
    BY <1>1, <1>4, <1>6, <2>1, <2>2, IdleType, RowsStep
  <2>6. QED
    BY <1>4, <1>5, <2>1, <2>3, <2>4, <2>5, IdleType DEF minted
<1>9. QED
  BY <1>7, <1>8

\* What the load of the register exposes (contradictions.py:115).
LEMMA OverlappedIs ==
    ASSUME VerificationOK, NEW p \in Verifiers, Mints(p) # {}
    PROVE  /\ Writers # {} => Mints(p) \subseteq Overlapped(p)
           /\ \A q \in Writers : Mints(q) \subseteq Overlapped(p)
           /\ \A q \in Verifiers : At(q, "dump") =>
                  q \in Writers /\ verifier[q].loaded \subseteq Overlapped(p)
<1>1. ASSUME Writers # {}
      PROVE  Overlapped(p) = Mints(p) \cup BeingWritten \cup InMemory
  BY <1>1 DEF Overlapped
<1>2. ASSUME NEW q \in Writers
      PROVE  Mints(q) \subseteq BeingWritten
  BY DEF BeingWritten
<1>3. ASSUME NEW q \in Verifiers, At(q, "dump")
      PROVE  q \in Writers /\ verifier[q].loaded \subseteq InMemory
  <2>1. q \in {o \in Verifiers : At(o, "dump")}
    BY <1>3
  <2>2. q \in Writers
    BY <1>3 DEF Writers, At
  <2>3. QED
    BY <2>1, <2>2 DEF InMemory
<1>4. ASSUME NEW q \in Writers
      PROVE  Mints(q) \subseteq Overlapped(p)
  BY <1>1, <1>2, <1>4
<1>5. ASSUME NEW q \in Verifiers, At(q, "dump")
      PROVE  q \in Writers /\ verifier[q].loaded \subseteq Overlapped(p)
  <2>1. q \in Writers /\ verifier[q].loaded \subseteq InMemory
    BY <1>3, <1>5
  <2>2. Writers # {}
    BY <2>1
  <2>3. InMemory \subseteq Overlapped(p)
    BY <1>1, <2>2
  <2>4. QED
    BY <2>1, <2>3
<1>6. QED
  BY <1>1, <1>4, <1>5

LEMMA OverlappedType ==
    ASSUME VerificationOK, NEW p \in Verifiers
    PROVE  Overlapped(p) \subseteq Conflict
<1>1. \A q \in Verifiers : Mints(q) \subseteq Conflict /\ verifier[q].loaded \subseteq Conflict
  BY MintsType, VerifierFields DEF VerificationOK
<1>2. InMemory \subseteq Conflict
  BY <1>1 DEF InMemory
<1>3. BeingWritten \subseteq Conflict
  BY <1>1 DEF BeingWritten, Writers
<1>4. Overlapped(p) \subseteq Mints(p) \cup BeingWritten \cup InMemory
  BY DEF Overlapped
<1>5. QED
  BY <1>1, <1>2, <1>3, <1>4

\* A decision that admits and has nothing to write.
LEMMA AdmitStep ==
    ASSUME QueueOK, VerificationInv, NEW p \in Verifiers, Admit(p)
    PROVE  Kept
<1>1. /\ VerificationOK /\ WritersInv
      /\ Mints(p) \subseteq register /\ Answered(p) /\ At(p, "pairs")
      /\ exposed' = exposed \cup Overlapped(p)
      /\ UNCHANGED <<queue, register, onMain, canaries>>
  BY DEF Admit, Admitted, Ready, VerificationInv, RegisterInv
<1>2. register' \subseteq Conflict /\ exposed' \subseteq Conflict /\ ~ At(p, "idle")
  BY <1>1, OverlappedType DEF VerificationOK, At
<1>3. /\ QueueOK' /\ FindingsKept /\ VerificationOK' /\ Claims' /\ RowsInv'
      /\ \A s \in Sources : OpenIssues(s) \subseteq OpenIssues(s)'
      /\ \A x \in Facts : conflicts'[x] \subseteq conflicts[x] \cup Mints(p)
  BY <1>1, <1>2, AnsweredStep
<1>4. PICK w \in Verifier : Become(p, w) /\ w.pc \in {"land", "idle"}
  BY <1>1, <1>2, AnsweredStep
<1>5. /\ \A q \in Verifiers \ {p} : verifier'[q] = verifier[q]
      /\ verifier'[p] = w
  BY <1>1, <1>4 DEF Become, VerificationOK
<1>6. Writers' = Writers /\ p \notin Writers /\ \A q \in Writers : verifier'[q] = verifier[q]
  BY <1>1, <1>4, <1>5 DEF Writers, At
<1>7. \A q \in Writers : Mints(q)' = Mints(q)
  BY <1>6, SameMints DEF Writers
<1>8. Writers # {} => Mints(p) \subseteq exposed'
  BY <1>1, OverlappedIs
<1>9. WritersInv'
  <2>1. ASSUME \A q \in Verifiers : ~ At(q, "dump")', NEW x \in Facts
        PROVE  conflicts'[x] \subseteq register' \cup exposed'
    <3>1. \A q \in Verifiers : ~ At(q, "dump")
      BY <1>1, <1>5, <2>1 DEF At
    <3>2. conflicts[x] \subseteq register \cup exposed
      BY <1>1, <3>1 DEF WritersInv
    <3>3. QED
      BY <1>1, <1>3, <3>2
  <2>2. ASSUME NEW q \in Writers, NEW x \in Facts
        PROVE  conflicts'[x] \subseteq verifier'[q].loaded \cup exposed'
    <3>1. conflicts[x] \subseteq verifier[q].loaded \cup exposed
      BY <1>1 DEF WritersInv
    <3>2. QED
      BY <1>1, <1>3, <1>6, <1>8, <3>1
  <2>3. ASSUME NEW o \in Writers, NEW q \in Writers, o # q
        PROVE  Mints(o)' \subseteq exposed'
    BY <1>1, <1>7, <2>3 DEF WritersInv
  <2>4. QED
    BY <1>6, <2>1, <2>2, <2>3 DEF WritersInv
<1>10. QED
  BY <1>3, <1>9 DEF Kept, VerificationInv, RegisterInv

\* The load of the register: what it does not show is exposed.
LEMMA LoadStep ==
    ASSUME QueueOK, VerificationInv, NEW p \in Verifiers, LoadRegister(p)
    PROVE  Kept
<1> DEFINE w == [verifier[p] EXCEPT !.pc = "mint", !.loaded = register]
<1>1. /\ VerificationOK /\ WritersInv /\ RowsInv /\ Claims /\ verifier[p] \in Verifier
      /\ Mints(p) # {} /\ At(p, "pairs") /\ Become(p, w)
      /\ exposed' = exposed \cup Overlapped(p)
      /\ UNCHANGED <<queue, register, onMain, rows, conflicts, canaries>>
  BY DEF LoadRegister, Admitted, Ready, VerificationInv, RegisterInv, VerificationOK
<1>2. /\ w \in Verifier /\ w.pc = "mint" /\ w.fact = verifier[p].fact /\ w.loaded = register
      /\ w.found = verifier[p].found /\ w.pairs = verifier[p].pairs
  BY <1>1 DEF Verifier, Points, VerificationOK
<1> HIDE DEF w
<1>3. QueueOK' /\ FindingsKept /\ Rows' = Rows /\ \A s \in Sources : OpenIssues(s) \subseteq OpenIssues(s)'
  BY <1>1, QuietQueue
<1>4. VerificationOK'
  <2>1. /\ register' \subseteq Conflict /\ onMain' \subseteq Conflict /\ exposed' \subseteq Conflict
        /\ rows' \in [Facts -> {"none", "done", "halted"}]
        /\ conflicts' \in [Facts -> SUBSET Conflict]
        /\ canaries' \in {"unasked", "caught", "passed"} /\ w.found \in Rows \cup {NoEntry}
    BY <1>1, <1>2, OverlappedType DEF VerificationOK
  <2>2. QED
    BY <1>1, <1>2, <1>3, <2>1, TypeStep
<1>5. Claims'
  BY <1>1, <1>2, BecomeKeeps
<1>6. RowsInv'
  <2>1. \A x \in Facts : rows[x] = "done" => conflicts[x] \subseteq onMain' \cup exposed'
    BY <1>1 DEF RowsInv, ConflictsAreLanded
  <2>2. (p \in Nightly => rows[w.fact] = "none") /\ w.fact \in Facts
    BY <1>1, <1>2, VerifierFields DEF RowsInv, At
  <2>3. QED
    BY <1>1, <1>2, <2>1, <2>2, RowsStep
<1>7. /\ verifier'[p] = w
      /\ \A q \in Verifiers \ {p} : verifier'[q] = verifier[q]
      /\ Writers' = Writers \cup {p} /\ p \notin Writers
  BY <1>1, <1>2 DEF Become, VerificationOK, Writers, At
<1>8. \A q \in Verifiers : Mints(q)' = Mints(q)
  <2>1. ASSUME NEW q \in Verifiers PROVE Mints(q)' = Mints(q)
    <3>1. CASE q = p
      BY <1>2, <1>7, <3>1, SameMints
    <3>2. CASE q # p
      <4>1. verifier'[q] = verifier[q]
        BY <1>7, <3>2
      <4>2. QED
        BY <4>1, SameMints
    <3>3. QED
      BY <3>1, <3>2
  <2>2. QED
    BY <2>1
<1>9. WritersInv'
  <2>1. ASSUME \A q \in Verifiers : ~ At(q, "dump")', NEW x \in Facts
        PROVE  conflicts'[x] \subseteq register' \cup exposed'
    <3>1. \A q \in Verifiers : ~ At(q, "dump")
      BY <1>1, <1>7, <2>1 DEF At
    <3>2. QED
      BY <1>1, <3>1 DEF WritersInv
  <2>2. ASSUME NEW x \in Facts
        PROVE  conflicts[x] \subseteq register \cup exposed'
    <3>1. CASE \A q \in Verifiers : ~ At(q, "dump")
      BY <1>1, <3>1 DEF WritersInv
    <3>2. CASE \E q \in Verifiers : At(q, "dump")
      <4>1. PICK q \in Verifiers : At(q, "dump")
        BY <3>2
      <4>2. q \in Writers /\ verifier[q].loaded \subseteq exposed'
        BY <1>1, <4>1, OverlappedIs
      <4>3. conflicts[x] \subseteq verifier[q].loaded \cup exposed
        BY <1>1, <4>2 DEF WritersInv
      <4>4. QED
        BY <1>1, <4>2, <4>3
    <3>3. QED
      BY <3>1, <3>2
  <2>3. ASSUME NEW q \in Writers', NEW x \in Facts
        PROVE  conflicts'[x] \subseteq verifier'[q].loaded \cup exposed'
    <3>1. CASE q = p
      BY <1>1, <1>2, <1>7, <2>2, <3>1
    <3>2. CASE q # p
      <4>1. q \in Writers /\ verifier'[q] = verifier[q]
        BY <1>7, <3>2 DEF Writers
      <4>2. conflicts[x] \subseteq verifier[q].loaded \cup exposed
        BY <1>1, <4>1 DEF WritersInv
      <4>3. QED
        BY <1>1, <4>1, <4>2
    <3>3. QED
      BY <3>1, <3>2
  <2>4. ASSUME NEW o \in Writers', NEW q \in Writers', o # q
        PROVE  Mints(o)' \subseteq exposed'
    <3>1. CASE o = p
      <4>1. q \in Writers
        BY <1>7, <2>4, <3>1
      <4>2. QED
        BY <1>1, <1>8, <3>1, <4>1, OverlappedIs
    <3>2. CASE o # p /\ q = p
      <4>1. o \in Writers /\ o \in Verifiers
        BY <1>7, <3>2 DEF Writers
      <4>2. QED
        BY <1>1, <1>8, <4>1, OverlappedIs
    <3>3. CASE o # p /\ q # p
      <4>1. o \in Writers /\ q \in Writers /\ o \in Verifiers
        BY <1>7, <3>3 DEF Writers
      <4>2. Mints(o) \subseteq exposed
        BY <1>1, <2>4, <4>1 DEF WritersInv
      <4>3. QED
        BY <1>1, <1>8, <4>1, <4>2
    <3>4. QED
      BY <3>1, <3>2, <3>3
  <2>5. QED
    BY <2>1, <2>3, <2>4 DEF WritersInv
<1>10. QED
  BY <1>3, <1>4, <1>5, <1>6, <1>9 DEF Kept, VerificationInv, RegisterInv

\* The file is opened for writing, and empty.
LEMMA OpenStep ==
    ASSUME QueueOK, VerificationInv, NEW p \in Verifiers, OpenRegister(p)
    PROVE  Kept
<1> DEFINE w == [verifier[p] EXCEPT !.pc = "dump"]
<1>1. /\ VerificationOK /\ WritersInv /\ RowsInv /\ Claims /\ verifier[p] \in Verifier
      /\ At(p, "mint") /\ Become(p, w) /\ register' = {}
      /\ UNCHANGED <<queue, onMain, rows, conflicts, exposed, canaries>>
  BY DEF OpenRegister, VerificationInv, RegisterInv, VerificationOK
<1>2. /\ w \in Verifier /\ w.pc = "dump" /\ w.fact = verifier[p].fact
      /\ w.loaded = verifier[p].loaded /\ w.found = verifier[p].found /\ w.pairs = verifier[p].pairs
  BY <1>1 DEF Verifier, Points
<1> HIDE DEF w
<1>3. QueueOK' /\ FindingsKept /\ Rows' = Rows /\ \A s \in Sources : OpenIssues(s) \subseteq OpenIssues(s)'
  BY <1>1, QuietQueue
<1>4. VerificationOK'
  <2>1. /\ register' \subseteq Conflict /\ onMain' \subseteq Conflict /\ exposed' \subseteq Conflict
        /\ rows' \in [Facts -> {"none", "done", "halted"}]
        /\ conflicts' \in [Facts -> SUBSET Conflict]
        /\ canaries' \in {"unasked", "caught", "passed"} /\ w.found \in Rows \cup {NoEntry}
    BY <1>1, <1>2 DEF VerificationOK
  <2>2. QED
    BY <1>1, <1>2, <1>3, <2>1, TypeStep
<1>5. Claims'
  BY <1>1, <1>2, BecomeKeeps
<1>6. RowsInv'
  <2>1. \A x \in Facts : rows[x] = "done" => conflicts[x] \subseteq onMain' \cup exposed'
    BY <1>1 DEF RowsInv, ConflictsAreLanded
  <2>2. (p \in Nightly => rows[w.fact] = "none") /\ w.fact \in Facts
    BY <1>1, <1>2, VerifierFields DEF RowsInv, At
  <2>3. QED
    BY <1>1, <1>2, <2>1, <2>2, RowsStep
<1>7. /\ verifier'[p] = w
      /\ \A q \in Verifiers \ {p} : verifier'[q] = verifier[q]
      /\ Writers' = Writers
  BY <1>1, <1>2 DEF Become, VerificationOK, Writers, At
<1>8. \A q \in Writers : Mints(q)' = Mints(q) /\ verifier'[q].loaded = verifier[q].loaded
  <2>1. ASSUME NEW q \in Writers
        PROVE  Mints(q)' = Mints(q) /\ verifier'[q].loaded = verifier[q].loaded
    <3>1. q \in Verifiers
      BY DEF Writers
    <3>2. CASE q = p
      BY <1>2, <1>7, <3>1, <3>2, SameMints
    <3>3. CASE q # p
      <4>1. verifier'[q] = verifier[q]
        BY <1>7, <3>1, <3>3
      <4>2. QED
        BY <3>1, <4>1, SameMints
    <3>4. QED
      BY <3>2, <3>3
  <2>2. QED
    BY <2>1
<1>9. At(p, "dump")'
  BY <1>2, <1>7 DEF At
<1>10. WritersInv'
  <2>1. \A q \in Writers', x \in Facts : conflicts'[x] \subseteq verifier'[q].loaded \cup exposed'
    BY <1>1, <1>7, <1>8 DEF WritersInv
  <2>2. \A o, q \in Writers' : o # q => Mints(o)' \subseteq exposed'
    BY <1>1, <1>7, <1>8 DEF WritersInv
  <2>3. QED
    BY <1>9, <2>1, <2>2 DEF WritersInv
<1>11. QED
  BY <1>3, <1>4, <1>5, <1>6, <1>10 DEF Kept, VerificationInv, RegisterInv

\* The records are dumped: what others have written since p loaded them is gone, and exposed.
LEMMA DumpStep ==
    ASSUME QueueOK, VerificationInv, NEW p \in Verifiers, DumpRegister(p)
    PROVE  Kept
<1>1. /\ VerificationOK /\ WritersInv /\ Answered(p) /\ At(p, "dump")
      /\ register' = verifier[p].loaded \cup Mints(p)
      /\ UNCHANGED <<queue, onMain, exposed, canaries>>
  BY DEF DumpRegister, VerificationInv, RegisterInv
<1>2. register' \subseteq Conflict /\ exposed' \subseteq Conflict /\ ~ At(p, "idle")
  BY <1>1, MintsType, VerifierFields DEF VerificationOK, At
<1>3. /\ QueueOK' /\ FindingsKept /\ VerificationOK' /\ Claims' /\ RowsInv'
      /\ \A s \in Sources : OpenIssues(s) \subseteq OpenIssues(s)'
      /\ \A x \in Facts : conflicts'[x] \subseteq conflicts[x] \cup Mints(p)
  BY <1>1, <1>2, AnsweredStep
<1>4. PICK w \in Verifier : Become(p, w) /\ w.pc \in {"land", "idle"}
  BY <1>1, <1>2, AnsweredStep
<1>5. /\ \A q \in Verifiers \ {p} : verifier'[q] = verifier[q]
      /\ verifier'[p] = w
  BY <1>1, <1>4 DEF Become, VerificationOK
<1>6. Writers' = Writers \ {p} /\ p \in Writers
  BY <1>1, <1>4, <1>5 DEF Writers, At
<1>7. \A q \in Writers' : Mints(q)' = Mints(q) /\ verifier'[q] = verifier[q] /\ q \in Writers /\ q # p
  BY <1>5, <1>6, SameMints DEF Writers
<1>8. WritersInv'
  <2>1. ASSUME NEW x \in Facts
        PROVE  conflicts'[x] \subseteq register' \cup exposed'
    <3>1. conflicts[x] \subseteq verifier[p].loaded \cup exposed
      BY <1>1, <1>6 DEF WritersInv
    <3>2. QED
      BY <1>1, <1>3, <3>1
  <2>2. ASSUME NEW q \in Writers', NEW x \in Facts
        PROVE  conflicts'[x] \subseteq verifier'[q].loaded \cup exposed'
    <3>1. conflicts[x] \subseteq verifier[q].loaded \cup exposed /\ Mints(p) \subseteq exposed
      BY <1>1, <1>6, <1>7, <2>2 DEF WritersInv
    <3>2. QED
      BY <1>1, <1>3, <1>7, <2>2, <3>1
  <2>3. ASSUME NEW o \in Writers', NEW q \in Writers', o # q
        PROVE  Mints(o)' \subseteq exposed'
    BY <1>1, <1>7, <2>3 DEF WritersInv
  <2>4. QED
    BY <2>1, <2>2, <2>3 DEF WritersInv
<1>9. QED
  BY <1>3, <1>8 DEF Kept, VerificationInv, RegisterInv

\* A refusal: bounced, filed or let be (admissibility.py:83).
LEMMA RefuseStep ==
    ASSUME QueueOK, VerificationInv, NEW p \in Verifiers, NEW s \in Sources,
           Refuse(p, s) \/ RefuseQuietly(p)
    PROVE  Kept
<1> DEFINE f == verifier[p].fact
           id == FirstOpen(s)
<1>1. VerificationOK /\ Claims /\ RegisterInv /\ verifier[p] \in Verifier /\ f \in Facts
      /\ canaries \in {"unasked", "caught", "passed"}
  BY VerifierFields DEF VerificationInv, VerificationOK
<1>2. /\ conflicts' = IF p \in Nightly THEN [conflicts EXCEPT ![f] = {}] ELSE conflicts
      /\ UNCHANGED <<queue, register, onMain, exposed, canaries>>
      /\ At(p, "pairs") /\ ~ At(p, "dump")
  BY DEF Refuse, RefuseQuietly, Remember, Ready, At
<1>3. QueueOK' /\ FindingsKept /\ Rows' = Rows /\ \A x \in Sources : OpenIssues(x) \subseteq OpenIssues(x)'
  BY <1>2, QuietQueue
<1>4. id # NoEntry => id \in Rows /\ queue[id].kind = "pending-source"
  <2>1. ASSUME OpenIssues(s) # {}
        PROVE  id \in OpenIssues(s)
    <3>1. OpenIssues(s) \subseteq Nat
      BY DEF OpenIssues, Rows, QueueOK
    <3>2. PICK least \in OpenIssues(s) : \A other \in OpenIssues(s) : least <= other
      BY <2>1, <3>1, Counted, LeastIssue
    <3>3. QED
      BY <2>1, <3>2 DEF FirstOpen
  <2>2. QED
    BY <2>1 DEF FirstOpen, OpenIssues
<1>5. CASE Finish(p)
  <2>1. VerificationOK' /\ RegisterInv'
    BY <1>1, <1>2, <1>3, <1>5, FinishBooks
  <2>2. Claims'
    BY <1>2, <1>5, IdleClaims DEF Finish
  <2>3. QED
    BY <1>3, <2>1, <2>2 DEF Kept, VerificationInv
<1>6. ASSUME NEW point \in {"select", "bounce"}, UNCHANGED rows,
             Become(p, [verifier[p] EXCEPT !.pc = point, !.target = s, !.found = id]),
             point = "bounce" => id # NoEntry /\ WithinBudget(id)
      PROVE  Kept
  <2> DEFINE w == [verifier[p] EXCEPT !.pc = point, !.target = s, !.found = id]
  <2>1. id \in Rows \cup {NoEntry} /\ id \in Nat \cup {NoEntry}
    BY <1>4 DEF Rows
  <2> HIDE DEF id
  <2>2. w \in Verifier /\ w.pc = point /\ w.fact = f /\ w.found = id
    BY <1>1, <2>1 DEF Verifier, Points
  <2>3. Become(p, w)
    BY <1>6
  <2> HIDE DEF w
  <2>4. conflicts' \in [Facts -> SUBSET Conflict]
        /\ (p \in Nightly => conflicts'[f] = {} /\ \A x \in Facts \ {f} : conflicts'[x] = conflicts[x])
    BY <1>1, <1>2 DEF VerificationOK
  <2>5. VerificationOK'
    <3>1. /\ register' \subseteq Conflict /\ onMain' \subseteq Conflict /\ exposed' \subseteq Conflict
          /\ rows' \in [Facts -> {"none", "done", "halted"}]
      BY <1>1, <1>2, <1>6 DEF VerificationOK
    <3>2. QED
      BY <1>1, <1>2, <1>3, <2>1, <2>2, <2>3, <2>4, <3>1, TypeStep
  <2>6. Claims'
    BY <1>1, <1>2, <1>4, <1>6, <2>2, <2>3, BecomeKeeps DEF WithinBudget
  <2>7. RegisterInv'
    <3>1. (p \in Nightly => rows[f] = "none") /\ RowsInv /\ WritersInv
      BY <1>1, <1>2 DEF RegisterInv, RowsInv, At
    <3>2. \A x \in Facts : rows[x] = "done" => conflicts[x] \subseteq onMain' \cup exposed'
      BY <1>2, <3>1 DEF RowsInv, ConflictsAreLanded
    <3>3. \A x \in Facts : conflicts'[x] \subseteq conflicts[x]
      BY <1>1, <1>2 DEF VerificationOK
    <3>4. RowsInv'
      BY <1>1, <1>2, <1>6, <2>2, <2>3, <2>4, <3>1, <3>2, RowsStep
    <3>5. WritersInv'
      BY <1>1, <1>2, <2>2, <2>3, <3>1, <3>3, LeaveKeeps
    <3>6. QED
      BY <3>4, <3>5 DEF RegisterInv
  <2>8. QED
    BY <1>3, <2>5, <2>6, <2>7 DEF Kept, VerificationInv
<1>7. QED
  BY <1>5, <1>6 DEF Refuse, RefuseQuietly

\* What follows a decision: the bounce, the issue filed instead, the landing.
LEMMA DecideSteps ==
    ASSUME QueueOK, VerificationInv, NEW p \in Verifiers, Decide(p)
    PROVE  Kept
<1> DEFINE f == verifier[p].fact
<1>1. VerificationOK /\ Claims /\ RegisterInv /\ verifier[p] \in Verifier /\ f \in Facts
      /\ canaries \in {"unasked", "caught", "passed"}
  BY VerifierFields DEF VerificationInv, VerificationOK
<1>2. ASSUME verifier[p].pc \in {"bounce", "refile"}, Finish(p),
             UNCHANGED <<register, onMain, conflicts, exposed, canaries>>,
             QueueOK' /\ FindingsKept /\ Claims' /\ Rows \subseteq Rows'
             /\ \A s \in Sources : OpenIssues(s) \subseteq OpenIssues(s)'
      PROVE  Kept
  <2>1. conflicts' = IF p \in Nightly THEN [conflicts EXCEPT ![f] = {}] ELSE conflicts
    <3>1. p \in Nightly => conflicts[f] = {}
      BY <1>1, <1>2 DEF RegisterInv, RowsInv
    <3>2. QED
      BY <1>1, <1>2, <3>1 DEF VerificationOK
  <2>2. ~ At(p, "dump")
    BY <1>2 DEF At
  <2>3. VerificationOK' /\ RegisterInv'
    BY <1>1, <1>2, <2>1, <2>2, FinishBooks
  <2>4. QED
    BY <1>2, <2>3 DEF Kept, VerificationInv
<1>3. CASE BounceIssue(p)
  <2>1. /\ At(p, "bounce") /\ Bounce(verifier[p].found) /\ Finish(p) /\ Become(p, Idle)
        /\ UNCHANGED <<register, onMain, conflicts, exposed, canaries>>
    BY <1>3 DEF BounceIssue, Finish
  <2>2. QED
    BY <1>1, <1>2, <2>1, BounceStep, IdleType DEF At
<1>4. CASE Refile(p)
  <2>1. /\ At(p, "refile") /\ Finish(p) /\ Become(p, Idle)
        /\ Upsert("pending-source", verifier[p].target, "partially-ingested", verifier[p].found)
        /\ UNCHANGED <<register, onMain, conflicts, exposed, canaries>>
    BY <1>4 DEF Refile, Finish
  <2>2. QED
    BY <1>1, <1>2, <2>1, UpsertStep, IdleType DEF At, PendingReasons
<1>5. CASE SelectAgain(p)
  <2>1. PICK id \in Rows \cup {NoEntry} :
            /\ Select("pending-source", verifier[p].target, "partially-ingested", id)
            /\ Become(p, [verifier[p] EXCEPT !.pc = "refile", !.found = id])
    BY <1>5 DEF SelectAgain
  <2> DEFINE w == [verifier[p] EXCEPT !.pc = "refile", !.found = id]
  <2>2. /\ w \in Verifier /\ w.pc = "refile" /\ w.fact = f /\ w.found = id
        /\ w.target = verifier[p].target
    <3>1. "refile" \in Points /\ id \in Nat \cup {NoEntry}
      BY <2>1 DEF Points, Rows
    <3>2. QED
      BY <1>1, <3>1 DEF Verifier
  <2>3. id # NoEntry => queue[id].kind = "pending-source"
    BY <2>1 DEF Select, Selected, Matches
  <2>4. id = NoEntry => OpenIssues(verifier[p].target) = {}
    BY <2>1, NoEntryAssumption DEF Select, Selected, Matches, OpenIssues, Rows
  <2>5. (p \in Nightly => rows[f] = "none" /\ conflicts[f] = {}) /\ ~ At(p, "dump")
    BY <1>1, <1>5 DEF SelectAgain, RegisterInv, RowsInv, At
  <2>6. UNCHANGED <<queue, books, canaries>> /\ Become(p, w)
    BY <1>5, <2>1 DEF SelectAgain
  <2> HIDE DEF w
  <2>7. QED
    BY <1>1, <2>1, <2>2, <2>3, <2>4, <2>5, <2>6, QuietStep
<1>6. ASSUME NEW result \in {"landed", "refused", "failed"}, LandRegister(p, result)
      PROVE  Kept
  <2>1. /\ At(p, "land") /\ SetRow(p, RowAfter(result)) /\ Become(p, Idle)
        /\ onMain' = IF result = "landed" THEN register ELSE onMain
        /\ canaries' = IF result = "landed" THEN canaries ELSE "unasked"
        /\ exposed' = IF result = "landed" THEN exposed \cup InMemory ELSE exposed
        /\ UNCHANGED <<register, conflicts, queue>>
    BY <1>6 DEF LandRegister
  <2>2. QueueOK' /\ FindingsKept /\ Rows' = Rows /\ \A s \in Sources : OpenIssues(s) \subseteq OpenIssues(s)'
    BY <2>1, QuietQueue
  <2>3. RowAfter(result) \in {"none", "done", "halted"} /\ (RowAfter(result) = "done" => result = "landed")
    BY DEF RowAfter
  <2>4. /\ rows' \in [Facts -> {"none", "done", "halted"}]
        /\ p \notin Nightly => rows' = rows
        /\ p \in Nightly => rows'[f] = RowAfter(result)
                            /\ \A x \in Facts \ {f} : rows'[x] = rows[x]
    BY <1>1, <2>1, <2>3 DEF SetRow, VerificationOK
  <2>5. VerificationOK'
    <3>1. InMemory \subseteq Conflict
      BY <1>1, VerifierFields DEF InMemory, VerificationOK
    <3>3. /\ register' \subseteq Conflict /\ onMain' \subseteq Conflict /\ exposed' \subseteq Conflict
          /\ conflicts' \in [Facts -> SUBSET Conflict]
          /\ canaries' \in {"unasked", "caught", "passed"}
      BY <1>1, <2>1, <3>1 DEF VerificationOK
    <3>2. QED
      BY <1>1, <2>1, <2>2, <2>4, <3>3, IdleType, TypeStep
  <2>6. Claims'
    BY <2>1, IdleClaims
  <2>7. ASSUME result = "landed", NEW x \in Facts
        PROVE  conflicts[x] \subseteq onMain' \cup exposed'
    <3>1. WritersInv /\ onMain' = register /\ exposed' = exposed \cup InMemory
      BY <1>1, <2>1, <2>7 DEF RegisterInv
    <3>2. CASE \A q \in Verifiers : ~ At(q, "dump")
      BY <3>1, <3>2 DEF WritersInv
    <3>3. CASE \E q \in Verifiers : At(q, "dump")
      <4>1. PICK q \in Verifiers : At(q, "dump")
        BY <3>3
      <4>2. q \in Writers /\ verifier[q].loaded \subseteq InMemory
        BY <4>1 DEF Writers, InMemory, At
      <4>3. conflicts[x] \subseteq verifier[q].loaded \cup exposed
        BY <3>1, <4>2 DEF WritersInv
      <4>4. QED
        BY <3>1, <4>2, <4>3
    <3>4. QED
      BY <3>2, <3>3
  <2>8. RowsInv'
    <3>1. RowsInv /\ exposed \subseteq exposed'
      BY <1>1, <2>1 DEF RegisterInv
    <3>2. \A x \in Facts : rows[x] = "done" => conflicts[x] \subseteq onMain' \cup exposed'
      <4>1. CASE result = "landed"
        BY <2>7, <4>1
      <4>2. CASE result # "landed"
        BY <2>1, <3>1, <4>2 DEF RowsInv, ConflictsAreLanded
      <4>3. QED
        BY <4>1, <4>2
    <3>3. p \in Nightly /\ rows'[f] = "done" => conflicts'[f] \subseteq onMain' \cup exposed'
      BY <1>1, <2>1, <2>3, <2>4, <2>7
    <3>4. QED
      BY <1>1, <2>1, <2>4, <3>1, <3>2, <3>3, IdleType, RowsStep
  <2>9. WritersInv'
    <3>1. WritersInv /\ exposed \subseteq exposed' /\ ~ At(p, "dump")
      BY <1>1, <2>1 DEF RegisterInv, At
    <3>2. \A x \in Facts : conflicts'[x] \subseteq conflicts[x]
      BY <2>1
    <3>3. QED
      BY <1>1, <2>1, <3>1, <3>2, IdleType, LeaveKeeps
  <2>10. QED
    BY <2>2, <2>5, <2>6, <2>8, <2>9 DEF Kept, VerificationInv, RegisterInv
<1>7. QED
  BY <1>3, <1>4, <1>5, <1>6, AdmitStep, LoadStep, OpenStep, DumpStep, RefuseStep, FactsAssumption
     DEF Decide

\* Every step of verification, and a verifier killed at any of them.
LEMMA VerifySteps ==
    ASSUME QueueOK, VerificationInv, Verify \/ \E p \in Verifiers : KillVerifier(p)
    PROVE  Kept
<1>1. VerificationOK /\ Claims /\ RegisterInv
  BY DEF VerificationInv
<1>2. ASSUME UNCHANGED <<queue, verifier, register, onMain, conflicts, exposed>>,
             canaries' \in {"unasked", "caught", "passed"},
             rows' \in [Facts -> {"none", "done", "halted"}],
             \A f \in Facts : rows'[f] = rows[f] \/ rows'[f] = "halted",
             rows' = rows \/ \A p \in Nightly : At(p, "idle")
      PROVE  Kept
  <2>1. QueueOK' /\ FindingsKept /\ Rows' = Rows /\ \A s \in Sources : OpenIssues(s)' = OpenIssues(s)
    BY <1>2, QuietQueue DEF OpenIssues, Rows
  <2>2. VerificationOK'
    BY <1>1, <1>2, <2>1 DEF VerificationOK
  <2>3. (\A id : Bouncing(id)' = Bouncing(id)) /\ \A s : Opening(s)' = Opening(s)
    BY <1>2 DEF Bouncing, Opening, At
  <2>4. Claims'
    BY <1>1, <1>2, <2>1, <2>3 DEF Claims, FoundPending, BudgetInv, IssuesInv, At
  <2>5. RegisterInv'
    <3>1. \A p \in Nightly : verifier[p].fact \in Facts
      BY <1>1, VerifierFields, VerifiersAssumption DEF VerificationOK
    <3>2. \A p \in Nightly : ~ At(p, "idle")' => rows'[verifier'[p].fact] = "none"
      BY <1>1, <1>2, <3>1 DEF RegisterInv, RowsInv, At
    <3>3. ConflictsAreLanded'
      BY <1>1, <1>2 DEF RegisterInv, RowsInv, ConflictsAreLanded
    <3>4. RowsInv'
      BY <1>1, <1>2, <3>2, <3>3 DEF RegisterInv, RowsInv
    <3>5. Writers' = Writers /\ \A q \in Verifiers : Mints(q)' = Mints(q)
      BY <1>2, SameMints DEF Writers
    <3>6. WritersInv'
      BY <1>1, <1>2, <3>5 DEF RegisterInv, WritersInv, Writers, At
    <3>7. QED
      BY <3>4, <3>6 DEF RegisterInv
  <2>6. QED
    BY <2>1, <2>2, <2>4, <2>5 DEF Kept, VerificationInv
<1>3. ASSUME NEW answer \in {"caught", "passed"}, _canary_preflight(answer)
      PROVE  Kept
  BY <1>1, <1>2, <1>3 DEF _canary_preflight, books, VerificationOK
<1>4. CASE NextRun
  BY <1>1, <1>2, <1>4 DEF NextRun, books, VerificationOK
<1>5. ASSUME NEW f \in Facts, HaltItem(f)
      PROVE  Kept
  <2>1. /\ rows' = [rows EXCEPT ![f] = "halted"] /\ canaries' = "unasked"
        /\ \A p \in Nightly : At(p, "idle")
        /\ UNCHANGED <<queue, verifier, register, onMain, conflicts, exposed>>
    BY <1>5 DEF HaltItem
  <2>2. rows \in [Facts -> {"none", "done", "halted"}]
    BY <1>1 DEF VerificationOK
  <2>3. QED
    BY <1>2, <2>1, <2>2
<1>6. ASSUME NEW p \in Verifiers, KillVerifier(p)
      PROVE  Kept
  <2>1. /\ Become(p, Idle) /\ UNCHANGED <<queue, register, onMain, rows, conflicts>>
        /\ canaries' \in {"unasked", "caught", "passed"}
        /\ exposed \subseteq exposed' /\ exposed' \subseteq Conflict
        /\ At(p, "dump") => verifier[p].loaded \subseteq exposed'
    BY <1>1, <1>6, VerifierFields DEF KillVerifier, VerificationOK
  <2>2. QED
    BY <2>1, IdleType, MoveStep
<1>7. QED
  BY <1>3, <1>4, <1>5, <1>6, CheckSteps, DecideSteps DEF Verify

LEMMA VerificationStart ==
    ASSUME queue = <<>>, VerificationInit
    PROVE  VerificationInv
<1> USE DEF VerificationInit
<1>1. Rows = {}
  BY DEF Rows
<1>2. VerificationOK
  BY <1>1, IdleType DEF VerificationOK
<1>3. FoundPending
  BY IdleType DEF FoundPending, At
<1>4. BudgetInv
  BY <1>1 DEF BudgetInv
<1>5. IssuesInv
  <2>1. \A s \in Sources : OpenIssues(s) = {} /\ Opening(s) = {}
    BY <1>1, IdleType DEF OpenIssues, Opening
  <2>2. QueueOK
    BY DEF QueueOK
  <2>3. QED
    BY <2>1, <2>2, FS_EmptySet, Counted DEF IssuesInv
<1>6. RegisterInv
  BY IdleType, VerifiersAssumption
     DEF RegisterInv, WritersInv, RowsInv, ConflictsAreLanded, Writers, At
<1>7. QED
  BY <1>2, <1>3, <1>4, <1>5, <1>6 DEF VerificationInv, Claims

-----------------------------------------------------------------------------
(* All of it together. *)

Inv == QueueInv /\ IngestionInv /\ VerificationInv /\ CurrencyInv

LEMMA InitInv == EvidenceInit => Inv
<1> SUFFICES ASSUME EvidenceInit PROVE Inv
  OBVIOUS
<1> USE DEF EvidenceInit
<1>1. QueueInv
  BY DEF Init, QueueInv, QueueOK, FindingsDoNotStack, RefusedIsVisible, Rows, IngestionInit,
         NothingStored
<1>2. IngestionInv
  BY DEF Init, IngestionInit, NothingAcquired, NothingStored, IngestionInv, IngestionOK,
         OriginalsHeld, PuttingHeld, ChunksOfRow
<1>3. CurrencyInv
  BY DEF Init, CurrencyInit, CurrencyInv, CurrencyOK, WitnessedOK, JobsOK, Job, Resting, DriftInv,
         LedgerInv
<1>4. VerificationInv
  BY VerificationStart DEF Init
<1>5. QED
  BY <1>1, <1>2, <1>3, <1>4 DEF Inv

\* Every step of ingestion, the currency jobs standing still.
LEMMA IngestionSteps ==
    ASSUME QueueInv, IngestionInv, IngestionNext
    PROVE  QueueInv' /\ IngestionInv' /\ \A s \in Sources : Filed(s) => Filed(s)'
<1>1. ASSUME NEW s \in Sources, NEW k \in KindLists \cup {None}, NEW f \in Floors,
             ingest_source(s, k, f)
      PROVE  QueueInv' /\ IngestionInv' /\ \A x \in Sources : Filed(x) => Filed(x)'
  BY <1>1, IngestStep, KeptFindings DEF QueueInv
<1>2. ASSUME UNCHANGED <<queue, last>>
      PROVE  QueueInv' /\ \A x \in Sources : Filed(x) => Filed(x)'
  BY <1>2 DEF QueueInv, QueueOK, FindingsDoNotStack, RefusedIsVisible, OpenIssues, Rows, Filed
<1>3. CASE Acquire
  BY <1>2, <1>3, AcquireStep
<1>4. ASSUME NEW s \in Sources, NEW k \in KindLists \cup {None}, NEW f \in Floors,
             IngestKilled(s, k, f)
      PROVE  QueueInv' /\ IngestionInv' /\ \A x \in Sources : Filed(x) => Filed(x)'
  <2>1. /\ manifest[s] # None /\ manifest' = [manifest EXCEPT ![s] = Overridden(s, k, f)]
        /\ UNCHANGED <<originals, tools, row, chunks, embedded, putting, last, torn, queue>>
    BY <1>4 DEF IngestKilled, stored
  <2>2. PICK m \in Manifest : /\ m = Overridden(s, k, f)
                              /\ m.original = manifest[s].original /\ m.hash = manifest[s].hash
    BY <2>1, OverriddenManifest
  <2>3. manifest' \in [Sources -> Manifest \cup {None}] /\ OriginalsHeld' /\ PuttingHeld'
    BY <2>1, <2>2, SameOriginal
  <2>4. QED
    BY <1>2, <2>1, <2>3 DEF IngestionInv, IngestionOK, ChunksOfRow
<1>5. CASE Embed
  BY <1>2, <1>5 DEF Embed, private, bounds, IngestionInv, IngestionOK, OriginalsHeld, PuttingHeld,
                    ChunksOfRow
<1>6. CASE UpgradeTools
  BY <1>2, <1>6 DEF UpgradeTools, private, stored, IngestionInv, IngestionOK, OriginalsHeld,
                    PuttingHeld, ChunksOfRow
<1>7. ASSUME NEW s \in Sources, DeleteRows(s)
      PROVE  QueueInv' /\ IngestionInv' /\ \A x \in Sources : Filed(x) => Filed(x)'
  BY <1>2, <1>7 DEF DeleteRows, private, IngestionInv, IngestionOK, OriginalsHeld, PuttingHeld,
                    ChunksOfRow
<1>8. CASE reingest_all
  BY <1>1, <1>8 DEF reingest_all, Floors
<1>9. QED
  BY <1>1, <1>3, <1>4, <1>5, <1>6, <1>7, <1>8 DEF IngestionNext, Ingest

\* A verifier's, ingestion standing still.
LEMMA VerifierSteps ==
    ASSUME QueueInv, IngestionInv, VerificationInv,
           (Verify /\ UNCHANGED ingestionVars) \/ \E p \in Verifiers : KillVerifier(p)
    PROVE  QueueInv' /\ IngestionInv' /\ VerificationInv' /\ \A s \in Sources : Filed(s) => Filed(s)'
<1>1. UNCHANGED <<originals, manifest, tools, row, chunks, embedded, putting, last, torn>>
  BY DEF ingestionVars, KillVerifier, private, stored
<1>2. IngestionInv'
  BY <1>1 DEF IngestionInv, IngestionOK, OriginalsHeld, PuttingHeld, ChunksOfRow
<1>3. Kept
  BY VerifySteps DEF QueueInv
<1>4. RefusedIsVisible'
  BY <1>1, <1>3 DEF Kept, QueueInv, RefusedIsVisible
<1>5. QED
  BY <1>2, <1>3, <1>4, KeptFindings DEF Kept, QueueInv

LEMMA NextInv ==
    Inv /\ [EvidenceNext]_evidenceVars => Inv' /\ (DriftStep \/ UNCHANGED <<currencyVars, queue>>)
<1> SUFFICES ASSUME Inv, [EvidenceNext]_evidenceVars
             PROVE  Inv' /\ (DriftStep \/ UNCHANGED <<currencyVars, queue>>)
  OBVIOUS
<1> USE DEF Inv
<1>1. ASSUME UNCHANGED currencyVars, \A s \in Sources : Filed(s) => Filed(s)'
      PROVE  CurrencyInv' /\ DriftStep
  <2>1. UNCHANGED <<page, now, linkVars, checkedAt, editionRows, editionJob, superseded, tombstones,
                    adopting, cut>>
    BY <1>1 DEF currencyVars, pages, editionVars, records
  <2>2. QED
    BY <1>1, <2>1 DEF linkVars, CurrencyInv, CurrencyOK, WitnessedOK, JobsOK, LedgerInv, DriftInv,
                      DriftStep
<1>2. CASE IngestionNext /\ UNCHANGED <<verificationVars, currencyVars>>
  <2>1. QueueInv' /\ IngestionInv' /\ \A s \in Sources : Filed(s) => Filed(s)'
    BY <1>2, IngestionSteps
  <2>2. VerificationInv'
    BY <1>2, <2>1, IngestionMoves, OthersKeep DEF QueueInv
  <2>3. QED
    BY <1>1, <1>2, <2>1, <2>2
<1>3. CASE /\ (Verify /\ UNCHANGED ingestionVars) \/ \E p \in Verifiers : KillVerifier(p)
           /\ UNCHANGED currencyVars
  BY <1>1, <1>3, VerifierSteps
<1>4. CASE CurrencyNext /\ UNCHANGED <<ingestionVars, verificationVars>>
  <2>1. UNCHANGED <<originals, manifest, tools, row, chunks, embedded, putting, last, torn>>
    BY <1>4 DEF ingestionVars
  <2>2. IngestionInv'
    BY <2>1 DEF IngestionInv, IngestionOK, OriginalsHeld, PuttingHeld, ChunksOfRow
  <2>3. QueueInv' /\ CurrencyInv' /\ DriftStep
    BY <1>4, <2>1, LinkSteps, OtherSteps
  <2>4. VerificationInv'
    BY <1>4, <2>3, CurrencyMoves, OthersKeep DEF QueueInv, CurrencyInv
  <2>5. QED
    BY <2>2, <2>3, <2>4
<1>5. CASE UNCHANGED evidenceVars
  <2>1. UNCHANGED <<originals, manifest, tools, row, chunks, embedded, putting, last, torn>>
    BY <1>5 DEF evidenceVars, ingestionVars
  <2>2. UNCHANGED <<page, now, linkVars, checkedAt, editionRows, editionJob, superseded, tombstones,
                    adopting, cut, queue, currencyVars, verificationVars>>
    BY <1>5 DEF evidenceVars, currencyVars, pages, editionVars, records
  <2>3. IngestionInv'
    BY <2>1 DEF IngestionInv, IngestionOK, OriginalsHeld, PuttingHeld, ChunksOfRow
  <2>4. QueueInv'
    BY <2>1, <2>2 DEF QueueInv, QueueOK, FindingsDoNotStack, RefusedIsVisible, OpenIssues, Rows
  <2>5. CurrencyInv'
    BY <2>2 DEF linkVars, CurrencyInv, CurrencyOK, WitnessedOK, JobsOK, LedgerInv, DriftInv, Filed, Rows
  <2>6. VerificationInv'
    BY <2>2, <2>4, NothingMoves, OthersKeep DEF QueueInv
  <2>7. QED
    BY <2>2, <2>3, <2>4, <2>5, <2>6
<1>6. QED
  BY <1>2, <1>3, <1>4, <1>5 DEF EvidenceNext, Next

\* A source whose last ingestion failed has an open issue (pipeline.py:81), whatever the
\* currency jobs file and a human closes.
THEOREM RefusedStaysVisible == EvidenceSpec => []RefusedIsVisible
<1>1. Inv => RefusedIsVisible
  BY DEF Inv, QueueInv
<1>2. QED
  BY InitInv, NextInv, <1>1, PTL DEF EvidenceSpec

\* What the next run would skip is what it would store (pipeline.py:124), unless a killed
\* put has overwritten the original.
THEOREM SkipsAreSound == EvidenceSpec => []SkipIsSound
<1>1. Inv => SkipIsSound
  <2> SUFFICES ASSUME Inv, NEW s \in Sources, s \notin torn, putting = None, manifest[s] # None,
                      IsCurrent(s, manifest[s])
               PROVE  chunks[s] = Fresh(s, manifest[s])
    BY DEF SkipIsSound
  <2>1. originals[s][manifest[s].original] = manifest[s].hash
    BY DEF Inv, IngestionInv, OriginalsHeld
  <2>2. chunks[s] = [text |-> row[s].hash, kinds |-> row[s].kinds, tools |-> row[s].tools]
    BY DEF Inv, IngestionInv, ChunksOfRow, IsCurrent
  <2>3. QED
    BY <2>1, <2>2 DEF IsCurrent, Fresh
<1>2. QED
  BY InitInv, NextInv, <1>1, PTL DEF EvidenceSpec

\* The findings of the currency jobs do not stack on the queue they share with ingestion,
\* and the ledger names no successor its record does not (store.py:176, supersede.py:58).
THEOREM CurrencyHolds == EvidenceSpec => []CurrencySound
<1>1. Inv => CurrencySound
  <2> SUFFICES ASSUME Inv PROVE CurrencySound
    OBVIOUS
  <2>1. LedgerFollowsRecord
    BY DEF Inv, CurrencyInv, LedgerInv, LedgerFollowsRecord
  <2>2. QED
    BY <2>1 DEF Inv, QueueInv, CurrencyInv, CurrencySound
<1>2. QED
  BY InitInv, NextInv, <1>1, PTL DEF EvidenceSpec

\* What verification writes outside its own memory holds together for any sources, facts
\* and verifiers: the bounces of an issue stay within the budget and one per other
\* verifier (admissibility.py:83), the open issues of a source within the processes that
\* file (store.py:166), and a nightly item is done only with its contradictions on main.
THEOREM VerificationHolds == EvidenceSpec => []VerificationSound
<1>1. Inv => VerificationSound
  <2> SUFFICES ASSUME Inv PROVE VerificationSound
    OBVIOUS
  <2>1. TypeOK
    BY DEF Inv, QueueInv, IngestionInv, VerificationInv, TypeOK
  <2>2. ASSUME NEW id \in Rows PROVE queue[id].bounces <= Budget + Cardinality(Verifiers) - 1
    BY <2>1, BouncesType, Counted, BudgetAssumption DEF TypeOK, Inv, VerificationInv, Claims, BudgetInv
  <2>3. ASSUME NEW s \in Sources PROVE Cardinality(OpenIssues(s)) <= Cardinality(Verifiers) + 1
    BY <2>1, Counted DEF TypeOK, Inv, VerificationInv, Claims, IssuesInv
  <2>4. QED
    BY <2>1, <2>2, <2>3 DEF Inv, VerificationInv, RegisterInv, RowsInv, VerificationSound, BudgetHolds,
                            IssuesBounded
<1>2. QED
  BY InitInv, NextInv, <1>1, PTL DEF EvidenceSpec

\* A page that changed between two completed checks is on the queue when the later one is
\* done (links.py:86), unless the check was killed after it had moved the baseline.
THEOREM DriftReported == EvidenceSpec => DriftIsFiled
<1>1. Inv /\ [EvidenceNext]_evidenceVars => [DriftStep]_<<currencyVars, queue>>
  BY NextInv
<1>2. QED
  BY InitInv, NextInv, <1>1, PTL DEF EvidenceSpec, DriftIsFiled, DriftStep

-----------------------------------------------------------------------------
(* Chunking.  Sizes first: what the recursive sum of a sequence is.          *)

\* What the recursive sum of a sequence is: it adds one item after another.
LEMMA SumSteps ==
    ASSUME NEW f \in Seq(Nat)
    PROVE  \E sum \in [0 .. Len(f) -> Nat] :
               /\ Sum(f) = sum[Len(f)] /\ sum[0] = 0
               /\ \A i \in 1 .. Len(f) : sum[i] = sum[i - 1] + f[i]
<1> DEFINE F(g) == [i \in 0 .. Len(f) |-> IF i = 0 THEN 0 ELSE g[i - 1] + f[i]]
           sum == CHOOSE g : g = F(g)
           Adds(g, n) == g[0] = 0 /\ \A i \in 1 .. n : g[i] = g[i - 1] + f[i]
           bad == {n \in 0 .. Len(f) : ~ \E g \in [0 .. n -> Nat] : Adds(g, n)}
<1>1. Len(f) \in Nat /\ \A i \in 1 .. Len(f) : f[i] \in Nat
  OBVIOUS
<1>2. bad \in SUBSET Nat
  BY <1>1
<1>3. bad = {}
  <2> HIDE DEF bad
  <2>1. SUFFICES ASSUME bad # {} PROVE FALSE
    OBVIOUS
  <2>2. PICK n \in bad : \A m \in bad : n <= m
    BY <1>2, <2>1, LeastIssue
  <2>3. n \in 0 .. Len(f) /\ ~ \E g \in [0 .. n -> Nat] : Adds(g, n)
    BY <2>2 DEF bad
  <2>4. CASE n = 0
    <3> DEFINE g == [i \in 0 .. 0 |-> 0]
    <3>1. g \in [0 .. n -> Nat] /\ Adds(g, n)
      BY <2>4
    <3> QED
      BY <2>3, <3>1
  <2>5. CASE n # 0
    <3>1. n - 1 \in 0 .. Len(f) /\ ~ n <= n - 1
      BY <1>1, <2>3, <2>5
    <3>2. n - 1 \notin bad
      BY <2>2, <3>1
    <3>3. PICK g \in [0 .. n - 1 -> Nat] : Adds(g, n - 1)
      BY <3>1, <3>2 DEF bad
    <3> DEFINE h == [i \in 0 .. n |-> IF i = n THEN g[n - 1] + f[n] ELSE g[i]]
    <3>4. h \in [0 .. n -> Nat]
      BY <1>1, <2>3, <2>5, <3>3
    <3>5. h[0] = 0
      BY <2>3, <2>5, <3>3
    <3>6. ASSUME NEW i \in 1 .. n PROVE h[i] = h[i - 1] + f[i]
      BY <2>3, <2>5, <3>3
    <3> QED
      BY <2>3, <3>4, <3>5, <3>6
  <2> QED
    BY <2>4, <2>5
<1>4. PICK g \in [0 .. Len(f) -> Nat] : Adds(g, Len(f))
  <2>1. Len(f) \in 0 .. Len(f) /\ Len(f) \notin bad
    <3> HIDE DEF bad
    <3> QED
      BY <1>1, <1>3
  <2> QED
    BY <2>1
<1>5. g = F(g)
  <2>1. \A i \in 0 .. Len(f) : g[i] = F(g)[i]
    BY <1>1, <1>4
  <2> QED
    BY <2>1
<1>6. sum = F(sum)
  BY <1>5
<1> HIDE DEF sum
<1>7. sum[0] = 0 /\ \A i \in 1 .. Len(f) : sum[i] = sum[i - 1] + f[i]
  BY <1>1, <1>6
<1> DEFINE odd == {n \in 0 .. Len(f) : sum[n] # g[n]}
<1>8. odd \in SUBSET Nat
  BY <1>1
<1>9. odd = {}
  <2> HIDE DEF odd
  <2>1. SUFFICES ASSUME odd # {} PROVE FALSE
    OBVIOUS
  <2>2. PICK n \in odd : \A m \in odd : n <= m
    BY <1>8, <2>1, LeastIssue
  <2>3. n # 0 /\ n \in 0 .. Len(f) /\ sum[n] # g[n]
    BY <1>4, <1>7, <2>2 DEF odd
  <2>4. n - 1 \in 0 .. Len(f) /\ ~ n <= n - 1
    BY <1>1, <2>3
  <2>5. sum[n - 1] = g[n - 1]
    BY <2>2, <2>4 DEF odd
  <2>6. sum[n] = g[n]
    BY <1>4, <1>7, <2>3, <2>5
  <2> QED
    BY <2>3, <2>6
<1>10. Sum(f) = sum[Len(f)]
  BY DEF Sum, sum
<1>11. Sum(f) = g[Len(f)]
  BY <1>1, <1>9, <1>10
<1> QED
  BY <1>4, <1>11

\* Sizes are numbers.
LEMMA SumType == ASSUME NEW f \in Seq(Nat) PROVE Sum(f) \in Nat
<1>1. Len(f) \in 0 .. Len(f)
  OBVIOUS
<1> QED
  BY <1>1, SumSteps

LEMMA SumOfOne == ASSUME NEW x \in Nat PROVE Sum(<<x>>) = x
<1>1. <<x>> \in Seq(Nat) /\ Len(<<x>>) = 1 /\ <<x>>[1] = x
  OBVIOUS
<1> DEFINE f == <<x>>
<1> HIDE DEF f
<1>2. f \in Seq(Nat) /\ Len(f) = 1 /\ f[1] = x
  BY <1>1 DEF f
<1>3. PICK sum \in [0 .. Len(f) -> Nat] : /\ Sum(f) = sum[Len(f)] /\ sum[0] = 0
                                          /\ \A i \in 1 .. Len(f) : sum[i] = sum[i - 1] + f[i]
  BY <1>2, SumSteps
<1>4. Sum(f) = x
  <2>1. sum[1] = sum[0] + f[1]
    BY <1>2, <1>3
  <2> QED
    BY <1>2, <1>3, <2>1
<1> QED
  BY <1>4 DEF f

Word == [block : Nat \ {0}, from : Nat, width : Nat \ {0}, cut : BOOLEAN]
Titles == [level : Nat, title : Nat]

\* The width of a text, and of one word.
LEMMA WidthType == ASSUME NEW words \in Seq(Word) PROVE Width(words) \in Int
<1> DEFINE widths == [i \in 1 .. Len(words) |-> words[i].width]
<1>1. Len(words) \in Nat /\ \A i \in 1 .. Len(words) : words[i].width \in Nat
  <2>1. \A w \in Word : w.width \in Nat
    BY DEF Word
  <2> QED
    BY <2>1
<1>2. widths \in Seq(Nat) /\ Len(widths) = Len(words)
  BY <1>1
<1>3. Sum(widths) \in Nat
  BY <1>2, SumType
<1> HIDE DEF widths
<1>4. Joined(widths, 1) = Sum(widths) + 1 * (Len(words) - 1)
  BY <1>2 DEF Joined
<1>5. Joined(widths, 1) \in Int
  BY <1>1, <1>3, <1>4
<1> QED
  BY <1>5 DEF Width, widths

LEMMA WidthOfOne == ASSUME NEW w \in Word PROVE Width(<<w>>) = w.width
<1> DEFINE widths == [i \in 1 .. Len(<<w>>) |-> <<w>>[i].width]
<1>1. w.width \in Nat
  BY DEF Word
<1>2. widths = <<w.width>>
  OBVIOUS
<1>3. Sum(<<w.width>>) = w.width /\ Len(<<w.width>>) = 1
  BY <1>1, SumOfOne
<1>4. Joined(<<w.width>>, 1) = w.width
  BY <1>1, <1>3 DEF Joined
<1> QED
  BY <1>2, <1>4 DEF Width

\* The share of the band the breadcrumb may take, with the blank line behind it.
Share == Longer(1, MaxTokens \div 4)

\* The breadcrumb takes no more than its share of the band, and a bare one nothing.
LEMMA PrefixType ==
    ASSUME NEW s, s.path \in Seq(Titles)
    PROVE  /\ _prefix(s) \in Nat /\ _prefix(s) <= 4 * Share + 2
           /\ s.path = <<>> => _prefix(s) = 0
<1> DEFINE path == s.path
           chars(p) == Joined([i \in 1 .. Len(p) |-> p[i].title], 3)
           limit == Longer(1, MaxTokens \div 4) * CHARS_PER_TOKEN
           fitting == {n \in 1 .. Len(path) : 4 + chars(SubSeq(path, n, Len(path))) <= limit}
<1>1. Share \in Nat /\ Share >= 1 /\ limit = 4 * Share /\ limit \in Nat
  BY BandAssumption DEF Share, Longer, CHARS_PER_TOKEN
<1>2. ASSUME NEW p \in Seq(Titles), p # <<>> PROVE chars(p) \in Nat
  <2> DEFINE titles == [i \in 1 .. Len(p) |-> p[i].title]
  <2>1. Len(p) \in Nat \ {0} /\ \A i \in 1 .. Len(p) : p[i].title \in Nat
    <3>1. \A t \in Titles : t.title \in Nat
      BY DEF Titles
    <3> QED
      BY <1>2, <3>1
  <2>2. titles \in Seq(Nat) /\ Len(titles) = Len(p)
    BY <2>1
  <2>3. Sum(titles) \in Nat
    BY <2>2, SumType
  <2> HIDE DEF titles
  <2>4. Joined(titles, 3) = Sum(titles) + 3 * (Len(p) - 1)
    BY <2>2 DEF Joined
  <2>5. Joined(titles, 3) \in Nat
    BY <2>1, <2>3, <2>4
  <2> QED
    BY <2>5 DEF titles
<1>3. CASE path = <<>>
  BY <1>1, <1>3 DEF _prefix
<1>4. CASE path # <<>>
  <2>1. _prefix(s) = _embedded_breadcrumb(path) + 2
    BY <1>4 DEF _prefix
  <2>2. _embedded_breadcrumb(path) =
            IF chars(path) <= limit THEN chars(path)
            ELSE IF fitting = {} THEN limit
            ELSE 4 + chars(SubSeq(path, Min(fitting), Len(path)))
    BY DEF _embedded_breadcrumb
  <2>3. _embedded_breadcrumb(path) \in Nat /\ _embedded_breadcrumb(path) <= limit
    <3>1. chars(path) \in Nat
      BY <1>2, <1>4
    <3>2. CASE chars(path) <= limit
      BY <2>2, <3>1, <3>2
    <3>3. CASE ~ chars(path) <= limit /\ fitting = {}
      <4> HIDE DEF chars, limit, fitting
      <4> QED
        BY <1>1, <2>2, <3>3
    <3>4. CASE ~ chars(path) <= limit /\ fitting # {}
      <4>1. Len(path) \in Nat
        OBVIOUS
      <4>2. fitting \in SUBSET Nat
        BY <4>1
      <4>3. Min(fitting) \in fitting
        <5> HIDE DEF fitting
        <5>1. PICK least \in fitting : \A other \in fitting : least <= other
          BY <3>4, <4>2, LeastIssue
        <5> QED
          BY <5>1 DEF Min
      <4> DEFINE n == Min(fitting)
                 deep == SubSeq(path, n, Len(path))
      <4> HIDE DEF n
      <4>4. n \in 1 .. Len(path) /\ 4 + chars(deep) <= limit
        BY <4>3 DEF n
      <4>5. deep \in Seq(Titles) /\ deep # <<>>
        <5>1. \A i \in n .. Len(path) : path[i] \in Titles
          BY <4>1, <4>4
        <5>2. n \in Int /\ Len(path) \in Int
          BY <4>1, <4>4
        <5> HIDE DEF path
        <5>3. deep \in Seq(Titles) /\ Len(deep) = Len(path) - n + 1
          BY <4>4, <5>1, <5>2, SubSeqProperties
        <5>4. Len(path) - n + 1 # 0
          BY <4>1, <4>4
        <5> HIDE DEF deep
        <5>5. Len(deep) # 0
          BY <5>3, <5>4
        <5> QED
          BY <5>3, <5>5
      <4>6. chars(deep) \in Nat
        BY <1>2, <4>5
      <4>7. _embedded_breadcrumb(path) = 4 + chars(deep)
        BY <2>2, <3>4 DEF n
      <4> HIDE DEF deep, chars, limit
      <4> QED
        BY <1>1, <4>4, <4>6, <4>7
    <3> QED
      BY <3>2, <3>3, <3>4
  <2> QED
    BY <1>1, <1>4, <2>1, <2>3
<1> QED
  BY <1>3, <1>4

\* A piece within the limit fits into a chunk of its own.
LEMMA PieceFits ==
    ASSUME NEW s, s.path \in Seq(Titles), NEW width \in Int, width <= Limit(s)
    PROVE  _text_for(s, width) <= MaxTokens
<1> DEFINE prefix == _prefix(s)
<1>1. prefix \in Nat /\ prefix <= 4 * Share + 2
  BY PrefixType
<1>2. /\ Limit(s) = Longer(1, MaxTokens - prefix \div 4) * 4
      /\ _text_for(s, width) = Longer(1, (prefix + width) \div 4)
  BY DEF Limit, _text_for, count_tokens, CHARS_PER_TOKEN
<1> HIDE DEF prefix
<1>3. /\ Share = Longer(1, MaxTokens \div 4) /\ MaxTokens \in Nat /\ Target \in Nat \ {0}
      /\ Target + MaxTokens \div 4 < MaxTokens
  BY BandAssumption DEF Share
<1>4. Share + 1 <= MaxTokens /\ Share \in Nat
  BY <1>3 DEF Longer
<1>5. prefix \div 4 <= Share
  BY <1>1, <1>4
<1>6. MaxTokens - prefix \div 4 >= 1
  BY <1>1, <1>3, <1>4, <1>5
<1>7. width <= (MaxTokens - prefix \div 4) * 4
  BY <1>1, <1>2, <1>3, <1>6 DEF Longer
<1>8. (prefix + width) \div 4 <= MaxTokens
  BY <1>1, <1>3, <1>7
<1> QED
  BY <1>1, <1>2, <1>3, <1>4, <1>8 DEF Longer

\* What is short of the target without a breadcrumb fits with any heading's.
LEMMA FoldFits ==
    ASSUME NEW s, s.path = <<>>, NEW t, t.path \in Seq(Titles), NEW chars \in Int,
           _text_for(s, chars) < Target
    PROVE  _text_for(t, chars) <= MaxTokens
<1> DEFINE prefix == _prefix(t)
<1>1. prefix \in Nat /\ prefix <= 4 * Share + 2
  BY PrefixType
<1>2. _prefix(s) = 0
  BY DEF _prefix
<1>3. /\ _text_for(s, chars) = Longer(1, (0 + chars) \div 4)
      /\ _text_for(t, chars) = Longer(1, (prefix + chars) \div 4)
  BY <1>2 DEF _text_for, count_tokens, CHARS_PER_TOKEN
<1> HIDE DEF prefix
<1>4. /\ Share = Longer(1, MaxTokens \div 4) /\ MaxTokens \in Nat /\ Target \in Nat \ {0}
      /\ Target + MaxTokens \div 4 < MaxTokens
  BY BandAssumption DEF Share
<1>5. chars \div 4 <= Target - 1
  BY <1>3, <1>4 DEF Longer
<1>6. chars <= 4 * Target - 1
  BY <1>4, <1>5
<1>7. Target + Share <= MaxTokens /\ Share \in Nat
  BY <1>4 DEF Longer
<1>8. (prefix + chars) \div 4 <= Target + Share
  BY <1>1, <1>4, <1>6, <1>7
<1> QED
  BY <1>1, <1>3, <1>4, <1>7, <1>8 DEF Longer

-----------------------------------------------------------------------------
(* Words and the characters they stand for.                                  *)

\* What is in two sequences joined.
LEMMA WordsOfConcat ==
    ASSUME NEW S, NEW p \in Seq(S), NEW q \in Seq(S)
    PROVE  ToSet(p \o q) = ToSet(p) \cup ToSet(q)
<1>1. Range(p \o q) = Range(p) \cup Range(q)
  BY RangeConcatenation
<1> QED
  BY <1>1 DEF ToSet, Range

\* The items of a sequence.
LEMMA WordsInSeq ==
    ASSUME NEW S, NEW p \in Seq(S)
    PROVE  /\ ToSet(p) = {p[i] : i \in 1 .. Len(p)} /\ ToSet(p) \subseteq S
           /\ p # <<>> => ToSet(p) # {} /\ Len(p) \in Nat \ {0}
<1>1. DOMAIN p = 1 .. Len(p) /\ Len(p) \in Nat /\ (p # <<>> => Len(p) \in Nat \ {0})
  OBVIOUS
<1> QED
  BY <1>1 DEF ToSet

\* Characters follow the words.
LEMMA CellsOfUnion ==
    ASSUME NEW p, NEW q, NEW r, ToSet(r) = ToSet(p) \cup ToSet(q)
    PROVE  Cells(r) = Cells(p) \cup Cells(q)
  BY DEF Cells

LEMMA CellsGrow ==
    ASSUME NEW p, NEW q, ToSet(p) \subseteq ToSet(q)
    PROVE  Cells(p) \subseteq Cells(q)
  BY DEF Cells

LEMMA CellsOfNone == Cells(<<>>) = {} /\ ToSet(<<>>) = {}
<1>1. DOMAIN <<>> = {}
  OBVIOUS
<1> QED
  BY <1>1 DEF Cells, ToSet

\* A word has a first character.
LEMMA CellOfWord ==
    ASSUME NEW p \in Seq(Word), p # <<>>
    PROVE  Cells(p) # {}
<1>1. PICK w \in ToSet(p) : w \in Word
  BY WordsInSeq
<1>2. 0 \in 0 .. w.width - 1
  BY <1>1 DEF Word
<1>3. <<w.block, w.from + 0>> \in Cells(p)
  BY <1>1, <1>2 DEF Cells
<1> QED
  BY <1>3

\* Overlap is of the words it is taken from.
LEMMA Carries ==
    ASSUME NEW words \in Seq(Word)
    PROVE  _carry(words) \in Seq(Word) /\ ToSet(_carry(words)) \subseteq ToSet(words)
<1>1. CASE Take = 0 \/ Take >= Len(words)
  BY <1>1, CellsOfNone DEF _carry
<1>2. CASE ~ (Take = 0 \/ Take >= Len(words))
  <2> DEFINE m == Len(words) - Take + 1
             over == SubSeq(words, m, Len(words))
  <2>1. Len(words) \in Nat /\ m \in 1 .. Len(words)
    BY <1>2, BandAssumption
  <2>2. \A i \in 1 .. Len(words) : words[i] \in Word
    OBVIOUS
  <2> HIDE DEF m
  <2>3. /\ over \in Seq(Word) /\ Len(over) = Len(words) - m + 1
        /\ \A i \in 1 .. Len(words) - m + 1 : over[i] = words[m + i - 1]
    BY <2>1, <2>2, SubSeqProperties
  <2>4. ToSet(over) \subseteq ToSet(words)
    <3> HIDE DEF over
    <3>1. /\ ToSet(over) = {over[i] : i \in 1 .. Len(over)}
          /\ ToSet(words) = {words[i] : i \in 1 .. Len(words)}
      BY <2>3, WordsInSeq
    <3>2. ASSUME NEW i \in 1 .. Len(over) PROVE over[i] \in ToSet(words)
      <4>1. m + i - 1 \in 1 .. Len(words) /\ over[i] = words[m + i - 1]
        BY <2>1, <2>3
      <4> QED
        BY <3>1, <4>1
    <3> QED
      BY <3>1, <3>2
  <2>5. _carry(words) = over
    BY <1>2 DEF _carry, m
  <2> QED
    BY <2>3, <2>4, <2>5
<1> QED
  BY <1>1, <1>2

-----------------------------------------------------------------------------
(* What one call makes of the accumulator.                                   *)

\* A list, whatever its items are.
Listed(list) == Len(list) \in Nat /\ list = [i \in 1 .. Len(list) |-> list[i]]

\* One item more.
LEMMA ListGrows ==
    ASSUME NEW list, Listed(list), NEW item
    PROVE  LET longer == Append(list, item)
           IN  /\ Listed(longer) /\ longer # <<>> /\ Len(longer) = Len(list) + 1
               /\ \A i \in 1 .. Len(list) : longer[i] = list[i]
               /\ longer[Len(longer)] = item
<1> DEFINE S == {list[i] : i \in 1 .. Len(list)} \cup {item}
<1>1. list \in Seq(S)
  <2>1. \A i \in 1 .. Len(list) : list[i] \in S
    OBVIOUS
  <2>2. Len(list) \in Nat /\ list = [i \in 1 .. Len(list) |-> list[i]]
    BY DEF Listed
  <2> HIDE DEF S
  <2>3. [i \in 1 .. Len(list) |-> list[i]] \in Seq(S)
    BY <2>1, <2>2
  <2> QED
    BY <2>2, <2>3
<1>2. item \in S
  OBVIOUS
<1> HIDE DEF S
<1> DEFINE longer == Append(list, item)
<1>3. /\ longer \in Seq(S) /\ longer # <<>> /\ Len(longer) = Len(list) + 1
      /\ \A i \in 1 .. Len(list) : longer[i] = list[i]
      /\ longer[Len(list) + 1] = item
  BY <1>1, <1>2, AppendProperties
<1> HIDE DEF longer
<1>4. Listed(longer)
  BY <1>3 DEF Listed
<1> QED
  BY <1>3, <1>4 DEF longer

\* What the chunks of an accumulator hold, and the words of its last one.
Emitted(a) == UNION {Cells(a.chunks[n].words) : n \in 1 .. Len(a.chunks)}
LastWords(a) == IF a.chunks = <<>> THEN {} ELSE ToSet(Last(a.chunks).words)
BlocksOf(a) == {w.block : w \in ToSet(a.buffer)} \cup ToSet(a.pages)

Accumulator(a) ==
    /\ a = [buffer |-> a.buffer, chars |-> a.chars, pages |-> a.pages,
            pure_carry |-> a.pure_carry, chunks |-> a.chunks, failed |-> a.failed]
    /\ a.buffer \in Seq(Word) /\ a.chars \in Int /\ a.pages \in Seq(Nat)
    /\ a.pure_carry \in BOOLEAN /\ a.failed \in BOOLEAN /\ Listed(a.chunks)

\* own[k]: the blocks that belong to section k.
ChunkFine(made, n, own) ==
    LET c == made[n]
    IN  /\ n > 1 => ~ Cells(c.words) \subseteq Cells(made[n - 1].words)
        /\ c.tokens <= MaxTokens
        /\ c.section \in Nat /\ {w.block : w \in ToSet(c.words)} \cup c.pages \subseteq own[c.section]
        /\ paged => \A w \in ToSet(c.words) :
                        \/ n > 1 /\ w \in ToSet(made[n - 1].words)
                        \/ \E lo, hi \in c.pages : lo <= w.block /\ w.block <= hi

Chunked(made, own) == \A n \in 1 .. Len(made) : ChunkFine(made, n, own)

\* The buffer is overlap, or holds something new and is no larger than a chunk; its words
\* are of the last chunk or on the pages listed.
Gathers(a, s, own) ==
    /\ a.pure_carry => a.buffer # <<>> /\ ToSet(a.buffer) \subseteq LastWords(a)
    /\ ~a.pure_carry /\ a.buffer # <<>> =>
           /\ _text_for(s, a.chars) <= MaxTokens
           /\ a.chunks # <<>> => ~ Cells(a.buffer) \subseteq Cells(Last(a.chunks).words)
    /\ paged => \A w \in ToSet(a.buffer) : w \in LastWords(a) \/ w.block \in ToSet(a.pages)
    /\ s.index \in Nat /\ BlocksOf(a) \subseteq own[s.index]

\* Before the first heading there is room for a breadcrumb.
Short(a, s) ==
    ~a.pure_carry /\ a.buffer # <<>> /\ s.path = <<>> => _text_for(s, a.chars) < Target

LEMMA EmptyList == ASSUME NEW list, Listed(list) PROVE (list = <<>>) <=> (Len(list) = 0)
<1>1. list # <<>> => Len(list) # 0
  <2>1. ASSUME Len(list) = 0 PROVE list = <<>>
    <3>1. list = [i \in 1 .. 0 |-> list[i]]
      BY <2>1 DEF Listed
    <3>2. \A f : [i \in 1 .. 0 |-> f[i]] = <<>>
      OBVIOUS
    <3> QED
      BY <3>1, <3>2
  <2> QED
    BY <2>1
<1> QED
  BY <1>1

\* The last chunk is one of them.
LEMMA LastEmitted ==
    ASSUME NEW a, Listed(a.chunks), a.chunks # <<>>
    PROVE  /\ Cells(Last(a.chunks).words) \subseteq Emitted(a)
           /\ LastWords(a) = ToSet(Last(a.chunks).words)
<1>1. Len(a.chunks) \in 1 .. Len(a.chunks)
  BY EmptyList DEF Listed
<1> QED
  BY <1>1 DEF Emitted, Last, LastWords

\* A record but for one field.
LEMMA OneField ==
    ASSUME NEW u, NEW v, NEW w, NEW x, NEW y, NEW z, NEW a, NEW new,
           a = [buffer |-> u, chars |-> v, pages |-> w, pure_carry |-> x, chunks |-> y,
                failed |-> z]
    PROVE  /\ [a EXCEPT !.failed = new] = [buffer |-> u, chars |-> v, pages |-> w,
                                           pure_carry |-> x, chunks |-> y, failed |-> new]
           /\ [a EXCEPT !.pages = new] = [buffer |-> u, chars |-> v, pages |-> new,
                                          pure_carry |-> x, chunks |-> y, failed |-> z]
<1>1. [a EXCEPT !.failed = new] = [buffer |-> u, chars |-> v, pages |-> w,
                                   pure_carry |-> x, chunks |-> y, failed |-> new]
  OBVIOUS
<1>2. [a EXCEPT !.pages = new] = [buffer |-> u, chars |-> v, pages |-> new,
                                  pure_carry |-> x, chunks |-> y, failed |-> z]
  OBVIOUS
<1> QED
  BY <1>1, <1>2

\* Dropping the buffer loses nothing when it holds overlap or nothing.
LEMMA EmptiedGathers ==
    ASSUME NEW a, NEW s, NEW own, Accumulator(a), ~a.failed, Gathers(a, s, own),
           a.buffer = <<>> \/ a.pure_carry
    PROVE  LET b == Emptied(a)
           IN  /\ Accumulator(b) /\ b.chunks = a.chunks /\ ~b.failed
               /\ b.buffer = <<>> /\ b.pages = <<>> /\ ~b.pure_carry
               /\ Emitted(b) = Emitted(a) \cup Cells(a.buffer)
<1> DEFINE b == Emptied(a)
<1>1. b = [buffer |-> <<>>, chars |-> 0, pages |-> <<>>, pure_carry |-> FALSE,
           chunks |-> a.chunks, failed |-> a.failed]
  BY DEF Emptied
<1>2. Accumulator(b)
  BY <1>1 DEF Accumulator
<1>3. Cells(a.buffer) \subseteq Emitted(a)
  <2>1. CASE a.buffer = <<>>
    BY <2>1, CellsOfNone
  <2>2. CASE a.buffer # <<>>
    <3>1. a.pure_carry /\ ToSet(a.buffer) \subseteq LastWords(a) /\ ToSet(a.buffer) # {}
      BY <2>2, WordsInSeq DEF Gathers, Accumulator
    <3>2. a.chunks # <<>>
      BY <3>1 DEF LastWords
    <3>3. ToSet(a.buffer) \subseteq ToSet(Last(a.chunks).words)
      BY <3>1, <3>2 DEF LastWords
    <3> QED
      BY <3>2, <3>3, CellsGrow, LastEmitted DEF Accumulator
  <2> QED
    BY <2>1, <2>2
<1>4. /\ b.chunks = a.chunks /\ ~b.failed /\ b.buffer = <<>> /\ b.pages = <<>>
      /\ ~b.pure_carry
  BY <1>1
<1> HIDE DEF b
<1>5. Emitted(b) = Emitted(a) \cup Cells(a.buffer)
  BY <1>3, <1>4 DEF Emitted
<1> QED
  BY <1>2, <1>4, <1>5 DEF b

\* A new chunk has what it was made of.
LEMMA ChunksGrow ==
    ASSUME NEW a, NEW b, NEW c, NEW own, Listed(a.chunks), b.chunks = Append(a.chunks, c),
           Chunked(a.chunks, own), c.tokens <= MaxTokens,
           a.chunks # <<>> => ~ Cells(c.words) \subseteq Cells(Last(a.chunks).words),
           c.section \in Nat, {w.block : w \in ToSet(c.words)} \cup c.pages \subseteq own[c.section],
           paged => \A w \in ToSet(c.words) :
                        \/ w \in LastWords(a)
                        \/ \E lo, hi \in c.pages : lo <= w.block /\ w.block <= hi
    PROVE  /\ Listed(b.chunks) /\ Chunked(b.chunks, own) /\ b.chunks # <<>>
           /\ Last(b.chunks) = c /\ LastWords(b) = ToSet(c.words)
           /\ Emitted(b) = Emitted(a) \cup Cells(c.words)
<1> DEFINE old == a.chunks
           new == b.chunks
<1>1. /\ Listed(new) /\ new # <<>> /\ Len(new) = Len(old) + 1
      /\ \A i \in 1 .. Len(old) : new[i] = old[i]
      /\ new[Len(new)] = c
  BY ListGrows
<1>2. Len(old) \in Nat /\ (old = <<>> <=> Len(old) = 0)
  BY EmptyList DEF Listed
<1>3. Last(new) = c /\ LastWords(b) = ToSet(c.words)
  BY <1>1 DEF Last, LastWords
<1>4. ASSUME NEW n \in 1 .. Len(new) PROVE ChunkFine(new, n, own)
  <2>1. CASE n \in 1 .. Len(old)
    <3>1. new[n] = old[n] /\ (n > 1 => new[n - 1] = old[n - 1])
      BY <1>1, <1>2, <2>1
    <3>2. ChunkFine(old, n, own)
      BY <2>1 DEF Chunked
    <3> HIDE DEF new, old
    <3> QED
      BY <3>1, <3>2 DEF ChunkFine
  <2>2. CASE n = Len(new)
    <3>1. new[n] = c /\ (n > 1 <=> old # <<>>)
      BY <1>1, <1>2, <2>2
    <3>2. n > 1 => new[n - 1] = Last(old) /\ LastWords(a) = ToSet(Last(old).words)
      BY <1>1, <1>2, <2>2, <3>1 DEF Last, LastWords
    <3>3. ~ (n > 1) => LastWords(a) = {}
      BY <3>1 DEF LastWords
    <3>4. n > 1 => ~ Cells(c.words) \subseteq Cells(new[n - 1].words)
      BY <3>1, <3>2
    <3>5. paged => \A w \in ToSet(c.words) :
                        \/ n > 1 /\ w \in ToSet(new[n - 1].words)
                        \/ \E lo, hi \in c.pages : lo <= w.block /\ w.block <= hi
      BY <3>2, <3>3
    <3> HIDE DEF new, old
    <3> QED
      BY <3>1, <3>4, <3>5 DEF ChunkFine
  <2> QED
    BY <1>1, <1>2, <2>1, <2>2
<1>5. Emitted(b) = Emitted(a) \cup Cells(c.words)
  <2>1. 1 .. Len(new) = (1 .. Len(old)) \cup {Len(new)}
    BY <1>1, <1>2
  <2>2. \A n \in 1 .. Len(old) : Cells(new[n].words) = Cells(old[n].words)
    BY <1>1
  <2>3. Cells(new[Len(new)].words) = Cells(c.words)
    BY <1>1
  <2>4. Emitted(b) \subseteq Emitted(a) \cup Cells(c.words)
    <3>1. ASSUME NEW x \in Emitted(b) PROVE x \in Emitted(a) \cup Cells(c.words)
      <4>1. PICK n \in 1 .. Len(new) : x \in Cells(new[n].words)
        BY DEF Emitted
      <4> QED
        BY <2>1, <2>2, <2>3, <4>1 DEF Emitted
    <3> QED
      BY <3>1
  <2>5. Emitted(a) \cup Cells(c.words) \subseteq Emitted(b)
    <3>1. ASSUME NEW x \in Emitted(a) PROVE x \in Emitted(b)
      <4>1. PICK n \in 1 .. Len(old) : x \in Cells(old[n].words)
        BY DEF Emitted
      <4>2. n \in 1 .. Len(new) /\ x \in Cells(new[n].words)
        BY <2>1, <2>2, <4>1
      <4> QED
        BY <4>2 DEF Emitted
    <3>2. Cells(c.words) \subseteq Emitted(b)
      BY <2>1, <2>3 DEF Emitted
    <3> QED
      BY <3>1, <3>2
  <2> QED
    BY <2>4, <2>5
<1> QED
  BY <1>1, <1>3, <1>4, <1>5 DEF Chunked

\* What `flush` does (chunker.py:214): what it emits is a good chunk, and what it keeps is
\* overlap with it.
LEMMA Flushes ==
    ASSUME NEW a, NEW s, NEW own, Accumulator(a), ~a.failed, Gathers(a, s, own),
           Chunked(a.chunks, own), NEW carry \in BOOLEAN
    PROVE  LET b == flush(a, s, carry)
           IN  /\ Accumulator(b) /\ Chunked(b.chunks, own)
               /\ ~b.failed =>
                      /\ Gathers(b, s, own)
                      /\ Emitted(b) = Emitted(a) \cup Cells(a.buffer)
                      /\ b.buffer # <<>> => b.pure_carry
                      /\ ~carry => b.buffer = <<>> /\ b.pages = <<>>
                      /\ a.pure_carry => b.buffer = <<>>
<1> DEFINE b == flush(a, s, carry)
           over == IF carry THEN _carry(a.buffer) ELSE <<>>
           locators == _locator_for(s, a.pages)
<1>1. CASE a.buffer = <<>> \/ a.pure_carry
  <2>1. b = Emptied(a)
    BY <1>1 DEF flush
  <2>2. /\ Accumulator(b) /\ b.chunks = a.chunks /\ ~b.failed
        /\ b.buffer = <<>> /\ b.pages = <<>> /\ ~b.pure_carry
        /\ Emitted(b) = Emitted(a) \cup Cells(a.buffer)
    BY <1>1, <2>1, EmptiedGathers
  <2> HIDE DEF b
  <2>3. Gathers(b, s, own)
    <3>1. s.index \in Nat
      BY DEF Gathers
    <3> QED
      BY <2>2, <3>1, CellsOfNone DEF Gathers, BlocksOf
  <2> QED
    BY <2>2, <2>3 DEF b
<1>2. CASE ~ (a.buffer = <<>> \/ a.pure_carry) /\ locators = <<>>
  <2>1. b = [a EXCEPT !.failed = TRUE]
    BY <1>2 DEF flush
  <2> DEFINE yes == TRUE
  <2> HIDE DEF yes
  <2>2. [a EXCEPT !.failed = yes] =
            [buffer |-> a.buffer, chars |-> a.chars, pages |-> a.pages,
             pure_carry |-> a.pure_carry, chunks |-> a.chunks, failed |-> yes]
    BY OneField DEF Accumulator
  <2>3. b = [buffer |-> a.buffer, chars |-> a.chars, pages |-> a.pages,
             pure_carry |-> a.pure_carry, chunks |-> a.chunks, failed |-> TRUE]
    BY <2>1, <2>2 DEF yes
  <2> HIDE DEF b
  <2>4. Accumulator(b) /\ b.failed /\ b.chunks = a.chunks
    BY <2>3 DEF Accumulator
  <2> QED
    BY <2>4 DEF b
<1>3. CASE ~ (a.buffer = <<>> \/ a.pure_carry) /\ locators # <<>>
  <2> DEFINE c == [section |-> s.index, words |-> a.buffer, pages |-> ToSet(a.pages),
                   locator |-> Head(locators), tokens |-> _text_for(s, a.chars)]
             kept == IF carry /\ a.pages # <<>> THEN <<Last(a.pages)>> ELSE <<>>
             chars == IF over = <<>> THEN 0 ELSE Width(over)
             some == over # <<>>
  <2>1. b = [buffer |-> over, chars |-> chars, pages |-> kept, pure_carry |-> some,
             failed |-> FALSE, chunks |-> Append(a.chunks, c)]
    BY <1>3 DEF flush
  <2>2. over \in Seq(Word) /\ ToSet(over) \subseteq ToSet(a.buffer)
    BY Carries, CellsOfNone DEF Accumulator
  <2>3. chars \in Int
    <3> HIDE DEF over
    <3> QED
      BY <2>2, WidthType
  <2>4. kept \in Seq(Nat) /\ ToSet(kept) \subseteq ToSet(a.pages)
    <3>1. CASE carry /\ a.pages # <<>>
      <4>1. a.pages \in Seq(Nat) /\ Len(a.pages) \in 1 .. Len(a.pages)
        BY <3>1, WordsInSeq DEF Accumulator
      <4>2. Last(a.pages) \in ToSet(a.pages) /\ Last(a.pages) \in Nat
        BY <4>1, WordsInSeq DEF Last
      <4> DEFINE cited == Last(a.pages)
      <4> HIDE DEF cited
      <4>3. ToSet(<<cited>>) = {cited}
        BY DEF ToSet
      <4>4. <<cited>> \in Seq(Nat)
        BY <4>2 DEF cited
      <4>5. kept = <<cited>>
        BY <3>1 DEF cited
      <4> QED
        BY <4>2, <4>3, <4>4, <4>5 DEF cited
    <3>2. CASE ~ (carry /\ a.pages # <<>>)
      BY <3>2, CellsOfNone
    <3> QED
      BY <3>1, <3>2
  <2>5. /\ c.section = s.index /\ c.words = a.buffer /\ c.pages = ToSet(a.pages)
        /\ c.tokens = _text_for(s, a.chars)
    OBVIOUS
  <2> HIDE DEF c, kept, chars, over
  <2>6. /\ b.buffer = over /\ b.chars = chars /\ b.pages = kept /\ b.pure_carry = some
        /\ ~b.failed /\ b.chunks = Append(a.chunks, c)
    BY <2>1
  <2>7. /\ _text_for(s, a.chars) <= MaxTokens
        /\ a.chunks # <<>> => ~ Cells(a.buffer) \subseteq Cells(Last(a.chunks).words)
        /\ paged => \A w \in ToSet(a.buffer) : w \in LastWords(a) \/ w.block \in ToSet(a.pages)
        /\ {w.block : w \in ToSet(a.buffer)} \cup ToSet(a.pages) \subseteq own[s.index]
        /\ s.index \in Nat
    BY <1>3 DEF Gathers, BlocksOf
  <2>8. paged => \A w \in ToSet(c.words) :
                     \/ w \in LastWords(a)
                     \/ \E lo, hi \in c.pages : lo <= w.block /\ w.block <= hi
    <3>1. ASSUME NEW w \in ToSet(c.words), w.block \in c.pages
          PROVE  \E lo, hi \in c.pages : lo <= w.block /\ w.block <= hi
      <4>1. w.block \in Nat
        <5>1. a.buffer \in Seq(Word) /\ w \in ToSet(a.buffer)
          BY <2>5, <3>1 DEF Accumulator
        <5>2. w \in Word
          BY <5>1, WordsInSeq
        <5> QED
          BY <5>2 DEF Word
      <4> QED
        BY <3>1, <4>1
    <3> QED
      BY <2>5, <2>7, <3>1
  <2>9. /\ Listed(b.chunks) /\ Chunked(b.chunks, own) /\ b.chunks # <<>>
        /\ Last(b.chunks) = c /\ LastWords(b) = ToSet(c.words)
        /\ Emitted(b) = Emitted(a) \cup Cells(c.words)
    <3>1. Listed(a.chunks)
      BY DEF Accumulator
    <3>2. c.tokens <= MaxTokens /\ b.chunks = Append(a.chunks, c)
      BY <2>5, <2>6, <2>7
    <3>3. a.chunks # <<>> => ~ Cells(c.words) \subseteq Cells(Last(a.chunks).words)
      BY <2>5, <2>7
    <3>4. /\ c.section \in Nat
          /\ {w.block : w \in ToSet(c.words)} \cup c.pages \subseteq own[c.section]
      BY <2>5, <2>7
    <3> HIDE DEF b
    <3> QED
      BY <2>8, <3>1, <3>2, <3>3, <3>4, ChunksGrow
  <2>10. Accumulator(b)
    <3>1. b = [buffer |-> b.buffer, chars |-> b.chars, pages |-> b.pages,
               pure_carry |-> b.pure_carry, chunks |-> b.chunks, failed |-> b.failed]
      BY <2>1
    <3>2. b.failed \in BOOLEAN /\ b.pure_carry \in BOOLEAN
      <4>1. some \in BOOLEAN
        OBVIOUS
      <4> HIDE DEF some, b
      <4> QED
        BY <2>1, <4>1
    <3> HIDE DEF b
    <3> QED
      BY <2>2, <2>3, <2>4, <2>6, <2>9, <3>1, <3>2 DEF Accumulator
  <2>11. Gathers(b, s, own)
    <3> HIDE DEF b
    <3>1. b.pure_carry => b.buffer # <<>> /\ ToSet(b.buffer) \subseteq LastWords(b)
      BY <2>2, <2>5, <2>6, <2>9
    <3>2. b.pure_carry \/ b.buffer = <<>>
      BY <2>6
    <3>3. \A w \in ToSet(b.buffer) : w \in LastWords(b)
      BY <2>2, <2>5, <2>6, <2>9
    <3>4. s.index \in Nat /\ BlocksOf(b) \subseteq own[s.index]
      BY <2>2, <2>4, <2>6, <2>7 DEF BlocksOf
    <3> QED
      BY <3>1, <3>2, <3>3, <3>4 DEF Gathers
  <2>12. ~carry => b.buffer = <<>> /\ b.pages = <<>>
    BY <2>6 DEF over, kept
  <2> HIDE DEF b
  <2> QED
    BY <1>3, <2>5, <2>6, <2>9, <2>10, <2>11, <2>12 DEF b
<1> QED
  BY <1>1, <1>2, <1>3

\* A piece fits beside the buffer, which may be empty.
Fits(a, s, piece) ==
    a.buffer = <<>> \/ _text_for(s, Prospective(a, piece)) <= MaxTokens

\* Overlap is text that is in a chunk already.
LEMMA OverlapEmitted ==
    ASSUME NEW b, NEW s, NEW own, Accumulator(b), Gathers(b, s, own),
           b.buffer # <<>> => b.pure_carry
    PROVE  Cells(b.buffer) \subseteq Emitted(b)
<1>1. CASE b.buffer = <<>>
  BY <1>1, CellsOfNone
<1>2. CASE b.buffer # <<>>
  <2>1. ToSet(b.buffer) \subseteq LastWords(b) /\ ToSet(b.buffer) # {}
    BY <1>2, WordsInSeq DEF Gathers, Accumulator
  <2>2. b.chunks # <<>>
    BY <2>1 DEF LastWords
  <2>3. ToSet(b.buffer) \subseteq ToSet(Last(b.chunks).words)
    BY <2>1, <2>2 DEF LastWords
  <2>4. Cells(b.buffer) \subseteq Cells(Last(b.chunks).words)
    BY <2>3, CellsGrow
  <2>5. Cells(Last(b.chunks).words) \subseteq Emitted(b)
    BY <2>2, LastEmitted DEF Accumulator
  <2> QED
    BY <2>4, <2>5
<1> QED
  BY <1>1, <1>2

\* One round of the loop in `add` (chunker.py:168) makes room, or leaves overlap that the
\* next one drops.
LEMMA MakesRoom ==
    ASSUME NEW a, NEW s, NEW own, NEW piece, Accumulator(a), ~a.failed, Gathers(a, s, own),
           Chunked(a.chunks, own), _text_for(s, Prospective(a, piece)) \in Int
    PROVE  LET r == Room(a, s, piece)
           IN  /\ Accumulator(r) /\ Chunked(r.chunks, own)
               /\ ~r.failed => /\ Gathers(r, s, own)
                               /\ Emitted(r) \cup Cells(r.buffer) = Emitted(a) \cup Cells(a.buffer)
                               /\ Fits(r, s, piece) \/ (r.pure_carry /\ ~a.pure_carry)
<1> DEFINE r == Room(a, s, piece)
<1>1. MaxTokens \in Nat
  BY BandAssumption
<1>2. CASE Fits(a, s, piece)
  <2>1. ~ (a.buffer # <<>> /\ _text_for(s, Prospective(a, piece)) > MaxTokens)
    BY <1>1, <1>2 DEF Fits
  <2>2. r = a
    BY <2>1 DEF Room
  <2> QED
    BY <1>2, <2>2
<1>3. CASE ~Fits(a, s, piece)
  <2>1. ~ a.failed /\ a.buffer # <<>> /\ _text_for(s, Prospective(a, piece)) > MaxTokens
    BY <1>1, <1>3 DEF Fits
  <2>2. r = flush(a, s, TRUE)
    BY <2>1 DEF Room
  <2> HIDE DEF r
  <2>3. /\ Accumulator(r) /\ Chunked(r.chunks, own)
        /\ ~r.failed =>
               /\ Gathers(r, s, own)
               /\ Emitted(r) = Emitted(a) \cup Cells(a.buffer)
               /\ r.buffer # <<>> => r.pure_carry
               /\ a.pure_carry => r.buffer = <<>>
    BY <2>2, Flushes
  <2>4. ASSUME ~r.failed PROVE Cells(r.buffer) \subseteq Emitted(r)
    BY <2>3, <2>4, OverlapEmitted
  <2>5. ~r.failed => Fits(r, s, piece) \/ (r.pure_carry /\ ~a.pure_carry)
    BY <2>3 DEF Fits
  <2> QED
    BY <2>3, <2>4, <2>5 DEF r
<1> QED
  BY <1>2, <1>3

\* A piece of the text, and what the accumulator holds without it.
LEMMA ProspectiveType ==
    ASSUME NEW a, Accumulator(a), NEW s, s.path \in Seq(Titles), NEW piece \in Seq(Word)
    PROVE  Prospective(a, piece) \in Int /\ _text_for(s, Prospective(a, piece)) \in Int
<1>1. Width(piece) \in Int /\ a.chars \in Int /\ _prefix(s) \in Nat
  BY WidthType, PrefixType DEF Accumulator
<1>2. Prospective(a, piece) \in Int
  BY <1>1 DEF Prospective
<1> QED
  BY <1>1, <1>2 DEF _text_for, count_tokens, Longer, CHARS_PER_TOKEN

\* What `add` does with one piece (chunker.py:160).
LEMMA Pushes ==
    ASSUME NEW a, NEW s, NEW own, s.path \in Seq(Titles), Accumulator(a), ~a.failed,
           Gathers(a, s, own), Chunked(a.chunks, own), NEW piece \in Seq(Word), piece # <<>>,
           Width(piece) <= Limit(s), NEW block \in Nat, \A w \in ToSet(piece) : w.block = block,
           block \in own[s.index], Cells(piece) \cap (Emitted(a) \cup Cells(a.buffer)) = {}
    PROVE  LET p == Push(a, s, piece, Page(block))
           IN  /\ Accumulator(p) /\ Chunked(p.chunks, own)
               /\ ~p.failed =>
                      /\ Gathers(p, s, own) /\ Short(p, s)
                      /\ Emitted(p) \cup Cells(p.buffer)
                             = Emitted(a) \cup Cells(a.buffer) \cup Cells(piece)
<1> DEFINE once == Room(a, s, piece)
           room == Room(once, s, piece)
           held == Emitted(a) \cup Cells(a.buffer)
           cited == Page(block)
           full == [buffer |-> room.buffer \o piece, chars |-> Prospective(room, piece),
                    pages |-> room.pages \o cited, pure_carry |-> FALSE,
                    chunks |-> room.chunks, failed |-> FALSE]
           p == Push(a, s, piece, cited)
<1>1. /\ Accumulator(once) /\ Chunked(once.chunks, own)
      /\ ~once.failed => /\ Gathers(once, s, own)
                         /\ Emitted(once) \cup Cells(once.buffer) = held
                         /\ Fits(once, s, piece) \/ once.pure_carry
  BY ProspectiveType, MakesRoom
<1>2. CASE once.failed
  <2>1. room = once
    BY <1>2 DEF Room
  <2>2. p = once
    BY <1>2, <2>1 DEF Push
  <2> QED
    BY <1>1, <1>2, <2>2
<1>3. CASE ~once.failed
  <2>1. /\ Accumulator(room) /\ Chunked(room.chunks, own)
        /\ ~room.failed => /\ Gathers(room, s, own)
                           /\ Emitted(room) \cup Cells(room.buffer) = held
                           /\ Fits(room, s, piece)
    <3> HIDE DEF once
    <3>1. _text_for(s, Prospective(once, piece)) \in Int
      BY <1>1, ProspectiveType
    <3>2. /\ Accumulator(room) /\ Chunked(room.chunks, own)
          /\ ~room.failed =>
                 /\ Gathers(room, s, own)
                 /\ Emitted(room) \cup Cells(room.buffer) = Emitted(once) \cup Cells(once.buffer)
                 /\ Fits(room, s, piece) \/ (room.pure_carry /\ ~once.pure_carry)
      BY <1>1, <1>3, <3>1, MakesRoom
    <3>3. ASSUME Fits(once, s, piece) PROVE room = once
      <4> DEFINE tokens == _text_for(s, Prospective(once, piece))
      <4>1. room = IF ~ once.failed /\ once.buffer # <<>> /\ tokens > MaxTokens
                   THEN flush(once, s, TRUE) ELSE once
        BY DEF Room
      <4>2. once.buffer = <<>> \/ tokens <= MaxTokens
        BY <3>3 DEF Fits
      <4>3. MaxTokens \in Nat /\ tokens \in Int
        BY <3>1, BandAssumption
      <4> HIDE DEF tokens, room
      <4>4. ~ (once.buffer # <<>> /\ tokens > MaxTokens)
        BY <4>2, <4>3
      <4> QED
        BY <4>1, <4>4
    <3> HIDE DEF room
    <3> QED
      BY <1>1, <1>3, <3>2, <3>3
  <2> HIDE DEF once
  <2>2. CASE room.failed
    <3>1. p = room
      BY <2>2 DEF Push, once
    <3> HIDE DEF room
    <3> QED
      BY <2>1, <2>2, <3>1
  <2>3. CASE ~room.failed
    <3>1. p = IF _text_for(s, full.chars) >= Target THEN flush(full, s, TRUE) ELSE full
      BY <2>3 DEF Push, once
    <3> HIDE DEF room, p
    <3>2. /\ full.buffer = room.buffer \o piece /\ full.chars = Prospective(room, piece)
          /\ full.pages = room.pages \o cited /\ ~full.pure_carry
          /\ full.chunks = room.chunks /\ ~full.failed
      OBVIOUS
    <3>3. full.buffer \in Seq(Word) /\ ToSet(full.buffer) = ToSet(room.buffer) \cup ToSet(piece)
      BY <2>1, <3>2, WordsOfConcat DEF Accumulator
    <3>4. cited \in Seq(Nat) /\ ToSet(cited) = IF paged THEN {block} ELSE {}
      BY CellsOfNone DEF Page, ToSet
    <3>5. full.pages \in Seq(Nat) /\ ToSet(full.pages) = ToSet(room.pages) \cup ToSet(cited)
      BY <2>1, <3>2, <3>4, WordsOfConcat DEF Accumulator
    <3>6. Prospective(room, piece) \in Int /\ _text_for(s, Prospective(room, piece)) \in Int
      BY <2>1, ProspectiveType
    <3>7. _text_for(s, full.chars) <= MaxTokens
      <4>1. CASE room.buffer = <<>>
        <5>1. Prospective(room, piece) = Width(piece) /\ Width(piece) \in Int
          BY <4>1, WidthType DEF Prospective
        <5> QED
          BY <3>2, <5>1, PieceFits
      <4>2. CASE room.buffer # <<>>
        BY <2>1, <2>3, <3>2, <4>2 DEF Fits
      <4> QED
        BY <4>1, <4>2
    <3>8. Accumulator(full)
      <4>1. Listed(room.chunks)
        BY <2>1 DEF Accumulator
      <4>2. full = [buffer |-> full.buffer, chars |-> full.chars, pages |-> full.pages,
                    pure_carry |-> full.pure_carry, chunks |-> full.chunks,
                    failed |-> full.failed]
        OBVIOUS
      <4>3. full.pure_carry \in BOOLEAN /\ full.failed \in BOOLEAN
        OBVIOUS
      <4> HIDE DEF full
      <4> QED
        BY <3>2, <3>3, <3>5, <3>6, <4>1, <4>2, <4>3 DEF Accumulator
    <3> HIDE DEF full, cited
    <3>9. Emitted(full) = Emitted(room) /\ LastWords(full) = LastWords(room)
      BY <3>2 DEF Emitted, LastWords
    <3>10. Cells(full.buffer) = Cells(room.buffer) \cup Cells(piece)
      BY <3>3, CellsOfUnion
    <3>11. Gathers(full, s, own)
      <4>1. full.chunks # <<>> => ~ Cells(full.buffer) \subseteq Cells(Last(full.chunks).words)
        <5>1. ASSUME room.chunks # <<>>
              PROVE  ~ Cells(full.buffer) \subseteq Cells(Last(room.chunks).words)
          <6>1. Cells(Last(room.chunks).words) \subseteq held
            BY <2>1, <2>3, <5>1, LastEmitted DEF Accumulator
          <6>2. Cells(piece) # {} /\ Cells(piece) \cap held = {}
            BY CellOfWord
          <6> QED
            BY <3>10, <6>1, <6>2
        <5> QED
          BY <3>2, <5>1
      <4>2. paged => \A w \in ToSet(full.buffer) :
                         w \in LastWords(full) \/ w.block \in ToSet(full.pages)
        BY <2>1, <2>3, <3>3, <3>4, <3>5, <3>9 DEF Gathers
      <4>3. s.index \in Nat /\ BlocksOf(full) \subseteq own[s.index]
        <5>1. s.index \in Nat /\ BlocksOf(room) \subseteq own[s.index]
          BY <2>1, <2>3 DEF Gathers
        <5>2. ToSet(cited) \subseteq own[s.index]
          BY <3>4
        <5> QED
          BY <3>3, <3>5, <5>1, <5>2 DEF BlocksOf
      <4> QED
        BY <3>2, <3>7, <4>1, <4>2, <4>3 DEF Gathers
    <3>12. Emitted(full) \cup Cells(full.buffer) = held \cup Cells(piece)
      BY <2>1, <2>3, <3>9, <3>10
    <3>13. CASE _text_for(s, full.chars) >= Target
      <4>1. p = flush(full, s, TRUE)
        BY <3>1, <3>13
      <4>2. /\ Accumulator(p) /\ Chunked(p.chunks, own)
            /\ ~p.failed => /\ Gathers(p, s, own)
                            /\ Emitted(p) = Emitted(full) \cup Cells(full.buffer)
                            /\ p.buffer # <<>> => p.pure_carry
        BY <2>1, <3>2, <3>8, <3>11, <4>1, Flushes
      <4>3. ASSUME ~p.failed PROVE Cells(p.buffer) \subseteq Emitted(p)
        BY <4>2, <4>3, OverlapEmitted
      <4>4. ~p.failed => Short(p, s)
        BY <4>2 DEF Short
      <4> HIDE DEF held
      <4>5. ~p.failed => Emitted(p) \cup Cells(p.buffer) = held \cup Cells(piece)
        BY <3>12, <4>2, <4>3
      <4> QED
        BY <4>2, <4>4, <4>5 DEF p, cited, held
    <3>14. CASE ~ (_text_for(s, full.chars) >= Target)
      <4>1. p = full
        BY <3>1, <3>14
      <4>2. _text_for(s, full.chars) < Target
        BY <3>2, <3>6, <3>14, BandAssumption
      <4>3. Short(p, s)
        BY <4>1, <4>2 DEF Short
      <4>4. Chunked(p.chunks, own)
        BY <2>1, <3>2, <4>1
      <4> QED
        BY <3>8, <3>11, <3>12, <4>1, <4>3, <4>4 DEF p, cited
    <3> QED
      BY <3>13, <3>14
  <2> QED
    BY <2>2, <2>3
<1> QED
  BY <1>2, <1>3

-----------------------------------------------------------------------------
(* The words of one block, and the pieces they are split into.               *)

\* Multiplication, as far as offsets of words need it.
LEMMA Times ==
    ASSUME NEW a \in Nat, NEW b \in Nat, NEW c \in Nat
    PROVE  /\ a * c \in Nat /\ (a + 1) * c = a * c + c /\ (a <= b => a * c <= b * c)
           /\ 0 * c = 0
<1>1. a * c \in Nat
  OBVIOUS
<1>2. (a + 1) * c = a * c + c /\ 0 * c = 0
  OBVIOUS
<1>3. ASSUME a <= b PROVE a * c <= b * c
  <2> DEFINE d == b - a
  <2>1. d \in Nat /\ b = a + d
    BY <1>3
  <2> HIDE DEF d
  <2>2. (a + d) * c = a * c + d * c /\ d * c \in Nat
    BY <2>1
  <2> QED
    BY <1>1, <2>1, <2>2
<1> QED
  BY <1>1, <1>2, <1>3

\* A nonempty set of small numbers has a greatest one.
LEMMA Greatest ==
    ASSUME NEW n \in Nat, NEW S \in SUBSET (0 .. n), S # {}
    PROVE  \E greatest \in S : \A other \in S : other <= greatest
<1> DEFINE T == {m \in Nat : \E x \in S : m = n - x}
<1>1. T \in SUBSET Nat
  OBVIOUS
<1>2. T # {}
  <2>1. PICK x \in S : x \in 0 .. n
    OBVIOUS
  <2>2. n - x \in T
    BY <2>1
  <2> QED
    BY <2>2
<1>3. \A x \in S : x \in 0 .. n /\ n - x \in T
  OBVIOUS
<1>4. \A m \in T : m \in Nat /\ \E x \in S : m = n - x
  OBVIOUS
<1> HIDE DEF T
<1>5. PICK least \in T : \A other \in T : least <= other
  BY <1>1, <1>2, LeastIssue
<1>6. PICK x \in S : least = n - x
  BY <1>4
<1>7. ASSUME NEW other \in S PROVE other <= x
  <2>1. other \in 0 .. n /\ x \in 0 .. n /\ n - x <= n - other
    BY <1>3, <1>5, <1>6
  <2> QED
    BY <2>1
<1> QED
  BY <1>7

\* Words of block n, one behind another.
Ordered(words, n) ==
    /\ words \in Seq(Word)
    /\ \A i \in 1 .. Len(words) :
           /\ words[i].block = n
           /\ \A j \in i + 1 .. Len(words) : words[i].from + words[i].width <= words[j].from

\* The characters of a sequence of words, word by word.
LEMMA CellIn ==
    ASSUME NEW words \in Seq(Word), NEW x
    PROVE  x \in Cells(words) <=>
               \E i \in 1 .. Len(words) : \E k \in Nat :
                   k < words[i].width /\ x = <<words[i].block, words[i].from + k>>
<1>1. ToSet(words) = {words[i] : i \in 1 .. Len(words)}
  BY WordsInSeq
<1>2. \A w \in ToSet(words) : w.width \in Nat
  <2>1. \A w \in Word : w.width \in Nat
    BY DEF Word
  <2> QED
    BY <2>1, WordsInSeq
<1>3. x \in Cells(words) <=> \E w \in ToSet(words) : \E k \in 0 .. w.width - 1 :
                                x = <<w.block, w.from + k>>
  BY DEF Cells
<1>4. ASSUME NEW w \in ToSet(words), NEW k
      PROVE  k \in 0 .. w.width - 1 <=> k \in Nat /\ k < w.width
  BY <1>2
<1>5. x \in Cells(words) <=> \E w \in ToSet(words) : \E k \in Nat :
                                k < w.width /\ x = <<w.block, w.from + k>>
  BY <1>3, <1>4
<1> QED
  BY <1>1, <1>5

\* What a word of a sequence has.
LEMMA WordFields ==
    ASSUME NEW words \in Seq(Word), NEW i \in 1 .. Len(words)
    PROVE  /\ words[i] \in Word /\ words[i].from \in Nat /\ words[i].width \in Nat \ {0}
           /\ words[i].block \in Nat \ {0} /\ words[i].cut \in BOOLEAN
<1>1. \A w \in Word : /\ w.from \in Nat /\ w.width \in Nat \ {0}
                      /\ w.block \in Nat \ {0} /\ w.cut \in BOOLEAN
  BY DEF Word
<1>2. words[i] \in Word
  OBVIOUS
<1> QED
  BY <1>1, <1>2

\* What stands in front of one word, and from it on.
LEMMA Divides ==
    ASSUME NEW words, NEW n, Ordered(words, n), NEW m \in 1 .. Len(words)
    PROVE  LET p == SubSeq(words, 1, m)
               r == SubSeq(words, m + 1, Len(words))
           IN  /\ p \in Seq(Word) /\ p # <<>> /\ Len(p) = m
               /\ \A w \in ToSet(p) : w.block = n
               /\ Ordered(r, n)
               /\ Cells(words) = Cells(p) \cup Cells(r) /\ Cells(p) \cap Cells(r) = {}
<1> DEFINE p == SubSeq(words, 1, m)
           r == SubSeq(words, m + 1, Len(words))
<1>1. words \in Seq(Word) /\ Len(words) \in Nat /\ m \in Nat
  BY DEF Ordered
<1>2. \A i \in 1 .. Len(words) : words[i] \in Word
  BY <1>1
<1>3. /\ p \in Seq(Word) /\ Len(p) = m /\ \A i \in 1 .. m : p[i] = words[i]
  <2>1. \A i \in 1 .. m : words[i] \in Word
    BY <1>1, <1>2
  <2>2. /\ p \in Seq(Word) /\ Len(p) = IF 1 <= m THEN m - 1 + 1 ELSE 0
        /\ \A i \in 1 .. m - 1 + 1 : p[i] = words[1 + i - 1]
    BY <1>1, <2>1, SubSeqProperties
  <2> HIDE DEF p
  <2> QED
    BY <1>1, <2>2
<1>4. /\ r \in Seq(Word) /\ Len(r) = Len(words) - m
      /\ \A i \in 1 .. Len(r) : r[i] = words[m + i]
  <2>1. \A i \in m + 1 .. Len(words) : words[i] \in Word
    BY <1>1, <1>2
  <2>2. /\ r \in Seq(Word) /\ Len(r) = IF m + 1 <= Len(words) THEN Len(words) - (m + 1) + 1 ELSE 0
        /\ \A i \in 1 .. Len(words) - (m + 1) + 1 : r[i] = words[m + 1 + i - 1]
    <3>1. m + 1 \in Int /\ Len(words) \in Int
      BY <1>1
    <3> QED
      BY <2>1, <3>1, SubSeqProperties
  <2> HIDE DEF r
  <2> QED
    BY <1>1, <2>2
<1> HIDE DEF p, r
<1>5. p # <<>>
  BY <1>1, <1>3
<1>6. \A w \in ToSet(p) : w.block = n
  BY <1>1, <1>3, WordsInSeq DEF Ordered
<1>7. Ordered(r, n)
  <2>1. ASSUME NEW i \in 1 .. Len(r)
        PROVE  /\ r[i].block = n
               /\ \A j \in i + 1 .. Len(r) : r[i].from + r[i].width <= r[j].from
    <3>1. m + i \in 1 .. Len(words) /\ r[i] = words[m + i]
      BY <1>1, <1>4
    <3>2. ASSUME NEW j \in i + 1 .. Len(r) PROVE r[i].from + r[i].width <= r[j].from
      <4>1. m + j \in m + i + 1 .. Len(words) /\ r[j] = words[m + j]
        BY <1>1, <1>4
      <4> QED
        BY <3>1, <4>1 DEF Ordered
    <3> QED
      BY <3>1, <3>2 DEF Ordered
  <2> QED
    BY <1>4, <2>1 DEF Ordered
<1>8. Cells(words) = Cells(p) \cup Cells(r)
  <2>1. ASSUME NEW x \in Cells(words) PROVE x \in Cells(p) \cup Cells(r)
    <3>1. PICK i \in 1 .. Len(words), k \in Nat :
              k < words[i].width /\ x = <<words[i].block, words[i].from + k>>
      BY <1>1, CellIn
    <3>2. CASE i \in 1 .. m
      BY <1>3, <3>1, <3>2, CellIn
    <3>3. CASE i \notin 1 .. m
      <4>1. i - m \in 1 .. Len(r) /\ r[i - m] = words[i]
        BY <1>1, <1>4, <3>3
      <4> QED
        BY <1>4, <3>1, <4>1, CellIn
    <3> QED
      BY <3>2, <3>3
  <2>2. ASSUME NEW x \in Cells(p) PROVE x \in Cells(words)
    <3>1. PICK i \in 1 .. Len(p), k \in Nat : k < p[i].width /\ x = <<p[i].block, p[i].from + k>>
      BY <1>3, CellIn
    <3>2. i \in 1 .. Len(words) /\ p[i] = words[i]
      BY <1>1, <1>3
    <3> QED
      BY <1>1, <3>1, <3>2, CellIn
  <2>3. ASSUME NEW x \in Cells(r) PROVE x \in Cells(words)
    <3>1. PICK i \in 1 .. Len(r), k \in Nat : k < r[i].width /\ x = <<r[i].block, r[i].from + k>>
      BY <1>4, CellIn
    <3>2. m + i \in 1 .. Len(words) /\ r[i] = words[m + i]
      BY <1>1, <1>4
    <3> QED
      BY <1>1, <3>1, <3>2, CellIn
  <2> QED
    BY <2>1, <2>2, <2>3
<1>9. Cells(p) \cap Cells(r) = {}
  <2>1. SUFFICES ASSUME NEW x \in Cells(p), x \in Cells(r) PROVE FALSE
    OBVIOUS
  <2>2. PICK i \in 1 .. Len(p), k \in Nat : k < p[i].width /\ x = <<p[i].block, p[i].from + k>>
    BY <1>3, CellIn
  <2>3. PICK j \in 1 .. Len(r), l \in Nat : l < r[j].width /\ x = <<r[j].block, r[j].from + l>>
    BY <1>4, <2>1, CellIn
  <2>4. i \in 1 .. Len(words) /\ p[i] = words[i] /\ m + j \in i + 1 .. Len(words) /\ r[j] = words[m + j]
    BY <1>1, <1>3, <1>4
  <2>5. p[i].from + p[i].width <= r[j].from
    BY <2>4 DEF Ordered
  <2>6. p[i].from \in Nat /\ p[i].width \in Nat /\ r[j].from \in Nat /\ r[j].width \in Nat
    BY <1>3, <1>4, WordFields
  <2>7. p[i].from + k = r[j].from + l
    BY <2>2, <2>3
  <2>8. k \in Nat /\ l \in Nat /\ k < p[i].width
    BY <2>2, <2>3
  <2> QED
    BY <2>5, <2>6, <2>7, <2>8
<1> QED
  BY <1>3, <1>5, <1>6, <1>7, <1>8, <1>9 DEF p, r

\* A word that is cut in two.
LEMMA Cuts ==
    ASSUME NEW words, NEW n, Ordered(words, n), words # <<>>, NEW limit \in Nat \ {0},
           Head(words).width > limit
    PROVE  LET w == Head(words)
               first == [w EXCEPT !.width = limit, !.cut = TRUE]
               second == [w EXCEPT !.from = @ + limit, !.width = @ - limit, !.cut = TRUE]
               p == <<first>>
               r == <<second>> \o Tail(words)
           IN  /\ first \in Word /\ first.width = limit
               /\ \A v \in ToSet(p) : v.block = n
               /\ Ordered(r, n)
               /\ Cells(words) = Cells(p) \cup Cells(r) /\ Cells(p) \cap Cells(r) = {}
<1> DEFINE w == Head(words)
           yes == TRUE
           first == [w EXCEPT !.width = limit, !.cut = yes]
           second == [w EXCEPT !.from = @ + limit, !.width = @ - limit, !.cut = yes]
           p == <<first>>
           r == <<second>> \o Tail(words)
<1>1. yes \in BOOLEAN
  OBVIOUS
<1> HIDE DEF yes
<1>2. words \in Seq(Word) /\ Len(words) \in Nat \ {0} /\ w = words[1]
  BY WordsInSeq DEF Ordered
<1>3. w \in Word /\ w.from \in Nat /\ w.width \in Nat /\ w.block = n /\ n \in Nat \ {0}
  BY <1>2, WordFields DEF Ordered
<1> HIDE DEF w
<1>4. /\ first \in Word /\ first.block = n /\ first.from = w.from /\ first.width = limit
  BY <1>1, <1>3 DEF Word
<1>5. /\ second \in Word /\ second.block = n /\ second.from = w.from + limit
      /\ second.width = w.width - limit
  <2>1. w.width - limit \in Nat \ {0} /\ w.from + limit \in Nat
    BY <1>3 DEF w
  <2> QED
    BY <1>1, <1>3, <2>1 DEF Word
<1> HIDE DEF first, second
<1>6. p \in Seq(Word) /\ Len(p) = 1 /\ p[1] = first
  BY <1>4
<1>7. /\ r \in Seq(Word) /\ Len(r) = Len(words) /\ r[1] = second
      /\ \A i \in 2 .. Len(words) : r[i] = words[i]
  <2>1. Tail(words) \in Seq(Word) /\ Len(Tail(words)) = Len(words) - 1
        /\ \A i \in 1 .. Len(Tail(words)) : Tail(words)[i] = words[i + 1]
    BY <1>2
  <2> DEFINE tail == Tail(words)
             one == <<second>>
  <2>2. one \in Seq(Word) /\ Len(one) = 1 /\ one[1] = second
    BY <1>5
  <2> HIDE DEF tail, one
  <2>3. /\ one \o tail \in Seq(Word) /\ Len(one \o tail) = Len(one) + Len(tail)
        /\ \A i \in 1 .. Len(one) + Len(tail) :
              (one \o tail)[i] = IF i <= Len(one) THEN one[i] ELSE tail[i - Len(one)]
    BY <2>1, <2>2, ConcatProperties DEF tail
  <2>4. r = one \o tail
    BY DEF one, tail
  <2> HIDE DEF r
  <2>5. Len(r) = Len(words)
    BY <1>2, <2>1, <2>2, <2>3, <2>4 DEF tail
  <2>6. \A i \in 2 .. Len(words) : r[i] = words[i]
    <3>1. ASSUME NEW i \in 2 .. Len(words) PROVE r[i] = words[i]
      <4>1. i - 1 \in 1 .. Len(tail) /\ i \in 1 .. Len(one) + Len(tail) /\ ~ i <= Len(one)
        BY <1>2, <2>1, <2>2 DEF tail
      <4>2. r[i] = tail[i - 1]
        BY <2>2, <2>3, <2>4, <4>1
      <4>3. tail[i - 1] = words[i - 1 + 1]
        BY <2>1, <4>1 DEF tail
      <4> QED
        BY <1>2, <4>2, <4>3
    <3> QED
      BY <3>1
  <2>7. r[1] = second
    <3>1. 1 \in 1 .. Len(one) + Len(tail) /\ 1 <= Len(one)
      BY <1>2, <2>1, <2>2 DEF tail
    <3> QED
      BY <2>2, <2>3, <2>4, <3>1
  <2> QED
    BY <2>3, <2>4, <2>5, <2>6, <2>7
<1> HIDE DEF p, r
<1>8. \A v \in ToSet(p) : v.block = n
  BY <1>4, <1>6, WordsInSeq
<1>9. Ordered(r, n)
  <2>1. ASSUME NEW i \in 1 .. Len(r)
        PROVE  /\ r[i].block = n
               /\ \A j \in i + 1 .. Len(r) : r[i].from + r[i].width <= r[j].from
    <3>1. words[i].block = n /\ r[i].block = n
      BY <1>2, <1>5, <1>7 DEF Ordered
    <3>2. r[i].from + r[i].width = words[i].from + words[i].width
      <4>1. CASE i = 1
        BY <1>2, <1>3, <1>5, <1>7, <4>1
      <4>2. CASE i # 1
        BY <1>2, <1>7, <4>2
      <4> QED
        BY <4>1, <4>2
    <3>3. ASSUME NEW j \in i + 1 .. Len(r) PROVE r[i].from + r[i].width <= r[j].from
      <4>1. i \in 1 .. Len(words) /\ j \in i + 1 .. Len(words) /\ r[j] = words[j]
        BY <1>2, <1>7
      <4> QED
        BY <3>2, <4>1 DEF Ordered
    <3> QED
      BY <3>1, <3>3
  <2> QED
    BY <1>7, <2>1 DEF Ordered
<1>10. Cells(words) = Cells(p) \cup Cells(r)
  <2>1. ASSUME NEW x \in Cells(words) PROVE x \in Cells(p) \cup Cells(r)
    <3>1. PICK i \in 1 .. Len(words), k \in Nat :
              k < words[i].width /\ x = <<words[i].block, words[i].from + k>>
      BY <1>2, CellIn
    <3>2. CASE i = 1 /\ k < limit
      <4>1. k \in Nat /\ k < p[1].width /\ x = <<p[1].block, p[1].from + k>>
        BY <1>2, <1>3, <1>4, <1>6, <3>1, <3>2
      <4> QED
        BY <1>6, <4>1, CellIn
    <3>3. CASE i = 1 /\ ~ k < limit
      <4>1. /\ k < w.width /\ r[1].width = w.width - limit /\ r[1].from = w.from + limit
            /\ k \in Nat /\ k >= limit
        BY <1>2, <1>5, <1>7, <3>1, <3>3
      <4>2. k - limit \in Nat /\ k - limit < r[1].width /\ w.from + k = r[1].from + (k - limit)
        BY <1>3, <4>1
      <4>3. x = <<r[1].block, r[1].from + (k - limit)>> /\ 1 \in 1 .. Len(r)
        BY <1>2, <1>3, <1>5, <1>7, <3>1, <3>3, <4>2
      <4> QED
        BY <1>7, <4>2, <4>3, CellIn
    <3>4. CASE i # 1
      <4>1. i \in 1 .. Len(r) /\ r[i] = words[i]
        BY <1>2, <1>7, <3>4
      <4> QED
        BY <1>7, <3>1, <4>1, CellIn
    <3> QED
      BY <3>2, <3>3, <3>4
  <2>2. ASSUME NEW x \in Cells(p) PROVE x \in Cells(words)
    <3>1. PICK i \in 1 .. Len(p), k \in Nat : k < p[i].width /\ x = <<p[i].block, p[i].from + k>>
      BY <1>6, CellIn
    <3>2. i = 1 /\ k \in Nat /\ k < limit
      BY <1>4, <1>6, <3>1
    <3>3. k \in Nat /\ k < words[1].width /\ x = <<words[1].block, words[1].from + k>>
      BY <1>2, <1>3, <1>4, <1>6, <3>1, <3>2 DEF w
    <3> QED
      BY <1>2, <3>3, CellIn
  <2>3. ASSUME NEW x \in Cells(r) PROVE x \in Cells(words)
    <3>1. PICK i \in 1 .. Len(r), k \in Nat : k < r[i].width /\ x = <<r[i].block, r[i].from + k>>
      BY <1>7, CellIn
    <3>2. CASE i = 1
      <4>1. k \in Nat /\ k < w.width - limit /\ x = <<n, w.from + limit + k>>
        BY <1>5, <1>7, <3>1, <3>2
      <4>2. limit + k \in Nat /\ limit + k < w.width /\ w.from + limit + k = w.from + (limit + k)
        BY <1>3, <4>1
      <4>3. x = <<words[1].block, words[1].from + (limit + k)>>
        BY <1>2, <1>3, <4>1, <4>2
      <4> QED
        BY <1>2, <4>2, <4>3, CellIn
    <3>3. CASE i # 1
      <4>1. i \in 1 .. Len(words) /\ r[i] = words[i]
        BY <1>2, <1>7, <3>3
      <4> QED
        BY <1>2, <3>1, <4>1, CellIn
    <3> QED
      BY <3>2, <3>3
  <2> QED
    BY <2>1, <2>2, <2>3
<1>11. Cells(p) \cap Cells(r) = {}
  <2>1. SUFFICES ASSUME NEW x \in Cells(p), x \in Cells(r) PROVE FALSE
    OBVIOUS
  <2>2. PICK i \in 1 .. Len(p), k \in Nat : k < p[i].width /\ x = <<p[i].block, p[i].from + k>>
    BY <1>6, CellIn
  <2>3. k \in Nat /\ k < limit /\ x = <<n, w.from + k>>
    BY <1>4, <1>6, <2>2
  <2>4. PICK j \in 1 .. Len(r), l \in Nat : l < r[j].width /\ x = <<r[j].block, r[j].from + l>>
    BY <1>7, <2>1, CellIn
  <2>5. w.from + limit <= r[j].from
    <3>1. CASE j = 1
      BY <1>3, <1>5, <1>7, <3>1
    <3>2. CASE j # 1
      <4>1. j \in 1 + 1 .. Len(words) /\ r[j] = words[j] /\ 1 \in 1 .. Len(words)
        BY <1>2, <1>7, <3>2
      <4>2. words[1].from + words[1].width <= words[j].from
        BY <4>1 DEF Ordered
      <4>3. words[j].from \in Nat /\ limit < w.width
        BY <1>2, <4>1, WordFields DEF w
      <4> QED
        BY <1>2, <1>3, <4>1, <4>2, <4>3
    <3> QED
      BY <3>1, <3>2
  <2>6. r[j].from \in Nat /\ r[j].width \in Nat
    BY <1>7, WordFields
  <2>7. w.from + k = r[j].from + l
    BY <2>3, <2>4
  <2> QED
    BY <1>3, <2>3, <2>5, <2>6, <2>7
<1> QED
  BY <1>4, <1>8, <1>9, <1>10, <1>11 DEF p, r, first, second, w, yes

\* The recursive splitter (chunker.py:180): a piece fits, and together with the rest it is
\* all of the text.
LEMMA Splits ==
    ASSUME NEW words, NEW n, Ordered(words, n), words # <<>>, NEW limit \in Nat \ {0}
    PROVE  LET p == Piece(words, limit)
               r == Rest(words, limit)
           IN  /\ p \in Seq(Word) /\ p # <<>> /\ Width(p) <= limit
               /\ \A w \in ToSet(p) : w.block = n
               /\ Ordered(r, n)
               /\ Cells(words) = Cells(p) \cup Cells(r) /\ Cells(p) \cap Cells(r) = {}
<1> DEFINE w == Head(words)
           fitting == {m \in 1 .. Len(words) :
                           m = 1 \/ Width(SubSeq(words, 1, m)) + 1 <= limit}
           p == Piece(words, limit)
           r == Rest(words, limit)
<1>1. /\ words \in Seq(Word) /\ Len(words) \in Nat \ {0} /\ w = words[1] /\ w \in Word
      /\ w.width \in Nat
  <2>1. words \in Seq(Word) /\ Len(words) \in Nat \ {0} /\ w = words[1]
    BY WordsInSeq DEF Ordered
  <2>2. 1 \in 1 .. Len(words)
    BY <2>1
  <2> QED
    BY <2>1, <2>2, WordFields
<1>2. CASE w.width > limit
  <2> DEFINE first == [w EXCEPT !.width = limit, !.cut = TRUE]
  <2>1. p = <<first>>
    BY <1>2 DEF Piece
  <2>2. r = <<[w EXCEPT !.from = @ + limit, !.width = @ - limit, !.cut = TRUE]>> \o Tail(words)
    BY <1>2 DEF Rest
  <2> HIDE DEF p, r
  <2>3. /\ first \in Word /\ first.width = limit
        /\ \A v \in ToSet(p) : v.block = n
        /\ Ordered(r, n)
        /\ Cells(words) = Cells(p) \cup Cells(r) /\ Cells(p) \cap Cells(r) = {}
    BY <1>2, <2>1, <2>2, Cuts
  <2> HIDE DEF first
  <2>4. p \in Seq(Word) /\ p # <<>>
    BY <2>1, <2>3
  <2>5. Width(p) <= limit
    <3>1. Width(p) = first.width
      BY <2>1, <2>3, WidthOfOne
    <3> QED
      BY <2>3, <3>1
  <2> QED
    BY <2>3, <2>4, <2>5 DEF p, r
<1>3. CASE ~ (w.width > limit)
  <2>1. SubSeq(words, 1, 1) = <<w>>
    <3>1. \A i \in 1 .. 1 : words[i] \in Word
      BY <1>1
    <3>2. /\ SubSeq(words, 1, 1) \in Seq(Word) /\ Len(SubSeq(words, 1, 1)) = 1
          /\ SubSeq(words, 1, 1)[1] = words[1]
      <4> DEFINE one == SubSeq(words, 1, 1)
      <4>1. /\ one \in Seq(Word) /\ Len(one) = IF 1 <= 1 THEN 1 - 1 + 1 ELSE 0
            /\ \A i \in 1 .. 1 - 1 + 1 : one[i] = words[1 + i - 1]
        BY <3>1, SubSeqProperties
      <4> HIDE DEF one
      <4>2. Len(one) = 1 /\ one[1] = words[1]
        BY <4>1
      <4> QED
        BY <4>1, <4>2 DEF one
    <3> DEFINE one == SubSeq(words, 1, 1)
    <3> HIDE DEF one
    <3> DEFINE other == <<words[1]>>
    <3>3. other \in Seq(Word) /\ Len(other) = 1 /\ other[1] = words[1]
      BY <1>1
    <3> HIDE DEF other
    <3>4. one \in Seq(Word) /\ Len(one) = Len(other) /\ \A i \in 1 .. Len(one) : one[i] = other[i]
      BY <3>2, <3>3 DEF one
    <3>5. one = other
      BY <3>3, <3>4, SeqEqual
    <3>6. one = <<words[1]>>
      BY <3>5 DEF other
    <3> QED
      BY <1>1, <3>6 DEF one
  <2>2. Width(<<w>>) <= limit
    BY <1>1, <1>3, WidthOfOne
  <2>3. \E m \in 1 .. Len(words) : p = SubSeq(words, 1, m) /\ Width(p) <= limit
    <3>1. CASE w.cut
      <4>1. p = <<w>>
        BY <1>3, <3>1 DEF Piece
      <4>2. 1 \in 1 .. Len(words)
        BY <1>1
      <4> QED
        BY <2>1, <2>2, <4>1, <4>2
    <3>2. CASE ~w.cut
      <4>1. 1 \in fitting
        BY <1>1
      <4>2. fitting \in SUBSET (0 .. Len(words)) /\ Len(words) \in Nat
        BY <1>1
      <4>3. Max(fitting) \in fitting
        <5> HIDE DEF fitting
        <5>1. PICK g \in fitting : \A other \in fitting : other <= g
          BY <4>1, <4>2, Greatest
        <5>2. \A other \in fitting : g >= other
          BY <4>2, <5>1
        <5> QED
          BY <5>2 DEF Max
      <4> DEFINE m == Max(fitting)
      <4>4. p = SubSeq(words, 1, m)
        BY <1>3, <3>2 DEF Piece
      <4>5. m \in 1 .. Len(words) /\ (m = 1 \/ Width(SubSeq(words, 1, m)) + 1 <= limit)
        <5> HIDE DEF m
        <5>1. m \in fitting
          BY <4>3 DEF m
        <5> QED
          BY <5>1
      <4> HIDE DEF m, p
      <4>6. CASE m = 1
        BY <2>1, <2>2, <4>4, <4>5, <4>6
      <4>7. CASE m # 1
        <5>1. \A i \in 1 .. m : words[i] \in Word
          BY <1>1, <4>5
        <5>2. m \in Int
          BY <1>1, <4>5
        <5>3. p \in Seq(Word)
          BY <4>4, <5>1, <5>2, SubSeqProperties
        <5>4. Width(p) \in Int /\ Width(p) + 1 <= limit
          BY <4>4, <4>5, <4>7, <5>3, WidthType
        <5>5. Width(p) <= limit
          BY <5>4
        <5> QED
          BY <4>4, <4>5, <5>5
      <4> QED
        BY <4>6, <4>7
    <3> QED
      BY <3>1, <3>2
  <2>4. PICK m \in 1 .. Len(words) : p = SubSeq(words, 1, m) /\ Width(p) <= limit
    BY <2>3
  <2>5. r = SubSeq(words, Len(p) + 1, Len(words))
    BY <1>3 DEF Rest
  <2> HIDE DEF p, r
  <2>6. /\ p \in Seq(Word) /\ p # <<>> /\ Len(p) = m
        /\ \A v \in ToSet(p) : v.block = n
        /\ LET rest == SubSeq(words, m + 1, Len(words))
           IN  /\ Ordered(rest, n)
               /\ Cells(words) = Cells(p) \cup Cells(rest) /\ Cells(p) \cap Cells(rest) = {}
    BY <2>4, Divides
  <2>7. /\ Ordered(r, n)
        /\ Cells(words) = Cells(p) \cup Cells(r) /\ Cells(p) \cap Cells(r) = {}
    BY <2>5, <2>6
  <2> QED
    BY <2>4, <2>6, <2>7 DEF p, r
<1> QED
  BY <1>2, <1>3

\* The words of a block are all of its characters.
LEMMA BlockWords ==
    ASSUME NEW b \in Shapes, b.level = 0, NEW n \in Nat \ {0}
    PROVE  LET words == WordsOf(b, n)
           IN  /\ Ordered(words, n) /\ words # <<>>
               /\ Cells(words) = {<<n, k>> : k \in 0 .. b.words * b.width - 1}
<1> DEFINE words == WordsOf(b, n)
           count == b.words
           width == b.width
<1>1. count \in Nat \ {0} /\ width \in Nat \ {0}
  BY ShapesAssumption
<1>2. words = [i \in 1 .. count |-> [block |-> n, from |-> (i - 1) * width,
                                     width |-> width, cut |-> FALSE]]
  BY DEF WordsOf
<1> HIDE DEF words, count, width
<1>3. \A i \in 1 .. count : i - 1 \in Nat /\ (i - 1) * width \in Nat
  BY <1>1, Times
<1>4. Len(words) = count /\ words \in Seq(Word)
  <2>1. ASSUME NEW i \in 1 .. count
        PROVE  [block |-> n, from |-> (i - 1) * width, width |-> width, cut |-> FALSE] \in Word
    <3> DEFINE from == (i - 1) * width
    <3>1. from \in Nat
      BY <1>3
    <3> HIDE DEF from
    <3>2. [block |-> n, from |-> from, width |-> width, cut |-> FALSE] \in Word
      BY <1>1, <3>1 DEF Word
    <3> QED
      BY <3>2 DEF from
  <2>2. words \in [1 .. count -> Word]
    BY <1>2, <2>1
  <2> QED
    BY <1>1, <2>2
<1>5. \A i \in 1 .. count : /\ words[i].block = n /\ words[i].from = (i - 1) * width
                            /\ words[i].width = width
  BY <1>2
<1>6. words # <<>>
  BY <1>1, <1>4
<1>7. Ordered(words, n)
  <2>1. ASSUME NEW i \in 1 .. count, NEW j \in i + 1 .. count
        PROVE  words[i].from + words[i].width <= words[j].from
    <3>1. i - 1 \in Nat /\ i \in Nat /\ j - 1 \in Nat /\ i <= j - 1 /\ j \in 1 .. count
      BY <1>1
    <3>2. (i - 1 + 1) * width = (i - 1) * width + width /\ i * width <= (j - 1) * width
      BY <1>1, <3>1, Times
    <3>3. i - 1 + 1 = i
      BY <3>1
    <3>4. words[i].from + words[i].width = i * width
      BY <1>5, <3>2, <3>3
    <3>5. words[j].from = (j - 1) * width
      BY <1>5, <3>1
    <3> QED
      BY <3>2, <3>4, <3>5
  <2> QED
    BY <1>4, <1>5, <2>1 DEF Ordered
<1>8. ASSUME NEW k \in Nat
      PROVE  k < count * width <=>
                 \E i \in 1 .. count : \E l \in Nat : l < width /\ k = (i - 1) * width + l
  <2>1. ASSUME NEW i \in 1 .. count, NEW l \in Nat, l < width, k = (i - 1) * width + l
        PROVE  k < count * width
    <3>1. i - 1 \in Nat /\ i \in Nat /\ i - 1 + 1 = i /\ i <= count
      BY <1>1
    <3>2. (i - 1 + 1) * width = (i - 1) * width + width /\ i * width <= count * width
      BY <1>1, <3>1, Times
    <3>3. (i - 1) * width \in Nat /\ i * width \in Nat /\ count * width \in Nat
      BY <1>1, <3>1, Times
    <3>4. i * width = (i - 1) * width + width
      BY <3>1, <3>2
    <3> DEFINE x == (i - 1) * width
               y == i * width
               z == count * width
    <3>5. x \in Nat /\ y \in Nat /\ z \in Nat /\ y = x + width /\ y <= z /\ k = x + l
      BY <2>1, <3>2, <3>3, <3>4
    <3> HIDE DEF x, y, z
    <3>6. k < z
      BY <1>1, <2>1, <3>5
    <3> QED
      BY <3>6 DEF z
  <2>2. ASSUME k < count * width
        PROVE  \E i \in 1 .. count : \E l \in Nat : l < width /\ k = (i - 1) * width + l
    <3> DEFINE beyond == {m \in Nat : k < m * width}
    <3>1. beyond \in SUBSET Nat /\ count \in beyond
      BY <1>1, <2>2
    <3> HIDE DEF beyond
    <3>2. PICK i \in beyond : \A m \in beyond : i <= m
      BY <3>1, LeastIssue
    <3>3. i \in Nat /\ k < i * width /\ i <= count
      BY <3>1, <3>2 DEF beyond
    <3>4. 0 * width = 0
      BY <1>1, Times
    <3>5. i # 0
      BY <3>3, <3>4
    <3>6. i - 1 \in Nat /\ ~ i <= i - 1 /\ i - 1 + 1 = i /\ i \in 1 .. count
      BY <1>1, <3>3, <3>5
    <3>7. ~ (k < (i - 1) * width)
      BY <3>2, <3>6 DEF beyond
    <3>8. (i - 1) * width \in Nat /\ (i - 1 + 1) * width = (i - 1) * width + width
      BY <1>1, <3>6, Times
    <3> DEFINE x == (i - 1) * width
    <3>9. x \in Nat /\ k < x + width /\ ~ (k < x)
      BY <3>3, <3>6, <3>7, <3>8
    <3> HIDE DEF x
    <3>10. k - x \in Nat /\ k - x < width /\ k = x + (k - x)
      BY <1>1, <3>9
    <3> QED
      BY <3>6, <3>10 DEF x
  <2> QED
    BY <2>1, <2>2
<1>9. Cells(words) = {<<n, k>> : k \in 0 .. count * width - 1}
  <2>1. count * width \in Nat
    BY <1>1, Times
  <2> DEFINE size == count * width
  <2> HIDE DEF size
  <2>2. ASSUME NEW k PROVE k \in 0 .. size - 1 <=> k \in Nat /\ k < size
    BY <2>1 DEF size
  <2>3. ASSUME NEW x \in Cells(words) PROVE x \in {<<n, k>> : k \in 0 .. size - 1}
    <3>1. PICK i \in 1 .. Len(words), l \in Nat :
              l < words[i].width /\ x = <<words[i].block, words[i].from + l>>
      BY <1>4, CellIn
    <3>2. (i - 1) * width \in Nat /\ i \in 1 .. count
      BY <1>3, <1>4, <3>1
    <3> DEFINE k == (i - 1) * width + l
    <3>3. k \in Nat
      BY <3>1, <3>2
    <3>4. x = <<n, k>> /\ l < width
      BY <1>5, <3>1, <3>2
    <3>5. k < size
      BY <1>8, <3>2, <3>3, <3>4 DEF size
    <3> HIDE DEF k
    <3> QED
      BY <2>2, <3>3, <3>4, <3>5
  <2>4. ASSUME NEW k \in 0 .. size - 1 PROVE <<n, k>> \in Cells(words)
    <3>1. k \in Nat /\ k < size
      BY <2>2
    <3>2. PICK i \in 1 .. count, l \in Nat : l < width /\ k = (i - 1) * width + l
      BY <1>8, <3>1 DEF size
    <3>3. i \in 1 .. Len(words) /\ l < words[i].width /\ <<n, k>> = <<words[i].block, words[i].from + l>>
      BY <1>4, <1>5, <3>2
    <3> QED
      BY <1>4, <3>2, <3>3, CellIn
  <2> QED
    BY <2>3, <2>4 DEF size
<1> QED
  BY <1>6, <1>7, <1>9 DEF words, count, width

\* A limit is at least one token.
LEMMA LimitType ==
    ASSUME NEW s, s.path \in Seq(Titles)
    PROVE  Limit(s) \in Nat \ {0}
<1> DEFINE tokens == _prefix(s) \div 4
<1>1. tokens \in Int /\ MaxTokens \in Nat
  BY PrefixType, BandAssumption
<1>2. Limit(s) = Longer(1, MaxTokens - tokens) * 4
  BY DEF Limit, CHARS_PER_TOKEN
<1> HIDE DEF tokens
<1> QED
  BY <1>1, <1>2 DEF Longer

-----------------------------------------------------------------------------
(* The document, and what a block more makes of it.                          *)

Titled(d, i) == Cardinality({j \in 1 .. i : d[j].level > 0})
OwnOf(d) == [k \in Nat |-> {i \in 1 .. Len(d) : Titled(d, i) = k \/ (Titled(d, i) = 0 /\ k = 1)}]
TextOf(d) == UNION {{<<i, k>> : k \in 0 .. d[i].words * d[i].width - 1} :
                        i \in {j \in 1 .. Len(d) : d[j].level = 0}}

\* The headings of a document can be counted.
LEMMA TitledType ==
    ASSUME NEW d, NEW n \in Nat
    PROVE  Titled(d, n) \in Nat /\ IsFiniteSet({j \in 1 .. n : d[j].level > 0})
<1>1. IsFiniteSet(1 .. n)
  BY FS_Interval
<1>2. {j \in 1 .. n : d[j].level > 0} \in SUBSET (1 .. n)
  OBVIOUS
<1>3. IsFiniteSet({j \in 1 .. n : d[j].level > 0})
  BY <1>1, <1>2, FS_Subset
<1> QED
  BY <1>3, FS_CardinalityType DEF Titled

\* One block more: it belongs to the section that is open, what belongs to a section still does,
\* and the text grows by the characters of a body.
LEMMA BlockRead ==
    ASSUME NEW d \in Seq(Shapes), NEW b \in Shapes
    PROVE  LET e == Append(d, b)
               n == Len(d) + 1
           IN  /\ e \in Seq(Shapes) /\ Len(e) = n /\ n \in Nat \ {0}
               /\ Titled(e, n) = Titled(d, Len(d)) + IF b.level > 0 THEN 1 ELSE 0
               /\ Titled(d, Len(d)) \in Nat /\ n \in OwnOf(e)[Titled(e, n)]
               /\ \A k \in Nat : OwnOf(d)[k] \subseteq OwnOf(e)[k]
               /\ OwnOf(d)[0] \subseteq OwnOf(e)[1]
               /\ b.level > 0 => TextOf(e) = TextOf(d)
               /\ b.level = 0 =>
                      TextOf(e) = TextOf(d) \cup {<<n, k>> : k \in 0 .. b.words * b.width - 1}
               /\ \A k : <<n, k>> \notin TextOf(d)
<1> DEFINE e == Append(d, b)
           n == Len(d) + 1
<1>1. /\ e \in Seq(Shapes) /\ Len(e) = n /\ n \in Nat \ {0} /\ Len(d) \in Nat
      /\ \A i \in 1 .. Len(d) : e[i] = d[i]
      /\ e[n] = b
  BY AppendProperties
<1> HIDE DEF e
<1>2. \A i \in 1 .. Len(d) : Titled(e, i) = Titled(d, i)
  <2>1. ASSUME NEW i \in 1 .. Len(d) PROVE Titled(e, i) = Titled(d, i)
    <3>1. \A j \in 1 .. i : e[j] = d[j]
      BY <1>1
    <3>2. {j \in 1 .. i : e[j].level > 0} = {j \in 1 .. i : d[j].level > 0}
      BY <3>1
    <3> QED
      BY <3>2 DEF Titled
  <2> QED
    BY <2>1
<1>3. Titled(d, Len(d)) \in Nat /\ Titled(e, n) \in Nat
  BY <1>1, TitledType
<1>4. Titled(e, n) = Titled(d, Len(d)) + IF b.level > 0 THEN 1 ELSE 0
  <2> DEFINE S == {j \in 1 .. Len(d) : d[j].level > 0}
             T == {j \in 1 .. n : e[j].level > 0}
  <2>1. n \notin 1 .. Len(d)
    BY <1>1
  <2>2. IsFiniteSet(S) /\ n \notin S
    BY <1>1, <2>1, TitledType
  <2>3. \A j : j \in 1 .. n <=> j \in 1 .. Len(d) \/ j = n
    BY <1>1
  <2>4. T = S \cup (IF b.level > 0 THEN {n} ELSE {})
    BY <1>1, <2>3
  <2> HIDE DEF S, T, n
  <2>5. CASE b.level > 0
    <3>1. T = S \cup {n}
      BY <2>4, <2>5
    <3>2. Cardinality(T) = Cardinality(S) + 1
      BY <2>2, <3>1, FS_AddElement
    <3> QED
      BY <2>5, <3>2 DEF Titled, S, T
  <2>6. CASE ~ (b.level > 0)
    <3>1. T = S
      BY <2>4, <2>6
    <3>2. Titled(e, n) = Titled(d, Len(d))
      BY <3>1 DEF Titled, S, T
    <3> QED
      BY <1>3, <2>6, <3>2
  <2> QED
    BY <2>5, <2>6
<1>5. n \in OwnOf(e)[Titled(e, n)]
  BY <1>1, <1>3 DEF OwnOf
<1>6. ASSUME NEW k \in Nat PROVE OwnOf(d)[k] \subseteq OwnOf(e)[k]
  <2>1. \A i \in 1 .. Len(d) : i \in 1 .. Len(e)
    BY <1>1
  <2> QED
    BY <1>2, <2>1 DEF OwnOf
<1>7. OwnOf(d)[0] \subseteq OwnOf(e)[1]
  <2>1. \A i \in 1 .. Len(d) : i \in 1 .. Len(e)
    BY <1>1
  <2>2. 0 \in Nat /\ 1 \in Nat /\ 0 # 1
    OBVIOUS
  <2> QED
    BY <1>2, <2>1, <2>2 DEF OwnOf
<1>8. \A j : j \in 1 .. Len(e) <=> j \in 1 .. Len(d) \/ j = n
  BY <1>1
<1>9. TextOf(e) = TextOf(d) \cup
          (IF b.level = 0 THEN {<<n, k>> : k \in 0 .. b.words * b.width - 1} ELSE {})
  <2> DEFINE Block(s, i) == {<<i, k>> : k \in 0 .. s.words * s.width - 1}
  <2>1. \A x : x \in TextOf(d) <=> \E i \in 1 .. Len(d) : d[i].level = 0 /\ x \in Block(d[i], i)
    BY DEF TextOf
  <2>2. \A x : x \in TextOf(e) <=> \E i \in 1 .. Len(e) : e[i].level = 0 /\ x \in Block(e[i], i)
    BY DEF TextOf
  <2>3. Block(b, n) = {<<n, k>> : k \in 0 .. b.words * b.width - 1}
    OBVIOUS
  <2> HIDE DEF Block, n
  <2>4. \A x : x \in TextOf(e) <=> x \in TextOf(d) \/ (b.level = 0 /\ x \in Block(b, n))
    BY <1>1, <1>8, <2>1, <2>2
  <2> QED
    BY <2>3, <2>4
<1>10. \A k : <<n, k>> \notin TextOf(d)
  <2>1. ASSUME NEW k, <<n, k>> \in TextOf(d) PROVE FALSE
    <3>1. PICK i \in 1 .. Len(d) : \E l : <<n, k>> = <<i, l>>
      BY <2>1 DEF TextOf
    <3>2. n = i
      BY <3>1
    <3> QED
      BY <1>1, <3>2
  <2> QED
    BY <2>1
<1>11. b.level > 0 => ~ b.level = 0
  OBVIOUS
<1> QED
  BY <1>1, <1>3, <1>4, <1>5, <1>6, <1>7, <1>9, <1>10, <1>11 DEF e

\* Good chunks stay good, and a good buffer too, when more blocks belong to their sections.
LEMMA StillChunked ==
    ASSUME NEW made, NEW own, NEW more, Chunked(made, own),
           \A k \in Nat : own[k] \subseteq more[k]
    PROVE  Chunked(made, more)
<1>1. ASSUME NEW n \in 1 .. Len(made) PROVE ChunkFine(made, n, more)
  <2>1. ChunkFine(made, n, own)
    BY DEF Chunked
  <2> QED
    BY <2>1 DEF ChunkFine
<1> QED
  BY <1>1 DEF Chunked

LEMMA StillGathers ==
    ASSUME NEW a, NEW s, NEW own, NEW t, NEW more, Gathers(a, s, own), t.index \in Nat,
           own[s.index] \subseteq more[t.index],
           ~a.pure_carry /\ a.buffer # <<>> => _text_for(t, a.chars) <= MaxTokens
    PROVE  Gathers(a, t, more)
  BY DEF Gathers

-----------------------------------------------------------------------------
(* The inductive invariant.                                                  *)

\* What is in the chunks and in the buffer is what has been read and is not left over.
Gathering ==
    /\ ~acc.failed /\ Gathers(acc, section, OwnOf(doc)) /\ Short(acc, section)
    /\ Cells(left) \subseteq TextOf(doc)
    /\ Emitted(acc) \cup Cells(acc.buffer) = TextOf(doc) \ Cells(left)

ChunkingInv ==
    /\ doc \in Seq(Shapes) /\ Ordered(left, Len(doc)) /\ Accumulator(acc)
    /\ section.index = Titled(doc, Len(doc)) /\ section.path \in Seq(Titles)
    /\ (section.index = 0) <=> (section.path = <<>>)
    /\ Chunked(acc.chunks, OwnOf(doc))
    /\ reading => Gathering
    /\ ~reading /\ ~acc.failed => Emitted(acc) = TextOf(doc)

\* No words are in order.
LEMMA NoWords == ASSUME NEW n PROVE Ordered(<<>>, n)
  BY DEF Ordered

\* Nothing is read yet.
LEMMA ChunkingStart == ChunkingInit => ChunkingInv
<1> SUFFICES ASSUME ChunkingInit PROVE ChunkingInv
  OBVIOUS
<1>1. /\ doc = <<>> /\ left = <<>> /\ acc = Blank /\ reading = TRUE
      /\ section.index = 0 /\ section.path = <<>>
  BY DEF ChunkingInit
<1>2. doc \in Seq(Shapes) /\ Len(doc) = 0
  BY <1>1
<1>3. Titled(doc, 0) = 0
  <2>1. {j \in 1 .. 0 : doc[j].level > 0} = {}
    OBVIOUS
  <2> QED
    BY <2>1, FS_EmptySet DEF Titled
<1>4. /\ acc.buffer = <<>> /\ acc.chars = 0 /\ acc.pages = <<>> /\ ~acc.pure_carry
      /\ acc.chunks = <<>> /\ ~acc.failed
  BY <1>1 DEF Blank
<1>5. Listed(acc.chunks) /\ Len(acc.chunks) = 0
  BY <1>4 DEF Listed
<1>6. Accumulator(acc)
  <2>1. acc = [buffer |-> acc.buffer, chars |-> acc.chars, pages |-> acc.pages,
               pure_carry |-> acc.pure_carry, chunks |-> acc.chunks, failed |-> acc.failed]
    BY <1>1 DEF Blank
  <2>2. acc.pure_carry \in BOOLEAN /\ acc.failed \in BOOLEAN
    BY <1>1 DEF Blank
  <2> QED
    BY <1>4, <1>5, <2>1, <2>2 DEF Accumulator
<1>7. Chunked(acc.chunks, OwnOf(doc))
  BY <1>5 DEF Chunked
<1>8. TextOf(doc) = {} /\ Emitted(acc) = {}
  BY <1>2, <1>5 DEF TextOf, Emitted
<1>9. Gathers(acc, section, OwnOf(doc)) /\ Short(acc, section)
  BY <1>1, <1>4, CellsOfNone DEF Gathers, Short, BlocksOf
<1>10. Gathering
  BY <1>1, <1>4, <1>8, <1>9, CellsOfNone DEF Gathering
<1> QED
  BY <1>1, <1>2, <1>3, <1>6, <1>7, <1>10, NoWords DEF ChunkingInv

-----------------------------------------------------------------------------
\* The titles above a new heading, and its own.
LEMMA PathType ==
    ASSUME NEW path \in Seq(Titles), NEW b \in Shapes
    PROVE  LET above == {0} \cup {i \in 1 .. Len(path) : path[i].level < b.level}
               longer == Append(SubSeq(path, 1, Max(above)), [level |-> b.level, title |-> b.title])
           IN  longer \in Seq(Titles) /\ longer # <<>>
<1> DEFINE above == {0} \cup {i \in 1 .. Len(path) : path[i].level < b.level}
           m == Max(above)
           kept == SubSeq(path, 1, m)
           title == [level |-> b.level, title |-> b.title]
<1>1. Len(path) \in Nat /\ above \in SUBSET (0 .. Len(path)) /\ above # {}
  OBVIOUS
<1>2. m \in 0 .. Len(path)
  <2> HIDE DEF above
  <2>1. PICK g \in above : \A other \in above : other <= g
    BY <1>1, Greatest
  <2>2. \A other \in above : g >= other
    BY <1>1, <2>1
  <2> QED
    BY <1>1, <2>2 DEF Max
<1> HIDE DEF m
<1>3. kept \in Seq(Titles)
  <2>1. \A i \in 1 .. m : path[i] \in Titles
    BY <1>1, <1>2
  <2>2. m \in Int
    BY <1>1, <1>2
  <2> QED
    BY <2>1, <2>2, SubSeqProperties
<1>4. title \in Titles
  BY ShapesAssumption DEF Titles
<1> HIDE DEF kept, title
<1>5. Append(kept, title) \in Seq(Titles) /\ Append(kept, title) # <<>>
  BY <1>3, <1>4, AppendProperties
<1> QED
  BY <1>5 DEF kept, title, m

\* What has to hold after a step.
LEMMA NextGathering ==
    ASSUME paged' = paged,
           doc' \in Seq(Shapes), Ordered(left', Len(doc')), Accumulator(acc'),
           section'.index = Titled(doc', Len(doc')), section'.path \in Seq(Titles),
           (section'.index = 0) <=> (section'.path = <<>>),
           Chunked(acc'.chunks, OwnOf(doc')),
           reading' => /\ ~acc'.failed /\ Gathers(acc', section', OwnOf(doc'))
                       /\ Short(acc', section') /\ Cells(left') \subseteq TextOf(doc')
                       /\ Emitted(acc') \cup Cells(acc'.buffer) = TextOf(doc') \ Cells(left'),
           ~reading' /\ ~acc'.failed => Emitted(acc') = TextOf(doc')
    PROVE  ChunkingInv'
<1>1. Chunked(acc.chunks, OwnOf(doc))'
  <2>1. \A n \in 1 .. Len(acc'.chunks) : ChunkFine(acc.chunks, n, OwnOf(doc))'
    <3>1. ASSUME NEW n \in 1 .. Len(acc'.chunks) PROVE ChunkFine(acc.chunks, n, OwnOf(doc))'
      <4>1. ChunkFine(acc'.chunks, n, OwnOf(doc'))
        BY DEF Chunked
      <4> QED
        BY <4>1 DEF ChunkFine
    <3> QED
      BY <3>1
  <2> QED
    BY <2>1 DEF Chunked
<1>2. Gathers(acc', section', OwnOf(doc')) => Gathers(acc, section, OwnOf(doc))'
  BY DEF Gathers
<1>3. reading' => Gathering'
  BY <1>2 DEF Gathering
<1> QED
  BY <1>1, <1>3 DEF ChunkingInv

\* A heading ends its section, or takes up what stands before the first (chunker.py:322).
LEMMA HeadingStep ==
    ASSUME ChunkingInv, NEW b \in Shapes, Heading(b)
    PROVE  ChunkingInv'
<1> DEFINE n == Len(doc) + 1
           own == OwnOf(doc)
           more == OwnOf(doc')
           flushed == IF section.path # <<>> THEN flush(acc, section, FALSE) ELSE acc
           above == {0} \cup {i \in 1 .. Len(section.path) : section.path[i].level < b.level}
           path == Append(SubSeq(section.path, 1, Max(above)), [level |-> b.level, title |-> b.title])
<1>1. /\ reading /\ left = <<>> /\ doc' = Append(doc, b) /\ b.level > 0
      /\ acc' = IF flushed.failed THEN flushed ELSE [flushed EXCEPT !.pages = @ \o Page(n)]
      /\ section' = [index |-> section.index + 1, numbered |-> b.numbered,
                     anchor |-> b.anchor, path |-> path]
      /\ reading' = ~ flushed.failed
      /\ paged' = paged /\ left' = left
  BY DEF Heading, Read
<1>2. /\ doc \in Seq(Shapes) /\ Accumulator(acc) /\ Chunked(acc.chunks, own)
      /\ section.index = Titled(doc, Len(doc)) /\ section.path \in Seq(Titles)
      /\ (section.index = 0) <=> (section.path = <<>>)
      /\ ~acc.failed /\ Gathers(acc, section, own) /\ Short(acc, section)
      /\ Emitted(acc) \cup Cells(acc.buffer) = TextOf(doc)
  BY <1>1, CellsOfNone DEF ChunkingInv, Gathering
<1>3. /\ doc' \in Seq(Shapes) /\ Len(doc') = n /\ n \in Nat \ {0}
      /\ Titled(doc', n) = section.index + 1 /\ section.index \in Nat
      /\ n \in more[section.index + 1]
      /\ \A k \in Nat : own[k] \subseteq more[k]
      /\ own[0] \subseteq more[1]
      /\ TextOf(doc') = TextOf(doc)
  BY <1>1, <1>2, BlockRead
<1>4. path \in Seq(Titles) /\ path # <<>>
  BY <1>2, PathType
<1> HIDE DEF path, above
<1>5. section'.index = section.index + 1 /\ section'.path = path
  BY <1>1
<1> HIDE DEF own, more, n
<1>6. Ordered(left', Len(doc')) /\ Cells(left') = {}
  BY <1>1, NoWords, CellsOfNone
<1>7. /\ Accumulator(flushed) /\ Chunked(flushed.chunks, own)
      /\ ~flushed.failed =>
             /\ Gathers(flushed, section', more)
             /\ Emitted(flushed) \cup Cells(flushed.buffer) = TextOf(doc)
  <2>1. CASE section.path # <<>>
    <3>1. flushed = flush(acc, section, FALSE)
      BY <2>1
    <3> HIDE DEF flushed
    <3>2. /\ Accumulator(flushed) /\ Chunked(flushed.chunks, own)
          /\ ~flushed.failed =>
                 /\ Gathers(flushed, section, own)
                 /\ Emitted(flushed) = Emitted(acc) \cup Cells(acc.buffer)
                 /\ flushed.buffer = <<>> /\ flushed.pages = <<>>
      BY <1>2, <3>1, Flushes
    <3>3. ASSUME ~flushed.failed PROVE Gathers(flushed, section', more)
      <4>1. BlocksOf(flushed) = {}
        BY <3>2, <3>3, CellsOfNone DEF BlocksOf
      <4>2. section'.index \in Nat
        BY <1>3, <1>5
      <4> QED
        BY <3>2, <3>3, <4>1, <4>2, CellsOfNone DEF Gathers
    <3> QED
      BY <1>2, <3>2, <3>3, CellsOfNone
  <2>2. CASE section.path = <<>>
    <3>1. flushed = acc
      BY <2>2
    <3> HIDE DEF flushed
    <3>2. section.index = 0 /\ section'.index = 1
      BY <1>2, <1>5, <2>2
    <3>3. ~acc.pure_carry /\ acc.buffer # <<>> => _text_for(section', acc.chars) <= MaxTokens
      <4>1. acc.chars \in Int
        BY <1>2 DEF Accumulator
      <4>2. section'.path \in Seq(Titles)
        BY <1>4, <1>5
      <4> QED
        BY <1>2, <2>2, <4>1, <4>2, FoldFits DEF Short
    <3>4. Gathers(acc, section', more)
      BY <1>2, <1>3, <3>2, <3>3, StillGathers
    <3> QED
      BY <1>2, <3>1, <3>4
  <2> QED
    BY <2>1, <2>2
<1> HIDE DEF flushed
<1>8. Chunked(flushed.chunks, more)
  BY <1>3, <1>7, StillChunked
<1>9. CASE flushed.failed
  <2>1. acc' = flushed /\ ~reading' /\ acc'.failed
    BY <1>1, <1>9
  <2>2. Chunked(acc'.chunks, OwnOf(doc'))
    BY <1>8, <2>1 DEF more
  <2>3. section'.index = Titled(doc', Len(doc')) /\ section'.path \in Seq(Titles)
        /\ ((section'.index = 0) <=> (section'.path = <<>>))
    BY <1>3, <1>4, <1>5
  <2> QED
    BY <1>1, <1>3, <1>6, <1>7, <2>1, <2>2, <2>3, NextGathering
<1>10. CASE ~flushed.failed
  <2> DEFINE listed == flushed.pages \o Page(n)
             new == [buffer |-> flushed.buffer, chars |-> flushed.chars, pages |-> listed,
                     pure_carry |-> flushed.pure_carry, chunks |-> flushed.chunks,
                     failed |-> flushed.failed]
  <2>1. acc' = [flushed EXCEPT !.pages = listed]
    BY <1>1, <1>10
  <2>2. Page(n) \in Seq(Nat) /\ ToSet(Page(n)) \subseteq {n}
    BY <1>3, CellsOfNone DEF Page, ToSet
  <2>3. listed \in Seq(Nat) /\ ToSet(listed) = ToSet(flushed.pages) \cup ToSet(Page(n))
    BY <1>7, <2>2, WordsOfConcat DEF Accumulator
  <2> HIDE DEF listed
  <2>4. acc' = new
    BY <1>7, <2>1, OneField DEF Accumulator
  <2>5. /\ acc'.buffer = flushed.buffer /\ acc'.chars = flushed.chars /\ acc'.pages = listed
        /\ acc'.pure_carry = flushed.pure_carry /\ acc'.chunks = flushed.chunks
        /\ acc'.failed = flushed.failed
    BY <2>4
  <2>6. Accumulator(acc')
    <3>1. acc' = [buffer |-> acc'.buffer, chars |-> acc'.chars, pages |-> acc'.pages,
                  pure_carry |-> acc'.pure_carry, chunks |-> acc'.chunks,
                  failed |-> acc'.failed]
      BY <2>4, <2>5
    <3> HIDE DEF new
    <3> QED
      BY <1>7, <2>3, <2>5, <3>1 DEF Accumulator
  <2> HIDE DEF new
  <2>7. LastWords(acc') = LastWords(flushed) /\ Emitted(acc') = Emitted(flushed)
    BY <2>5 DEF LastWords, Emitted
  <2>8. Gathers(acc', section', more)
    <3>1. BlocksOf(acc') \subseteq BlocksOf(flushed) \cup {n}
      BY <2>2, <2>3, <2>5 DEF BlocksOf
    <3>2. Gathers(flushed, section', more) /\ n \in more[section'.index]
      BY <1>3, <1>5, <1>7, <1>10
    <3>3. BlocksOf(acc') \subseteq more[section'.index]
      BY <3>1, <3>2 DEF Gathers
    <3> QED
      BY <2>3, <2>5, <2>7, <3>2, <3>3 DEF Gathers
  <2>9. Short(acc', section')
    BY <1>4, <1>5 DEF Short
  <2>10. Emitted(acc') \cup Cells(acc'.buffer) = TextOf(doc') \ Cells(left')
    BY <1>3, <1>6, <1>7, <1>10, <2>5, <2>7
  <2>11. Chunked(acc'.chunks, OwnOf(doc')) /\ Gathers(acc', section', OwnOf(doc'))
    BY <1>8, <2>5, <2>8 DEF more
  <2>12. section'.index = Titled(doc', Len(doc')) /\ section'.path \in Seq(Titles)
         /\ ((section'.index = 0) <=> (section'.path = <<>>))
    BY <1>3, <1>4, <1>5
  <2>13. reading' /\ ~acc'.failed
    BY <1>1, <1>10, <2>5
  <2> QED
    BY <1>1, <1>3, <1>6, <2>6, <2>9, <2>10, <2>11, <2>12, <2>13, NextGathering
<1> QED
  BY <1>9, <1>10

\* A block that fits is one piece; another one is left over to be split.
LEMMA BodyStep ==
    ASSUME ChunkingInv, NEW b \in Shapes, Body(b)
    PROVE  ChunkingInv'
<1> DEFINE n == Len(doc) + 1
           own == OwnOf(doc)
           more == OwnOf(doc')
           text == WordsOf(b, n)
           added == Push(acc, section, text, Page(n))
<1>1. /\ reading /\ left = <<>> /\ doc' = Append(doc, b) /\ b.level = 0
      /\ paged' = paged /\ section' = section
      /\ IF Width(text) <= Limit(section)
         THEN acc' = added /\ reading' = ~added.failed /\ left' = <<>>
         ELSE left' = text /\ acc' = acc /\ reading' = reading
  BY DEF Body, Read, Taken
<1>2. /\ doc \in Seq(Shapes) /\ Accumulator(acc) /\ Chunked(acc.chunks, own)
      /\ section.index = Titled(doc, Len(doc)) /\ section.path \in Seq(Titles)
      /\ (section.index = 0) <=> (section.path = <<>>)
      /\ ~acc.failed /\ Gathers(acc, section, own) /\ Short(acc, section)
      /\ Emitted(acc) \cup Cells(acc.buffer) = TextOf(doc)
  BY <1>1, CellsOfNone DEF ChunkingInv, Gathering
<1>3. /\ doc' \in Seq(Shapes) /\ Len(doc') = n /\ n \in Nat \ {0}
      /\ Titled(doc', n) = section.index /\ section.index \in Nat
      /\ n \in more[section.index]
      /\ \A k \in Nat : own[k] \subseteq more[k]
      /\ TextOf(doc') = TextOf(doc) \cup {<<n, k>> : k \in 0 .. b.words * b.width - 1}
      /\ \A k : <<n, k>> \notin TextOf(doc)
  <2>1. ~ (b.level > 0) /\ Titled(doc, Len(doc)) + 0 = Titled(doc, Len(doc))
    BY <1>1, <1>2, BlockRead
  <2> QED
    BY <1>1, <1>2, <2>1, BlockRead
<1> HIDE DEF own, more, n
<1>4. /\ Ordered(text, n) /\ text # <<>>
      /\ Cells(text) = {<<n, k>> : k \in 0 .. b.words * b.width - 1}
  BY <1>1, <1>3, BlockWords
<1>5. Cells(text) \cap TextOf(doc) = {} /\ TextOf(doc') = TextOf(doc) \cup Cells(text)
  BY <1>3, <1>4
<1> HIDE DEF text, added
<1>6. Chunked(acc.chunks, more) /\ Gathers(acc, section, more)
  <2>1. ~acc.pure_carry /\ acc.buffer # <<>> => _text_for(section, acc.chars) <= MaxTokens
    BY <1>2 DEF Gathers
  <2> QED
    BY <1>2, <1>3, <2>1, StillChunked, StillGathers
<1>7. section'.index = Titled(doc', Len(doc')) /\ section'.path \in Seq(Titles)
      /\ ((section'.index = 0) <=> (section'.path = <<>>))
  BY <1>1, <1>2, <1>3
<1>8. CASE Width(text) <= Limit(section)
  <2>1. acc' = added /\ reading' = ~added.failed /\ left' = <<>>
    BY <1>1, <1>8
  <2>2. text \in Seq(Word) /\ \A w \in ToSet(text) : w.block = n
    BY <1>4, WordsInSeq DEF Ordered
  <2>3. /\ Accumulator(added) /\ Chunked(added.chunks, more)
        /\ ~added.failed =>
               /\ Gathers(added, section, more) /\ Short(added, section)
               /\ Emitted(added) \cup Cells(added.buffer)
                      = Emitted(acc) \cup Cells(acc.buffer) \cup Cells(text)
    <3>1. Cells(text) \cap (Emitted(acc) \cup Cells(acc.buffer)) = {} /\ n \in Nat
      BY <1>2, <1>3, <1>5
    <3>2. section.path \in Seq(Titles) /\ Accumulator(acc) /\ ~acc.failed
      BY <1>2
    <3>3. n \in more[section.index] /\ text # <<>>
      BY <1>3, <1>4
    <3> QED
      BY <1>6, <1>8, <2>2, <3>1, <3>2, <3>3, Pushes DEF added
  <2>4. Ordered(left', Len(doc')) /\ Cells(left') = {}
    BY <2>1, NoWords, CellsOfNone
  <2>5. reading' => /\ ~acc'.failed /\ Gathers(acc', section', OwnOf(doc'))
                    /\ Short(acc', section') /\ Cells(left') \subseteq TextOf(doc')
                    /\ Emitted(acc') \cup Cells(acc'.buffer) = TextOf(doc') \ Cells(left')
    BY <1>1, <1>2, <1>5, <2>1, <2>3, <2>4 DEF more
  <2>6. Chunked(acc'.chunks, OwnOf(doc')) /\ Accumulator(acc')
    BY <2>1, <2>3 DEF more
  <2>7. ~reading' => acc'.failed
    BY <2>1
  <2> QED
    BY <1>1, <1>3, <1>7, <2>4, <2>5, <2>6, <2>7, NextGathering
<1>9. CASE ~ (Width(text) <= Limit(section))
  <2>1. left' = text /\ acc' = acc /\ reading' = reading
    BY <1>1, <1>9
  <2>2. Ordered(left', Len(doc'))
    BY <1>3, <1>4, <2>1
  <2>3. /\ ~acc'.failed /\ Gathers(acc', section', OwnOf(doc'))
        /\ Short(acc', section') /\ Cells(left') \subseteq TextOf(doc')
        /\ Emitted(acc') \cup Cells(acc'.buffer) = TextOf(doc') \ Cells(left')
    BY <1>1, <1>2, <1>5, <1>6, <2>1 DEF more
  <2>4. Chunked(acc'.chunks, OwnOf(doc')) /\ Accumulator(acc') /\ reading'
    BY <1>1, <1>2, <1>6, <2>1 DEF more
  <2> QED
    BY <1>1, <1>3, <1>7, <2>2, <2>3, <2>4, NextGathering
<1> QED
  BY <1>8, <1>9

\* One piece more of a block that is split.
LEMMA PieceStep ==
    ASSUME ChunkingInv, NextPiece
    PROVE  ChunkingInv'
<1> DEFINE n == Len(doc)
           own == OwnOf(doc)
           limit == Limit(section)
           piece == Piece(left, limit)
           rest == Rest(left, limit)
           added == Push(acc, section, piece, Page(n))
<1>1. /\ reading /\ left # <<>> /\ doc' = doc /\ paged' = paged /\ section' = section
      /\ acc' = added /\ reading' = ~added.failed /\ left' = rest
  BY DEF NextPiece, Taken
<1>2. /\ doc \in Seq(Shapes) /\ Accumulator(acc) /\ Chunked(acc.chunks, own)
      /\ section.index = Titled(doc, n) /\ section.path \in Seq(Titles)
      /\ (section.index = 0) <=> (section.path = <<>>)
      /\ ~acc.failed /\ Gathers(acc, section, own)
      /\ Ordered(left, n) /\ Cells(left) \subseteq TextOf(doc)
      /\ Emitted(acc) \cup Cells(acc.buffer) = TextOf(doc) \ Cells(left)
  BY <1>1 DEF ChunkingInv, Gathering
<1>3. limit \in Nat \ {0}
  BY <1>2, LimitType
<1>4. n \in Nat \ {0} /\ n \in own[section.index]
  <2>1. left \in Seq(Word) /\ Len(left) \in Nat \ {0}
    BY <1>1, <1>2, WordsInSeq DEF Ordered
  <2>2. 1 \in 1 .. Len(left)
    BY <2>1
  <2>3. left[1].block = n /\ left[1].block \in Nat \ {0}
    BY <1>2, <2>1, <2>2, WordFields DEF Ordered
  <2>4. n \in Nat \ {0}
    BY <2>3
  <2>5. n \in 1 .. Len(doc)
    BY <2>4
  <2>6. Titled(doc, n) \in Nat
    BY <2>4, TitledType
  <2>7. n \in 1 .. Len(doc) /\ section.index \in Nat
    BY <1>2, <2>5, <2>6
  <2> QED
    BY <1>2, <2>3, <2>7 DEF OwnOf
<1> HIDE DEF limit, own
<1>5. /\ piece \in Seq(Word) /\ piece # <<>> /\ Width(piece) <= limit
      /\ \A w \in ToSet(piece) : w.block = n
      /\ Ordered(rest, n)
      /\ Cells(left) = Cells(piece) \cup Cells(rest) /\ Cells(piece) \cap Cells(rest) = {}
  BY <1>1, <1>2, <1>3, Splits
<1> HIDE DEF piece, rest
<1>6. Cells(piece) \cap (Emitted(acc) \cup Cells(acc.buffer)) = {}
  BY <1>2, <1>5
<1>7. /\ Accumulator(added) /\ Chunked(added.chunks, own)
      /\ ~added.failed =>
             /\ Gathers(added, section, own) /\ Short(added, section)
             /\ Emitted(added) \cup Cells(added.buffer)
                    = Emitted(acc) \cup Cells(acc.buffer) \cup Cells(piece)
  BY <1>2, <1>4, <1>5, <1>6, Pushes DEF limit
<1> HIDE DEF added
<1>8. Emitted(acc) \cup Cells(acc.buffer) \cup Cells(piece) = TextOf(doc) \ Cells(rest)
  BY <1>2, <1>5
<1>9. reading' => /\ ~acc'.failed /\ Gathers(acc', section', OwnOf(doc'))
                  /\ Short(acc', section') /\ Cells(left') \subseteq TextOf(doc')
                  /\ Emitted(acc') \cup Cells(acc'.buffer) = TextOf(doc') \ Cells(left')
  BY <1>1, <1>2, <1>5, <1>7, <1>8 DEF own
<1>10. /\ doc' \in Seq(Shapes) /\ Ordered(left', Len(doc')) /\ Accumulator(acc')
       /\ Chunked(acc'.chunks, OwnOf(doc')) /\ (~reading' => acc'.failed)
  BY <1>1, <1>2, <1>5, <1>7 DEF own
<1>11. section'.index = Titled(doc', Len(doc')) /\ section'.path \in Seq(Titles)
       /\ ((section'.index = 0) <=> (section'.path = <<>>))
  BY <1>1, <1>2
<1> QED
  BY <1>1, <1>9, <1>10, <1>11, NextGathering

\* The end of the document emits what is left in the buffer.
LEMMA EndStep ==
    ASSUME ChunkingInv, EndDocument
    PROVE  ChunkingInv'
<1> DEFINE own == OwnOf(doc)
           b == flush(acc, section, FALSE)
<1>1. /\ reading /\ left = <<>> /\ ~reading' /\ acc' = b
      /\ doc' = doc /\ paged' = paged /\ section' = section /\ left' = left
  BY DEF EndDocument
<1>2. /\ doc \in Seq(Shapes) /\ Accumulator(acc) /\ Chunked(acc.chunks, own)
      /\ section.index = Titled(doc, Len(doc)) /\ section.path \in Seq(Titles)
      /\ (section.index = 0) <=> (section.path = <<>>)
      /\ ~acc.failed /\ Gathers(acc, section, own)
      /\ Emitted(acc) \cup Cells(acc.buffer) = TextOf(doc)
  BY <1>1, CellsOfNone DEF ChunkingInv, Gathering
<1> HIDE DEF own
<1>3. /\ Accumulator(b) /\ Chunked(b.chunks, own)
      /\ ~b.failed => Emitted(b) = Emitted(acc) \cup Cells(acc.buffer)
  BY <1>2, Flushes
<1> HIDE DEF b
<1>4. /\ doc' \in Seq(Shapes) /\ Ordered(left', Len(doc')) /\ Accumulator(acc')
      /\ Chunked(acc'.chunks, OwnOf(doc'))
      /\ ~acc'.failed => Emitted(acc') = TextOf(doc')
  BY <1>1, <1>2, <1>3, NoWords DEF own
<1>5. section'.index = Titled(doc', Len(doc')) /\ section'.path \in Seq(Titles)
      /\ ((section'.index = 0) <=> (section'.path = <<>>))
  BY <1>1, <1>2
<1> QED
  BY <1>1, <1>4, <1>5, NextGathering

\* The invariant says what is checked.
LEMMA InvCovers == ChunkingInv => ChunksCover
<1> SUFFICES ASSUME ChunkingInv PROVE ChunksCover
  OBVIOUS
<1> DEFINE own == OwnOf(doc)
<1>1. doc \in Seq(Shapes) /\ Chunked(acc.chunks, own) /\ Accumulator(acc)
  BY DEF ChunkingInv
<1>2. EverythingReachable
  <2>1. UNION {Covered(n) : n \in ChunksMade} = Emitted(acc)
    BY DEF Covered, ChunksMade, Emitted
  <2>2. Written = TextOf(doc)
    BY DEF Written, TextOf
  <2> QED
    BY <2>1, <2>2 DEF EverythingReachable, ChunkingInv
<1> HIDE DEF own
<1>3. \A n \in ChunksMade : ChunkFine(acc.chunks, n, own)
  BY <1>1 DEF Chunked, ChunksMade
<1>4. NothingRepeats
  BY <1>3 DEF NothingRepeats, ChunkFine, Covered
<1>5. WithinBand
  BY <1>3 DEF WithinBand, ChunkFine
<1>6. OneSection
  <2>1. ASSUME NEW n \in ChunksMade,
               NEW i \in {w.block : w \in ToSet(acc.chunks[n].words)} \cup acc.chunks[n].pages
        PROVE  \/ Headings(i) = acc.chunks[n].section
               \/ Headings(i) = 0 /\ acc.chunks[n].section = 1
    <3>1. acc.chunks[n].section \in Nat /\ i \in own[acc.chunks[n].section]
      BY <1>3 DEF ChunkFine
    <3>2. Headings(i) = Titled(doc, i)
      BY DEF Headings, Titled
    <3> QED
      BY <3>1, <3>2 DEF own, OwnOf
  <2> QED
    BY <2>1 DEF OneSection
<1>7. PagesSpan
  <2>1. ASSUME NEW n \in ChunksMade, paged,
               NEW w \in {v \in ToSet(acc.chunks[n].words) :
                              n = 1 \/ v \notin ToSet(acc.chunks[n - 1].words)}
        PROVE  \E lo, hi \in acc.chunks[n].pages : lo <= w.block /\ w.block <= hi
    <3>1. n \in Nat /\ ~ (1 > 1)
      BY <1>1 DEF ChunksMade, Accumulator, Listed
    <3>2. ChunkFine(acc.chunks, n, own)
      BY <1>3
    <3> QED
      BY <2>1, <3>1, <3>2 DEF ChunkFine
  <2> QED
    BY <2>1 DEF PagesSpan
<1> QED
  BY <1>2, <1>4, <1>5, <1>6, <1>7 DEF ChunksCover

\* Every step keeps the invariant.
LEMMA ChunkingStep == ChunkingInv /\ [ChunkingNext]_chunkingVars => ChunkingInv'
<1> SUFFICES ASSUME ChunkingInv, [ChunkingNext]_chunkingVars PROVE ChunkingInv'
  OBVIOUS
<1>1. CASE \E b \in Shapes : Heading(b)
  BY <1>1, HeadingStep
<1>2. CASE \E b \in Shapes : Body(b)
  BY <1>2, BodyStep
<1>3. CASE NextPiece
  BY <1>3, PieceStep
<1>4. CASE EndDocument
  BY <1>4, EndStep
<1>5. CASE UNCHANGED chunkingVars
  BY <1>5 DEF chunkingVars, ChunkingInv, Gathering, Chunked, ChunkFine, Gathers
<1> QED
  BY <1>1, <1>2, <1>3, <1>4, <1>5 DEF ChunkingNext

\* For any blocks, breadcrumbs, locator preferences and sizes: what is chunked is in some chunk
\* to its last character, no chunk is overlap alone, none is larger than the band, and each
\* cites blocks of its own section and a page range its new words stand on (chunker.py:214).
THEOREM DocumentsAreCovered == ChunkingSpec => []ChunksCover
<1>1. ChunkingInit => ChunkingInv
  BY ChunkingStart
<1>2. ChunkingInv /\ [ChunkingNext]_chunkingVars => ChunkingInv'
  BY ChunkingStep
<1>3. ChunkingInv => ChunksCover
  BY InvCovers
<1> QED
  BY <1>1, <1>2, <1>3, PTL DEF ChunkingSpec
=============================================================================
