--------------------------- MODULE EvidenceChecks ---------------------------
(***************************************************************************)
(* What is expected of evidence and of guidance, and the traces, records   *)
(* and files that bounded inputs are made of.                              *)
(***************************************************************************)
EXTENDS Integers, SequencesExt

E == INSTANCE Evidence WITH
       None <- <<>>, Threshold <- 7, MaxQuestions <- 2, MaxRequest <- 14, Frame <- 2, Marker <- 1,
       MaxChars <- 12, Room <- 16, Overhead <- 3, PartialText <- 2, ContextMax <- 3, Meta <- 1
G == INSTANCE GuidanceReview WITH
       MaxFiles <- 2, MaxChars <- 15, MaxTotal <- 24, ChunkChars <- 4, OverlapChars <- 2, MaxCandidates <- 2, MaxPairs <- 9,
       MaxProposal <- 3, MaxRequest <- 16, MaxQuestions <- 4, Frame <- 2, Coverage <- 9, Conflict <- 5, Uncertain <- 3

-----------------------------------------------------------------------------
Event(local, kind, text, paths) == [local |-> local, kind |-> kind, text |-> text, author |-> "human", paths |-> paths, size |-> 1]
Plain == [key |-> 1, native |-> TRUE, parent |-> 0, sums |-> {}, degraded |-> FALSE, events |-> <<>>]
Session(key, change) == [f \in DOMAIN Plain |-> IF f = "key" THEN key ELSE IF f \in DOMAIN change THEN change[f] ELSE Plain[f]]
Export(sessions, links, partial) == [sessions |-> sessions, links |-> links, partial |-> partial]

Talk == <<Event(1, "assistant_msg", "a", {}), Event(2, "user_msg", "b", {})>>
Work == <<Event(1, "tool_call", "", {"f"}), Event(2, "thinking", "d", {})>>
\* sessions with and without parents, sums in common, a child without an id, and exports that overlap
ExportTraces ==
  {Export(<<Session(1, [events |-> Talk])>>, <<>>, FALSE), Export(<<Session(1, [events |-> Talk \o Work])>>, <<>>, FALSE),
   Export(<<Session(1, [events |-> <<Event(2, "user_msg", "b", {}), Event(3, "user_msg", "c", {})>>])>>, <<>>, FALSE),
   Export(<<Session(2, [events |-> Work, sums |-> {7}])>>, <<>>, FALSE),
   Export(<<Session(2, [parent |-> 1, events |-> <<Event(1, "user_msg", "x", {})>>])>>, <<>>, FALSE),
   Export(<<Session(3, [events |-> Talk, sums |-> {7}])>>, <<>>, TRUE),
   Export(<<Session(3, [events |-> Work]), Session(4, [native |-> FALSE, events |-> Talk])>>, <<>>, FALSE),
   Export(<<Session(3, [events |-> Work])>>, <<[child |-> 3, parent |-> 2], [child |-> 9, parent |-> 1]>>, FALSE)}

\* Two sessions are of one family exactly if some chain of parents, links, files in common and
\* traces in common leads from one to the other, and a doubt about one is a doubt about all.
\* A record is told once, however many exports tell it; only a person at a root speaks as a
\* human; and no proposal of a repetition stands on sessions that have to do with each other.
ExportsHold(traces) ==
  LET ran == E!Prepare(traces)
      families == E!Families(traces)
      records == ran.records
      Sessions == UNION {ToSet(traces[t].sessions) : t \in DOMAIN traces}
      keys == {s.key : s \in Sessions}
      links == UNION {ToSet(traces[t].links) : t \in DOMAIN traces}
      Together(t) == {s.key : s \in ToSet(traces[t].sessions)}
      Near(a) ==
        {b \in keys : \/ \E t \in DOMAIN traces : {a, b} \subseteq Together(t)
                      \/ \E s, u \in Sessions : {s.key, u.key} = {a, b} /\ (s.sums \intersect u.sums # {} \/ s.parent = u.key)
                      \/ \E l \in links : {l.child, l.parent} = {a, b}}
      Kin(a) == LET f[n \in Nat] == IF n = 0 THEN {a} ELSE UNION {Near(b) \union {b} : b \in f[n - 1]} IN f[Cardinality(keys)]
      Doubtful(a) ==
        \/ \E s \in Sessions : s.key = a /\ (~s.native \/ s.degraded \/ s.parent \notin keys \union {0})
        \/ \E t \in DOMAIN traces : traces[t].partial /\ traces[t].sessions[1].key = a
        \/ \E l \in links : l.child = a /\ l.parent \notin keys
      kin == [a \in keys |-> Kin(a)]
      Proposals == {[category |-> c, cites |-> <<r.id, q.id>>, paths |-> {}] :
                      c \in {"user_corrections", "repeated_discovery"}, r, q \in ToSet(records)}
  IN /\ \A a, b \in keys : families[a].family = families[b].family <=> b \in kin[a]
     /\ \A a \in keys : families[a].known <=> \A b \in kin[a] : ~Doubtful(b)
     /\ ~ran.error =>
          /\ IsInjective([n \in DOMAIN records |-> records[n].id])
          /\ \A s \in Sessions : \A e \in ToSet(s.events) : \E r \in ToSet(records) : r.id = <<s.key, e.local, E!RecordKind[e.kind]>> /\ r.text = e.text
          /\ \A n \in DOMAIN records :
               LET r == records[n] IN
               /\ r.author = "human" => \A s \in Sessions : s.key = r.session => s.parent = 0
               /\ r.antecedent # <<>> => \E m \in 1..(n - 1) : records[m].id = r.antecedent /\ records[m].session = r.session /\ records[m].role = "assistant"
          /\ \A p \in {"f"} : LET reads == E!FileReads(records, p) IN reads.groups <= reads.sessions /\ reads.sessions <= reads.count
          /\ \A c \in Proposals : E!Valid(c, ToSet(records), TRUE) =>
               LET cited == {r \in ToSet(records) : r.id \in ToSet(c.cites)} IN
               IF c.category = "user_corrections" THEN \A r \in cited : r.author = "human"
               ELSE \E r, q \in cited : /\ q.session \notin kin[r.session]
                                        /\ \A a \in kin[r.session] \union kin[q.session] : ~Doubtful(a)

-----------------------------------------------------------------------------
Told(role, kind, size, session) ==
  [role |-> role, kind |-> kind, text |-> "t", size |-> size, session |-> session, author |-> IF role = "user" THEN "human" ELSE "unknown",
   paths |-> IF kind = "tool_call" THEN {"f"} ELSE {}, family |-> session, known |-> session # 3]
\* small, large, too large ones; with something said before and without
EvidenceRecords ==
  {Told("user", "message", 2, 1), Told("user", "message", 9, 1), Told("assistant", "message", 3, 1), Told("assistant", "reasoning", 10, 2),
   Told("assistant", "tool_call", 2, 2), Told("tool", "tool_result", 4, 1), Told("tool", "tool_result", 40, 2)}

\* Each record that may be asked about is asked each of its questions once, and is retained
\* exactly if one of its answers is high, wherever a request was cut. Each retained record is
\* in one batch, in order, and each batch fits the request it is sent in, with the words that
\* are added where batches are many. A correction learned in one task is proposed for it alone.
EvidenceHolds(told) ==
  LET records == [n \in DOMAIN told |-> [id |-> n] @@ told[n]]
      screens == E!ScreeningBatches(records)
      requests == E!FeatureRequests(records)
      asked == {n \in DOMAIN told : E!Eligible(records[n])}
      Occurs(q) == Cardinality({<<k, j>> \in UNION {{<<k, j>> : j \in DOMAIN requests[k]} : k \in DOMAIN requests} : requests[k][j] = q})
      questions == UNION {ToSet(requests[k]) : k \in DOMAIN requests}
      reads == {n \in DOMAIN told : told[n].kind = "tool_call"}
      Ids(batches) == FlattenSeq([k \in DOMAIN batches |-> [j \in DOMAIN batches[k] |-> batches[k][j].id]])
  IN /\ ~E!ScreeningFails(records) =>
          /\ \A n \in asked : \A name \in ToSet(E!Names(records[n])) : Occurs(<<n, name>>) = 1
          /\ questions \subseteq asked \X {"navigation", "reusable", "correction", "discovery"}
          /\ \A k \in DOMAIN requests : Len(requests[k]) \in 1..2
          /\ \A k \in DOMAIN screens : E!ScreeningBytes(records, screens[k]) <= 14
          /\ \A name \in {"navigation", "discovery"} : \A who \in asked :
               E!Retained(records, [q \in questions |-> IF q = <<who, name>> THEN 8 ELSE 6])
                 = reads \union {n \in asked : <<who, name>> \in questions /\ n = who}
     /\ \A kept \in {asked \union reads, DOMAIN told, reads} :
          LET batches == E!EvidenceBatches(records, kept) IN
          ~E!BatchesFail(records, kept) =>
            /\ Ids(batches) = SelectSeq([n \in DOMAIN told |-> n], LAMBDA n : n \in kept)
            /\ \A k \in DOMAIN batches : batches[k] # <<>> /\ E!FitsRequest(batches[k], Len(batches) > 1)
     /\ \A n \in asked :
          LET c == [category |-> "user_corrections", cites |-> <<n>>, paths |-> {}]
              scope == E!ScopeOf(c, records)
          IN E!Valid(c, ToSet(records), TRUE) =>
               /\ scope.status = "source_task_only"
               /\ \A m \in scope.context : m < n /\ told[m].session = told[n].session /\ told[m].role = "assistant"

-----------------------------------------------------------------------------
GuidanceFiles == {[name |-> f, chars |-> n] : f \in {"x", "y"}, n \in {1, 6, 9, 10, 15}}
Proposal(id, size) == [id |-> id, size |-> size]

\* Whatever is stated in at most the overlap's length is in some chunk as a whole, and the
\* chunks leave nothing out; a file of which every byte can be shown with any proposal is shown
\* as a whole. Every proposal is compared with every chunk once, in requests within the
\* limits, and only a file shown as a whole can cover a proposal.
GuidanceHolds(files) ==
  LET chunks == G!Chunks(files)
      Of(n) == {c \in ToSet(chunks) : c.name = files[n].name}
      Answers == [coverage : {1, 9}, conflict : {1, 4}]
  IN ~G!Refused(files) =>
     /\ \A n \in DOMAIN files :
          /\ \A i \in 0..(files[n].chars - 1) : \A j \in (i + 1)..Min({i + 2, files[n].chars}) : \E c \in Of(n) : c.first <= i /\ j <= c.last
          /\ \A c \in Of(n) : c.complete <=> c.first = 0 /\ c.last = files[n].chars /\ files[n].chars <= 9
     /\ \A proposals \in {<<>>, <<Proposal(1, 3)>>, <<Proposal(1, 2), Proposal(2, 3)>>, <<Proposal(1, 4)>>} :
          LET requests == G!GuidanceRequests(proposals, chunks) IN
          /\ ~G!ReviewFails(proposals, chunks) =>
               /\ FlattenSeq(requests) = G!PairsOf(proposals, chunks)
               /\ \A k \in DOMAIN requests : requests[k] # <<>> /\ G!FitsPairs(requests[k])
          /\ Len(proposals) * Len(chunks) <= 9 /\ (\A n \in DOMAIN proposals : proposals[n].size <= 3) => ~G!ReviewFails(proposals, chunks)
     /\ Len(chunks) <= 5 =>
          \A judged \in [ToSet(chunks) -> Answers] :
            LET status == G!StatusOf(ToSet(chunks), judged) IN
            status = "already_covered" <=> /\ \E c \in ToSet(chunks) : c.complete /\ judged[c].coverage = 9
                                           /\ \A c \in ToSet(chunks) : judged[c].conflict = 1
=============================================================================
