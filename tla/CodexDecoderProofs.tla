------------------------- MODULE CodexDecoderProofs -------------------------
(***************************************************************************)
(* Theorems about CodexDecoder, for files of any length and any number of  *)
(* turns.                                                                  *)
(*                                                                         *)
(* Two records do something with the calls: a usage record closes one, the *)
(* end of the file closes the last one or starts over from token counts.   *)
(* Every other record only makes the stream longer (Grows), so that the    *)
(* invariant is disturbed in two places; what all the others preserve is   *)
(* proved once, in GrowthPreserves.                                        *)
(***************************************************************************)
EXTENDS CodexDecoder, FoldLemmas

\* An open call begins behind the closed ones.
CallsBehind == ~done => \A c \in calls : c.last < callStart

\* Token counts are remembered in the order of the stream.
CountsGrow ==
  /\ \A k \in 1..Len(counts) : counts[k].at \in 1..Len(events)
  /\ \A k, l \in 1..Len(counts) : k < l => counts[k].at < counts[l].at

\* Only usage records stamp events.
UsageStamps == ~seenUsage => \A i \in 1..Len(events) : events[i].resp = None

IInv ==
  /\ TypeOK
  /\ EventsInOneCall /\ CallsBehind /\ CountsGrow
  /\ UsageStamps /\ StampsMatchCalls
  /\ TurnsCoverTheirEvents

-----------------------------------------------------------------------------
(***************************************************************************)
(* What the records have in common.                                        *)
(***************************************************************************)
Quiet(e) == e \in Event /\ e.resp = None /\ ~e.usage

\* The stream gets longer by events without a response, some of them collected.
Adds ==
  /\ events' \in Seq(Event)
  /\ Len(events) <= Len(events')
  /\ \A i \in 1..Len(events) : events'[i] = events[i]
  /\ \A i \in Len(events) + 1..Len(events') : Quiet(events'[i])
  /\ callEvents' \subseteq callStart..Len(events')

LEMMA NoteAdds ==
  ASSUME TypeOK, NEW e, Quiet(e), Note(e)
  PROVE  Adds /\ Len(events') = Len(events) + 1
BY DEF TypeOK, Quiet, Note, Adds

LEMMA CollectAdds ==
  ASSUME TypeOK, NEW e, Quiet(e), Collect(e)
  PROVE  Adds /\ Len(events') = Len(events) + 1
<1>1. /\ events' \in Seq(Event) /\ Len(events') = Len(events) + 1
      /\ \A i \in 1..Len(events) : events'[i] = events[i]
      /\ \A i \in Len(events) + 1..Len(events') : events'[i] = e
  BY DEF TypeOK, Quiet, Collect
<1>2. /\ callEvents \subseteq callStart..Len(events) /\ callEvents' = callEvents \cup {Len(events) + 1}
      /\ callStart \in Nat /\ callStart <= Len(events) + 1 /\ Len(events) \in Nat
  BY DEF TypeOK, Collect
<1>3. ASSUME NEW i \in callEvents' PROVE i \in callStart..Len(events')
  <2>1. CASE i \in callEvents
    BY <1>1, <1>2, <2>1
  <2>2. CASE i = Len(events) + 1
    BY <1>1, <1>2, <2>2
  <2> QED BY <1>2, <2>1, <2>2
<1>4. \A i \in Len(events) + 1..Len(events') : Quiet(events'[i])
  BY <1>1 DEF Quiet
<1>5. Len(events) <= Len(events')
  BY <1>1, <1>2
<1>6. callEvents' \subseteq callStart..Len(events')
  BY <1>3
<1> QED BY <1>1, <1>4, <1>5, <1>6 DEF Adds

LEMMA SameAdds ==
  ASSUME TypeOK, UNCHANGED <<events, callEvents>>
  PROVE  Adds
BY DEF TypeOK, Adds

LEMMA PlainKinds ==
  ASSUME TypeOK, NEW t \in 0..MaxTurns
  PROVE  /\ \A kind \in Kinds : Quiet(Plain(kind, t))
         /\ \A g \in Nat : \A kind \in Kinds : Quiet([Plain(kind, t) EXCEPT !.group = g])
         /\ Quiet(Marker(t))
BY DEF TypeOK, Quiet, Plain, Marker, Event, Kinds, None

LEMMA EnsuredTyped ==
  ASSUME turns \in [TurnIds -> Turn], NEW t \in TurnIds, NEW next \in Nat
  PROVE  EnsuredAt(t, next) \in [TurnIds -> Turn]
<1>1. turns[t] \in Turn
  OBVIOUS
<1>2. [turns[t] EXCEPT !.first = IF turns[t].known THEN turns[t].first ELSE next,
                      !.last = next, !.known = TRUE] \in Turn
  BY <1>1 DEF Turn
<1> QED BY <1>2 DEF EnsuredAt

LEMMA GivenTyped ==
  ASSUME NEW tn \in [TurnIds -> Turn], NEW kind \in Inputs
  PROVE  Given(tn, kind) \in [TurnIds -> Turn]
BY DEF Given, Turn

LEMMA StampedTyped ==
  ASSUME NEW evs \in Seq(Event), NEW rid \in Nat, NEW t \in 0..MaxTurns
  PROVE  /\ Stamped(evs, rid, t) \in Seq(Event)
         /\ Len(Stamped(evs, rid, t)) = Len(evs)
         /\ \A i \in 1..Len(evs) :
              /\ i \in callEvents => Stamped(evs, rid, t)[i].resp = rid
              /\ i \notin callEvents => Stamped(evs, rid, t)[i] = evs[i]
              /\ Stamped(evs, rid, t)[i].kind = evs[i].kind
              /\ Stamped(evs, rid, t)[i].usage = evs[i].usage
<1> DEFINE one(i) == IF i \in callEvents
                     THEN [evs[i] EXCEPT !.resp = rid, !.turn = IF @ = None THEN t ELSE @]
                     ELSE evs[i]
<1>1. ASSUME NEW i \in 1..Len(evs)
      PROVE  /\ one(i) \in Event
             /\ i \in callEvents => one(i).resp = rid
             /\ one(i).kind = evs[i].kind /\ one(i).usage = evs[i].usage
  <2>1. evs[i] \in Event
    OBVIOUS
  <2> QED BY <2>1 DEF Event
<1>2. Len(evs) \in Nat
  OBVIOUS
<1>3. /\ [i \in 1..Len(evs) |-> one(i)] \in Seq(Event)
      /\ Len([i \in 1..Len(evs) |-> one(i)]) = Len(evs)
  <2> HIDE DEF one
  <2> QED BY <1>1, <1>2, SeqDef
<1>4. Stamped(evs, rid, t) = [i \in 1..Len(evs) |-> one(i)]
  BY DEF Stamped
<1> QED BY <1>1, <1>3, <1>4

-----------------------------------------------------------------------------
(***************************************************************************)
(* The records that only make the stream longer.                           *)
(***************************************************************************)
Grows ==
  /\ ~done /\ done' = done
  /\ UNCHANGED <<open, seenUsage>>
  /\ Adds
  /\ \/ counts' = counts
     \/ \E t \in TurnIds : /\ counts' = Append(counts, [at |-> Len(events) + 1, turn |-> t])
                           /\ Len(events') = Len(events) + 1

\* What the records leave to say about types once the stream is known to grow.
RestTyped ==
  /\ n' \in Nat /\ now' \in 0..MaxTurns /\ start' = start
  /\ {mine', secondMeta', untilOwn', seenItem', heard', lost'} \subseteq BOOLEAN
  /\ turns' \in [TurnIds -> Turn]
  /\ latest' \in 0..MaxTurns
  /\ agentCalls' \subseteq Nat /\ group' \in Nat
  /\ compacted' = compacted \/ compacted' \in 0..Len(events')
  /\ pairs' \subseteq [record : Nat, item : Nat]

LEMMA GrowthTyped == TypeOK /\ Grows /\ RestTyped => TypeOK'
<1> SUFFICES ASSUME TypeOK, Grows, RestTyped PROVE TypeOK'
  OBVIOUS
<1>1. /\ Len(events) \in Nat /\ Len(events') \in Nat /\ Len(events) <= Len(events')
      /\ events' \in Seq(Event) /\ callEvents' \subseteq callStart..Len(events')
  BY DEF TypeOK, Grows, Adds
<1>2. counts' \in Seq([at : Nat, turn : TurnIds])
  <2>1. CASE counts' = counts
    BY <2>1 DEF TypeOK
  <2>2. CASE counts' # counts
    <3>1. PICK t \in TurnIds : counts' = Append(counts, [at |-> Len(events) + 1, turn |-> t])
      BY <2>2 DEF Grows
    <3>2. [at |-> Len(events) + 1, turn |-> t] \in [at : Nat, turn : TurnIds]
      BY <1>1
    <3> QED BY <3>1, <3>2 DEF TypeOK
  <2> QED BY <2>1, <2>2
<1>3. compacted' \in 0..Len(events') /\ callStart' \in 1..Len(events') + 1
  BY <1>1 DEF TypeOK, Grows, RestTyped, open
<1>4. {mine', done', secondMeta', untilOwn', seenUsage', seenItem', heard', lost'} \subseteq BOOLEAN
  BY DEF TypeOK, Grows, RestTyped
<1>5. calls' \subseteq Call /\ callStart' = callStart
  BY DEF TypeOK, Grows, open
<1> QED BY <1>1, <1>2, <1>3, <1>4, <1>5 DEF TypeOK, RestTyped

LEMMA GrowthPreserves == IInv /\ Grows /\ RestTyped => IInv'
<1> SUFFICES ASSUME IInv, Grows, RestTyped PROVE IInv'
  OBVIOUS
<1>1. TypeOK' /\ TypeOK
  BY GrowthTyped DEF IInv
<1>2. /\ Len(events) \in Nat /\ Len(events') \in Nat /\ Len(events) <= Len(events')
      /\ calls' = calls /\ callStart' = callStart /\ done' = done /\ ~done /\ seenUsage' = seenUsage
      /\ \A i \in 1..Len(events) : events'[i] = events[i]
      /\ \A i \in 1..Len(events') : i <= Len(events) \/ Quiet(events'[i])
  <2>1. Len(events) \in Nat /\ Len(events') \in Nat
    <3>1. events \in Seq(Event)
      BY <1>1 DEF TypeOK
    <3>2. events' \in Seq(Event)
      BY DEF Grows, Adds
    <3> QED BY <3>1, <3>2
  <2>2. /\ Len(events) <= Len(events')
        /\ calls' = calls /\ callStart' = callStart /\ done' = done /\ ~done /\ seenUsage' = seenUsage
        /\ \A i \in 1..Len(events) : events'[i] = events[i]
    <3>1. Len(events) <= Len(events') /\ \A i \in 1..Len(events) : events'[i] = events[i]
      BY DEF Grows, Adds
    <3>2. calls' = calls /\ callStart' = callStart /\ done' = done /\ ~done /\ seenUsage' = seenUsage
      BY DEF Grows, open
    <3> QED BY <3>1, <3>2
  <2>3. ASSUME NEW i \in 1..Len(events') PROVE i <= Len(events) \/ Quiet(events'[i])
    <3>1. i <= Len(events) \/ i \in Len(events) + 1..Len(events')
      BY <2>1
    <3> QED BY <3>1 DEF Grows, Adds
  <2> QED BY <2>1, <2>2, <2>3
<1>3. \A c \in calls : c.first \in Nat /\ c.last \in Nat
  BY <1>1 DEF TypeOK, Call
<1>4. EventsInOneCall' /\ CallsBehind'
  BY <1>2, <1>3 DEF IInv, EventsInOneCall, CallsBehind
<1>5. CountsGrow'
  <2>1. CASE counts' = counts
    BY <1>2, <2>1 DEF IInv, CountsGrow
  <2>2. CASE counts' # counts
    <3>1. PICK t \in TurnIds : /\ counts' = Append(counts, [at |-> Len(events) + 1, turn |-> t])
                               /\ Len(events') = Len(events) + 1
      BY <2>2 DEF Grows
    <3>2. /\ counts \in Seq([at : Nat, turn : TurnIds])
          /\ \A k \in 1..Len(counts) : counts[k].at \in 1..Len(events)
          /\ \A k, l \in 1..Len(counts) : k < l => counts[k].at < counts[l].at
      BY <1>1 DEF TypeOK, IInv, CountsGrow
    <3>3. /\ Len(counts') = Len(counts) + 1 /\ Len(counts) \in Nat
          /\ \A k \in 1..Len(counts) : counts'[k] = counts[k]
          /\ counts'[Len(counts) + 1].at = Len(events) + 1
      BY <3>1, <3>2
    <3>4. \A k \in 1..Len(counts') : counts'[k].at \in 1..Len(events')
      BY <1>2, <3>1, <3>2, <3>3
    <3>5. ASSUME NEW k \in 1..Len(counts'), NEW l \in 1..Len(counts'), k < l
          PROVE  counts'[k].at < counts'[l].at
      <4>1. k \in 1..Len(counts) /\ counts'[k].at \in 1..Len(events)
        BY <3>2, <3>3, <3>5
      <4>2. l \in 1..Len(counts) \/ l = Len(counts) + 1
        BY <3>3
      <4>3. CASE l \in 1..Len(counts)
        <5>1. counts[k].at < counts[l].at
          BY <3>2, <3>5, <4>1, <4>3
        <5> QED BY <3>3, <4>1, <4>3, <5>1
      <4>4. CASE l = Len(counts) + 1
        <5>1. counts'[l].at = Len(events) + 1
          BY <3>3, <4>4
        <5> QED BY <1>2, <4>1, <5>1
      <4> QED BY <4>2, <4>3, <4>4
    <3> QED BY <3>4, <3>5 DEF CountsGrow
  <2> QED BY <2>1, <2>2
<1>6. UsageStamps'
  BY <1>2 DEF IInv, UsageStamps, Quiet
<1>7. StampsMatchCalls'
  BY <1>2 DEF IInv, StampsMatchCalls, Quiet
<1>8. TurnsCoverTheirEvents'
  BY <1>2 DEF TurnsCoverTheirEvents
<1> QED BY <1>1, <1>4, <1>5, <1>6, <1>7, <1>8 DEF IInv

LEMMA AcceptTyped ==
  ASSUME TypeOK, NEW thread, Accept(thread)
  PROVE  /\ ~done /\ done' = done /\ start' = start /\ n' \in Nat
         /\ {mine', secondMeta', untilOwn', heard', lost'} \subseteq BOOLEAN
BY DEF TypeOK, Accept, OwnTime, Writing

LEMMA InTurnTyped ==
  ASSUME TypeOK, InTurn
  PROVE  /\ now \in TurnIds /\ now' = now
         /\ LatestWith(now) \in 0..MaxTurns
         /\ Len(events) + 1 \in Nat /\ Len(events) + 2 \in Nat
         /\ Ensured(now) \in [TurnIds -> Turn]
         /\ EnsuredAt(now, Len(events) + 2) \in [TurnIds -> Turn]
<1>1. now \in TurnIds /\ now' = now /\ Len(events) + 1 \in Nat /\ Len(events) + 2 \in Nat
  BY BoundsAssumption DEF TypeOK, InTurn, TurnIds, None
<1>2. LatestWith(now) \in 0..MaxTurns
  BY <1>1, BoundsAssumption DEF TypeOK, LatestWith, TurnIds
<1>3. turns \in [TurnIds -> Turn]
  BY DEF TypeOK
<1>4. Ensured(now) \in [TurnIds -> Turn] /\ EnsuredAt(now, Len(events) + 2) \in [TurnIds -> Turn]
  BY <1>1, <1>3, EnsuredTyped DEF Ensured
<1> QED BY <1>1, <1>2, <1>4

LEMMA MarkerStep ==
  ASSUME TypeOK, Accept("none"), InTurn, Note(Marker(now)), latest' = LatestWith(now),
         turns' \in [TurnIds -> Turn], UNCHANGED <<open, usage, items, pairs>>
  PROVE  Grows /\ RestTyped
<1>1. now \in TurnIds /\ now' = now /\ latest' \in 0..MaxTurns
  BY InTurnTyped
<1>2. now \in 0..MaxTurns
  BY DEF TypeOK
<1>3. Adds
  BY <1>2, PlainKinds, NoteAdds
<1>4. Grows
  BY <1>3, AcceptTyped DEF Grows, usage
<1>5. RestTyped
  BY <1>1, AcceptTyped DEF RestTyped, TypeOK, items
<1> QED BY <1>4, <1>5

LEMMA TurnContextGrows == TypeOK /\ TurnContext => Grows /\ RestTyped
BY MarkerStep, InTurnTyped DEF TurnContext

LEMMA TaskEndsGrows == TypeOK /\ TaskEnds => Grows /\ RestTyped
<1> SUFFICES ASSUME TypeOK, TaskEnds PROVE Grows /\ RestTyped
  OBVIOUS
<1>1. PICK status \in {"completed", "aborted"} : turns' = [Ensured(now) EXCEPT ![now].status = status]
  BY DEF TaskEnds
<1>2. InTurn /\ now \in TurnIds /\ Ensured(now) \in [TurnIds -> Turn]
  BY InTurnTyped DEF TaskEnds
<1>3. turns' \in [TurnIds -> Turn]
  BY <1>1, <1>2 DEF Turn
<1> QED BY <1>3, MarkerStep DEF TaskEnds

LEMMA TaskStartedGrows == TypeOK /\ TaskStarted => Grows /\ RestTyped
<1> SUFFICES ASSUME TypeOK, TaskStarted PROVE Grows /\ RestTyped
  OBVIOUS
<1> DEFINE t == now + 1
<1>1. t \in TurnIds /\ now' = t /\ t \in 0..MaxTurns /\ Len(events) + 1 \in Nat
  BY BoundsAssumption DEF TypeOK, TaskStarted, TurnIds
<1>2. Accept("none") /\ turns' = Ensured(t) /\ latest' = LatestWith(t) /\ Note(Marker(t))
  BY DEF TaskStarted
<1> HIDE DEF t
<1>3. latest' \in 0..MaxTurns
  BY <1>1, <1>2 DEF TypeOK, LatestWith
<1>4. turns' \in [TurnIds -> Turn]
  BY <1>1, <1>2, EnsuredTyped DEF TypeOK, Ensured
<1>5. Adds
  BY <1>1, <1>2, PlainKinds, NoteAdds
<1>6. Grows
  BY <1>2, <1>5, AcceptTyped DEF Grows, usage, TaskStarted
<1>7. RestTyped
  BY <1>1, <1>2, <1>3, <1>4, AcceptTyped DEF RestTyped, TypeOK, items, TaskStarted
<1> QED BY <1>6, <1>7

\* Any record of the file's own turn, from what is left to show of it.
LEMMA RecordStep ==
  ASSUME TypeOK, NEW thread, Accept(thread), InTurn, Adds, UNCHANGED <<open, usage>>,
         turns' \in [TurnIds -> Turn], latest' \in {latest, LatestWith(now)},
         seenItem' \in BOOLEAN, agentCalls' \subseteq Nat, group' \in Nat,
         compacted' = compacted \/ compacted' \in 0..Len(events'),
         pairs' \subseteq [record : Nat, item : Nat]
  PROVE  Grows /\ RestTyped
<1>1. now' \in 0..MaxTurns /\ latest' \in 0..MaxTurns
  BY InTurnTyped DEF TypeOK
<1>2. Grows
  BY AcceptTyped DEF Grows, usage
<1>3. RestTyped
  BY <1>1, AcceptTyped DEF RestTyped
<1> QED BY <1>2, <1>3

LEMMA ExecOpensGrows == TypeOK /\ ExecOpens => Grows /\ RestTyped
<1> SUFFICES ASSUME TypeOK, ExecOpens PROVE Grows /\ RestTyped
  OBVIOUS
<1>1. n \in Nat /\ None \in 0..MaxTurns /\ "meta" \in Kinds
  BY BoundsAssumption DEF TypeOK, None, Kinds
<1>2. Adds
  BY <1>1, PlainKinds, NoteAdds DEF ExecOpens
<1> QED BY <1>1, <1>2, RecordStep DEF ExecOpens, TypeOK

LEMMA ExecClosesGrows == TypeOK /\ ExecCloses => Grows /\ RestTyped
<1> SUFFICES ASSUME TypeOK, ExecCloses PROVE Grows /\ RestTyped
  OBVIOUS
<1>1. PICK i \in 1..Len(events) :
        /\ group' = IF events[i].group = group THEN None ELSE group
        /\ Note([Plain("meta", None) EXCEPT !.group = events[i].group])
  BY DEF ExecCloses
<1>2. events[i].group \in Nat /\ None \in 0..MaxTurns /\ "meta" \in Kinds /\ None \in Nat
  <2>1. events[i] \in Event
    BY DEF TypeOK
  <2> QED BY <2>1, BoundsAssumption DEF Event, None, Kinds
<1>3. Adds
  BY <1>1, <1>2, PlainKinds, NoteAdds
<1>4. group' \in Nat
  BY <1>1, <1>2 DEF TypeOK
<1> QED BY <1>3, <1>4, RecordStep DEF ExecCloses, TypeOK

LEMMA TokenCountGrows == TypeOK /\ TokenCount => Grows /\ RestTyped
<1> SUFFICES ASSUME TypeOK, TokenCount PROVE Grows /\ RestTyped
  OBVIOUS
<1>1. now \in TurnIds /\ now \in 0..MaxTurns /\ now' = now
  BY InTurnTyped DEF TokenCount, TypeOK
<1>2. Adds /\ Len(events') = Len(events) + 1
  BY <1>1, PlainKinds, NoteAdds DEF TokenCount
<1>3. Grows
  BY <1>1, <1>2, AcceptTyped DEF Grows, TokenCount
<1>4. RestTyped
  BY <1>1, AcceptTyped DEF RestTyped, TypeOK, TokenCount, items
<1> QED BY <1>3, <1>4

LEMMA UserMessageGrows == TypeOK /\ UserMessage => Grows /\ RestTyped
<1> SUFFICES ASSUME TypeOK, UserMessage PROVE Grows /\ RestTyped
  OBVIOUS
<1>1. /\ now \in 0..MaxTurns /\ Ensured(now) \in [TurnIds -> Turn] /\ "user_msg" \in Kinds
      /\ Accept("own") /\ InTurn
  BY InTurnTyped DEF TypeOK, UserMessage, Item, Kinds
<1>2. turns' \in [TurnIds -> Turn]
  BY <1>1, GivenTyped DEF UserMessage, Inputs
<1>3. Adds
  BY <1>1, PlainKinds, CollectAdds DEF UserMessage
<1> QED BY <1>1, <1>2, <1>3, RecordStep DEF UserMessage, Item, TypeOK

LEMMA OneEventItemGrows == TypeOK /\ OneEventItem => Grows /\ RestTyped
<1> SUFFICES ASSUME TypeOK, OneEventItem PROVE Grows /\ RestTyped
  OBVIOUS
<1>1. /\ now \in 0..MaxTurns /\ Ensured(now) \in [TurnIds -> Turn]
      /\ {"assistant_msg", "tool_call", "tool_result", "meta"} \subseteq Kinds
      /\ Accept("own") /\ InTurn
  BY InTurnTyped DEF TypeOK, OneEventItem, Item, Kinds
<1>2. turns' \in [TurnIds -> Turn]
  BY <1>1, GivenTyped DEF OneEventItem, Inputs
<1>3. Adds
  BY <1>1, PlainKinds, CollectAdds DEF OneEventItem
<1> QED BY <1>1, <1>2, <1>3, RecordStep DEF OneEventItem, Item, TypeOK

LEMMA OperationGrows == TypeOK /\ Operation => Grows /\ RestTyped
<1> SUFFICES ASSUME TypeOK, Operation PROVE Grows /\ RestTyped
  OBVIOUS
<1>1. /\ now \in 0..MaxTurns /\ Ensured(now) \in [TurnIds -> Turn]
      /\ "tool_call" \in Kinds /\ "tool_result" \in Kinds
      /\ Accept("own") /\ InTurn
  BY InTurnTyped DEF TypeOK, Operation, Item, Kinds
<1>2. PICK c, r : /\ Quiet(c) /\ Quiet(r) /\ events' = Append(Append(events, c), r)
                  /\ callEvents' = callEvents \cup {Len(events) + 1, Len(events) + 2}
  BY <1>1, PlainKinds DEF Operation
<1>3. /\ events \in Seq(Event) /\ c \in Event /\ r \in Event /\ Len(events) \in Nat
      /\ callEvents \subseteq callStart..Len(events) /\ callStart \in Nat /\ callStart <= Len(events) + 1
  BY <1>2 DEF TypeOK, Quiet
<1>4. /\ events' \in Seq(Event) /\ Len(events') = Len(events) + 2
      /\ \A i \in 1..Len(events) : events'[i] = events[i]
      /\ events'[Len(events) + 1] = c /\ events'[Len(events) + 2] = r
  BY <1>2, <1>3
<1>5. \A i \in Len(events) + 1..Len(events') : Quiet(events'[i])
  BY <1>2, <1>3, <1>4 DEF Quiet
<1>6. ASSUME NEW i \in callEvents' PROVE i \in callStart..Len(events')
  <2>1. CASE i \in callEvents
    BY <1>3, <1>4, <2>1
  <2>2. CASE i = Len(events) + 1 \/ i = Len(events) + 2
    BY <1>3, <1>4, <2>2
  <2> QED BY <1>2, <1>6, <2>1, <2>2
<1>7. Len(events) <= Len(events')
  BY <1>3, <1>4
<1>8. callEvents' \subseteq callStart..Len(events')
  BY <1>6
<1>9. Adds
  BY <1>4, <1>5, <1>7, <1>8 DEF Adds
<1> QED BY <1>1, <1>9, RecordStep DEF Operation, Item, TypeOK

LEMMA UnknownItemGrows == TypeOK /\ UnknownItem => Grows /\ RestTyped
<1> SUFFICES ASSUME TypeOK, UnknownItem PROVE Grows /\ RestTyped
  OBVIOUS
<1>1. Accept("own") /\ InTurn /\ Ensured(now) \in [TurnIds -> Turn] /\ Adds
  BY InTurnTyped, SameAdds DEF UnknownItem, Item
<1> QED BY <1>1, RecordStep DEF UnknownItem, Item, TypeOK

LEMMA CollabItemGrows == TypeOK /\ CollabItem => Grows /\ RestTyped
<1> SUFFICES ASSUME TypeOK, CollabItem PROVE Grows /\ RestTyped
  OBVIOUS
<1>1. /\ Accept("own") /\ InTurn /\ Ensured(now) \in [TurnIds -> Turn]
      /\ now \in 0..MaxTurns /\ "tool_call" \in Kinds /\ turns \in [TurnIds -> Turn]
  BY InTurnTyped DEF CollabItem, Item, Kinds, TypeOK
<1>2. Adds
  BY <1>1, PlainKinds, SameAdds, CollectAdds DEF CollabItem
<1>3. turns' \in [TurnIds -> Turn] /\ latest' \in {latest, LatestWith(now)}
  BY <1>1 DEF CollabItem
<1> QED BY <1>1, <1>2, <1>3, RecordStep DEF CollabItem, Item, TypeOK

LEMMA CompactionItemGrows == TypeOK /\ CompactionItem => Grows /\ RestTyped
<1> SUFFICES ASSUME TypeOK, CompactionItem PROVE Grows /\ RestTyped
  OBVIOUS
<1>1. /\ Accept("own") /\ InTurn /\ Ensured(now) \in [TurnIds -> Turn] /\ now \in TurnIds
      /\ now \in 0..MaxTurns /\ "compaction" \in Kinds /\ turns \in [TurnIds -> Turn]
  BY InTurnTyped DEF CompactionItem, Item, Kinds, TypeOK
<1>2. CASE PairedItem
  <2>1. Adds
    BY <1>1, <1>2, PlainKinds, NoteAdds DEF PairedItem, Pairs
  <2>2. pairs' \subseteq [record : Nat, item : Nat] /\ compacted' \in 0..Len(events')
    <3>1. compacted \in Nat /\ Len(events) + 1 \in Nat /\ Len(events') \in Nat
      BY <2>1 DEF TypeOK, Adds
    <3> QED BY <1>2, <3>1 DEF PairedItem, Pairs, TypeOK, None
  <2> QED BY <1>1, <1>2, <2>1, <2>2, RecordStep DEF CompactionItem, Item, PairedItem, Pairs, TypeOK
<1>3. CASE LoneItem
  <2>1. Adds
    BY <1>1, <1>3, PlainKinds, CollectAdds DEF LoneItem
  <2>2. turns' = [Ensured(now) EXCEPT ![now].compactions = @ + 1]
    BY <1>3 DEF LoneItem
  <2>3. turns' \in [TurnIds -> Turn]
    BY <1>1, <2>2 DEF Turn
  <2> QED BY <1>1, <1>3, <2>1, <2>3, RecordStep DEF CompactionItem, Item, LoneItem, TypeOK
<1> QED BY <1>2, <1>3 DEF CompactionItem

LEMMA CompactedGrows == TypeOK /\ Compacted => Grows /\ RestTyped
<1> SUFFICES ASSUME TypeOK, Compacted PROVE Grows /\ RestTyped
  OBVIOUS
<1>1. "compaction" \in Kinds /\ None \in 0..MaxTurns /\ None \in Nat
  BY BoundsAssumption DEF Kinds, None
<1>2. Adds /\ Len(events') = Len(events) + 1
  BY <1>1, PlainKinds, CollectAdds DEF Compacted
<1>3. compacted' \in 0..Len(events')
  <2>1. Len(events) \in Nat
    BY DEF TypeOK
  <2> QED BY <1>2, <2>1 DEF Compacted
<1>4. turns' \in [TurnIds -> Turn]
  <2>1. CASE latest = None
    BY <2>1 DEF Compacted, TypeOK
  <2>2. CASE latest # None
    <3>1. latest \in TurnIds /\ turns \in [TurnIds -> Turn]
      BY <2>2, BoundsAssumption DEF TypeOK, TurnIds, None
    <3>2. turns' = [turns EXCEPT ![latest].compactions = @ + 1]
      BY <2>2 DEF Compacted
    <3> QED BY <3>1, <3>2 DEF Turn
  <2> QED BY <2>1, <2>2
<1> QED BY <1>2, <1>3, <1>4, RecordStep DEF Compacted, TypeOK

LEMMA AgentFunctionGrows == TypeOK /\ AgentFunction => Grows /\ RestTyped
<1> SUFFICES ASSUME TypeOK, AgentFunction PROVE Grows /\ RestTyped
  OBVIOUS
<1>1. "tool_call" \in Kinds /\ None \in 0..MaxTurns
  BY BoundsAssumption DEF Kinds, None
<1>2. Adds
  BY <1>1, PlainKinds, CollectAdds DEF AgentFunction
<1>3. agentCalls' \subseteq Nat
  BY DEF AgentFunction, TypeOK
<1> QED BY <1>2, <1>3, RecordStep DEF AgentFunction, TypeOK

LEMMA AgentMessageGrows == TypeOK /\ AgentMessage => Grows /\ RestTyped
<1> SUFFICES ASSUME TypeOK, AgentMessage PROVE Grows /\ RestTyped
  OBVIOUS
<1>1. {"user_msg", "tool_result", "assistant_msg"} \subseteq Kinds /\ None \in 0..MaxTurns
  BY BoundsAssumption DEF Kinds, None
<1>2. \E kind \in Kinds : Collect(Plain(kind, None))
  BY <1>1 DEF AgentMessage
<1>3. Adds
  BY <1>1, <1>2, PlainKinds, CollectAdds
<1>4. InTurn /\ EnsuredAt(now, Len(events) + 2) \in [TurnIds -> Turn]
  BY InTurnTyped DEF AgentMessage
<1>5. turns' \in [TurnIds -> Turn] /\ latest' \in {latest, LatestWith(now)}
  BY <1>4, GivenTyped DEF AgentMessage, TypeOK, Inputs
<1> QED BY <1>3, <1>5, RecordStep DEF AgentMessage, TypeOK, items

\* The records that the gate drops, and the parent's header.
LEMMA ForeignGrows ==
  TypeOK /\ (ParentMeta \/ SkipParents \/ SkipOwn \/ ForeignUsage) => Grows /\ RestTyped
<1> SUFFICES ASSUME TypeOK, ParentMeta \/ SkipParents \/ SkipOwn \/ ForeignUsage
             PROVE  Grows /\ RestTyped
  OBVIOUS
<1>1. CASE ParentMeta \/ ForeignUsage
  <2>1. Adds
    BY <1>1, SameAdds DEF ParentMeta, ForeignUsage
  <2>2. Grows
    BY <1>1, <2>1 DEF ParentMeta, ForeignUsage, OwnTime, Writing, Grows, usage
  <2>3. n' \in Nat /\ start' = start /\ mine' \in BOOLEAN
    BY <1>1 DEF ParentMeta, ForeignUsage, TypeOK
  <2>4. secondMeta' \in BOOLEAN /\ untilOwn' \in BOOLEAN
    <3>1. CASE ParentMeta
      <4>1. untilOwn' \in BOOLEAN
        BY <3>1, Zenon DEF ParentMeta
      <4> QED BY <3>1, <4>1 DEF ParentMeta
    <3>2. CASE ForeignUsage
      BY <3>2 DEF ForeignUsage, TypeOK, gate
    <3> QED BY <1>1, <3>1, <3>2
  <2>5. UNCHANGED <<now, turns, latest, items, story>>
    BY <1>1 DEF ParentMeta, ForeignUsage
  <2>6. RestTyped
    BY <2>3, <2>4, <2>5 DEF TypeOK, RestTyped, items, story
  <2> QED BY <2>2, <2>6
<1>2. CASE SkipParents \/ SkipOwn
  <2>1. PICK thread, summary : Skip(thread, summary)
    BY <1>2 DEF SkipParents, SkipOwn
  <2>2. Adds
    <3>1. CASE summary
      <4>1. Note(Marker(None)) /\ None \in 0..MaxTurns
        BY <2>1, <3>1, BoundsAssumption DEF Skip, Note, None
      <4> QED BY <4>1, PlainKinds, NoteAdds
    <3>2. CASE ~summary
      BY <2>1, <3>2, SameAdds DEF Skip
    <3> QED BY <3>1, <3>2
  <2>3. ~done /\ {mine', lost'} \subseteq BOOLEAN
    BY <1>2 DEF SkipParents, SkipOwn, OwnTime, ParentTime, Writing, TypeOK
  <2>4. now' \in 0..MaxTurns
    <3>1. now \in 0..MaxTurns /\ MaxTurns \in Nat
      BY BoundsAssumption DEF TypeOK
    <3>2. now' = now \/ (now' = now + 1 /\ now' <= MaxTurns)
      BY <1>2 DEF SkipParents, SkipOwn
    <3> QED BY <3>1, <3>2
  <2>5. Grows
    BY <2>1, <2>2, <2>3 DEF Skip, Grows, usage
  <2>6. RestTyped
    BY <2>1, <2>3, <2>4 DEF Skip, RestTyped, TypeOK, items, gate
  <2> QED BY <2>5, <2>6
<1> QED BY <1>1, <1>2

-----------------------------------------------------------------------------
(***************************************************************************)
(* A usage record closes a call: from where the last one ended to itself.  *)
(***************************************************************************)
LEMMA UsagePreserves == IInv /\ UsageRecord => IInv'
<1> SUFFICES ASSUME IInv, UsageRecord PROVE IInv'
  OBVIOUS
<1> DEFINE L == Len(events) + 1
           mark(paid) == [Marker(now) EXCEPT !.resp = n, !.usage = paid]
           evs(paid) == Append(events, mark(paid))
           call(paid) == CallUpTo(evs(paid), n, paid, now)
<1>1. PICK paid \in BOOLEAN :
        /\ events' = Stamped(evs(paid), n, now)
        /\ calls' = IF callEvents = {} /\ ~paid THEN calls ELSE calls \cup {call(paid)}
  BY DEF UsageRecord, ClosesCall
<1>2. /\ ClosesCall(Len(events) + 2, {}) /\ Accept("own") /\ InTurn /\ TypeOK
      /\ seenUsage' = TRUE /\ turns' = Ensured(now) /\ latest' = LatestWith(now)
      /\ callEvents' = {} /\ UNCHANGED <<counts, items, pairs>>
  BY DEF UsageRecord, ClosesCall, IInv
<1>3. /\ now \in TurnIds /\ now \in 0..MaxTurns /\ now' = now /\ n \in Nat
      /\ latest' \in 0..MaxTurns /\ turns' \in [TurnIds -> Turn]
      /\ Len(events) \in Nat /\ L \in Nat /\ callStart \in 1..L
      /\ callEvents \subseteq callStart..Len(events)
      /\ callStart' = L + 1
  BY <1>2, InTurnTyped DEF TypeOK, ClosesCall
<1>4. mark(paid) \in Event /\ mark(paid).kind = "meta" /\ mark(paid).usage = paid
  BY <1>3, BoundsAssumption DEF Marker, Plain, Event, Kinds, None, TypeOK
<1>5. /\ evs(paid) \in Seq(Event) /\ Len(evs(paid)) = L
      /\ evs(paid)[L] = mark(paid)
      /\ \A i \in 1..Len(events) : evs(paid)[i] = events[i]
  <2> HIDE DEF mark
  <2> QED BY <1>2, <1>4 DEF TypeOK
<1>6. call(paid) \in Call /\ call(paid).first = callStart /\ call(paid).last = L /\ call(paid).resp = n
  <2> HIDE DEF evs
  <2> QED BY <1>1, <1>3, <1>5 DEF CallUpTo, Reach, Call
<1> HIDE DEF mark, evs, call, L
<1>7. /\ events' \in Seq(Event) /\ Len(events') = L
      /\ \A i \in 1..L :
           /\ i \in callEvents => events'[i].resp = n
           /\ i \notin callEvents => events'[i] = evs(paid)[i]
           /\ events'[i].kind = evs(paid)[i].kind /\ events'[i].usage = evs(paid)[i].usage
  <2> DEFINE stamped == Stamped(evs(paid), n, now)
  <2>1. /\ stamped \in Seq(Event) /\ Len(stamped) = Len(evs(paid))
        /\ \A i \in 1..Len(evs(paid)) :
             /\ i \in callEvents => stamped[i].resp = n
             /\ i \notin callEvents => stamped[i] = evs(paid)[i]
             /\ stamped[i].kind = evs(paid)[i].kind
             /\ stamped[i].usage = evs(paid)[i].usage
    BY <1>3, <1>5, StampedTyped
  <2>2. events' = stamped
    BY <1>1
  <2> QED BY <1>5, <2>1, <2>2
<1>8. calls \subseteq calls' /\ \A c \in calls' : c \in calls \/ c = call(paid)
  BY <1>1
<1>9. \A c \in calls : c.first \in Nat /\ c.last \in Nat /\ c.last < callStart
  BY <1>2, AcceptTyped DEF IInv, CallsBehind, TypeOK, Call
<1>10. TypeOK'
  <2>1. /\ n' \in Nat /\ start' \in Starts
        /\ {mine', done', secondMeta', untilOwn', heard', lost', seenUsage', seenItem'} \subseteq BOOLEAN
    BY <1>2, AcceptTyped DEF TypeOK, items
  <2>2. calls' \subseteq Call
    BY <1>2, <1>6, <1>8 DEF TypeOK
  <2>3. callStart' \in 1..Len(events') + 1 /\ callEvents' \subseteq callStart'..Len(events')
    BY <1>2, <1>3, <1>7
  <2>4. /\ counts' \in Seq([at : Nat, turn : TurnIds]) /\ agentCalls' \subseteq Nat /\ group' \in Nat
        /\ pairs' \subseteq [record : Nat, item : Nat]
    BY <1>2 DEF TypeOK, items
  <2>5. compacted' \in 0..Len(events')
    BY <1>2, <1>3, <1>7 DEF TypeOK, items, L
  <2> QED BY <1>3, <1>7, <2>1, <2>2, <2>3, <2>4, <2>5 DEF TypeOK
<1>11. EventsInOneCall' /\ CallsBehind'
  <2>1. \A c \in calls' : 1 <= c.first /\ c.first <= c.last /\ c.last <= L
    BY <1>3, <1>6, <1>8, <1>9 DEF IInv, EventsInOneCall
  <2>2. ASSUME NEW c \in calls', NEW d \in calls', c # d
        PROVE  c.last < d.first \/ d.last < c.first
    <3>1. CASE c \in calls /\ d \in calls
      BY <2>2, <3>1 DEF IInv, EventsInOneCall
    <3>2. CASE c \notin calls \/ d \notin calls
      BY <1>6, <1>8, <1>9, <2>2, <3>2
    <3> QED BY <3>1, <3>2
  <2>3. \A c \in calls' : c.last < callStart'
    BY <1>2, <1>3, <1>6, <1>8, <1>9
  <2> QED BY <1>7, <2>1, <2>2, <2>3 DEF EventsInOneCall, CallsBehind
<1>12. CountsGrow' /\ UsageStamps'
  BY <1>2, <1>3, <1>7 DEF IInv, CountsGrow, UsageStamps, L
<1>13. StampsMatchCalls'
  <2> SUFFICES ASSUME NEW i \in 1..L, events'[i].resp # None,
                      events'[i].usage \/ events'[i].kind # "meta"
               PROVE  \E c \in calls' : c.resp = events'[i].resp /\ i \in c.first..c.last
    BY <1>7 DEF StampsMatchCalls
  <2>1. CASE i \in callEvents
    <3>1. call(paid) \in calls'
      BY <1>1, <2>1
    <3>2. i \in callStart..L
      BY <1>3, <2>1
    <3> QED BY <1>6, <1>7, <2>1, <3>1, <3>2
  <2>2. CASE i \notin callEvents /\ i \in 1..Len(events)
    <3>1. events'[i] = events[i]
      BY <1>5, <1>7, <2>2
    <3> QED BY <1>8, <2>2, <3>1 DEF IInv, StampsMatchCalls
  <2>3. CASE i = L
    <3>1. i \notin callEvents
      BY <1>3, <2>3 DEF L
    <3>2. events'[i] = mark(paid)
      BY <1>5, <1>7, <2>3, <3>1
    <3>3. paid /\ call(paid) \in calls'
      BY <1>1, <1>4, <3>2
    <3>4. mark(paid).resp = n
      BY DEF mark, Marker, Plain
    <3>5. i \in call(paid).first..call(paid).last
      BY <1>3, <1>6, <2>3
    <3> QED BY <1>6, <3>2, <3>3, <3>4, <3>5
  <2> QED BY <1>3, <2>1, <2>2, <2>3 DEF L
<1>14. TurnsCoverTheirEvents'
  BY <1>2, AcceptTyped DEF TurnsCoverTheirEvents
<1> QED BY <1>10, <1>11, <1>12, <1>13, <1>14 DEF IInv

-----------------------------------------------------------------------------
(***************************************************************************)
(* The end of the file: a trailing call, or calls from token counts.       *)
(***************************************************************************)
LEMMA TailTurnTyped == TypeOK => TailTurn \in 0..MaxTurns
<1> SUFFICES ASSUME TypeOK PROVE TailTurn \in 0..MaxTurns
  OBVIOUS
<1>1. CASE callEvents = {}
  BY <1>1, BoundsAssumption DEF TailTurn, None
<1>2. CASE callEvents # {}
  <2>1. /\ Len(events) \in Nat /\ callStart \in Nat /\ callStart >= 1
        /\ callEvents \subseteq callStart..Len(events)
    BY DEF TypeOK
  <2>2. callEvents \subseteq 0..Len(events) /\ callEvents \subseteq 1..Len(events)
    BY <2>1
  <2>3. Max(callEvents) \in 1..Len(events)
    BY <1>2, <2>1, <2>2, Maximum
  <2>4. events[Max(callEvents)] \in Event
    BY <2>3 DEF TypeOK
  <2> QED BY <1>2, <2>4 DEF TailTurn, Event
<1> QED BY <1>1, <1>2

\* Calls from token counts follow each other.
LEMMA CountedCallsTyped ==
  ASSUME TypeOK, CountsGrow
  PROVE  /\ CountedCalls \subseteq Call
         /\ \A c \in CountedCalls : /\ 1 <= c.first /\ c.first <= c.last /\ c.last <= Len(events)
                                    /\ c.resp = None
         /\ \A c, d \in CountedCalls : c # d => c.last < d.first \/ d.last < c.first
<1> DEFINE call(k) == [turn |-> Home(k), resp |-> None, usage |-> TRUE,
                       first |-> IF k = 1 THEN 1 ELSE counts[k - 1].at + 1, last |-> counts[k].at]
<1>1. \A c \in CountedCalls : \E k \in 1..Len(counts) : Home(k) # None /\ c = call(k)
  BY DEF CountedCalls
<1>2. /\ Len(counts) \in Nat /\ Len(events) \in Nat
      /\ \A k \in 1..Len(counts) : counts[k] \in [at : Nat, turn : TurnIds]
      /\ \A k \in 1..Len(counts) : counts[k].at \in 1..Len(events)
      /\ \A k, l \in 1..Len(counts) : k < l => counts[k].at < counts[l].at
  <2>1. counts \in Seq([at : Nat, turn : TurnIds]) /\ events \in Seq(Event)
    BY DEF TypeOK
  <2>2. \A k \in 1..Len(counts) : counts[k] \in [at : Nat, turn : TurnIds]
    BY <2>1, ElementOfSeq
  <2>3. Len(counts) \in Nat /\ Len(events) \in Nat
    BY <2>1
  <2> QED BY <2>2, <2>3 DEF CountsGrow
<1>3. ASSUME NEW k \in 1..Len(counts)
      PROVE  /\ call(k).first \in Nat /\ 1 <= call(k).first
             /\ call(k).first <= call(k).last /\ call(k).last = counts[k].at
  <2>1. CASE k = 1
    BY <1>2, <2>1
  <2>2. CASE k # 1
    <3>1. k - 1 \in 1..Len(counts) /\ k - 1 < k
      BY <1>2, <2>2
    <3>2. counts[k - 1].at < counts[k].at /\ counts[k - 1].at \in Nat /\ counts[k].at \in Nat
      BY <1>2, <3>1
    <3> QED BY <2>2, <3>2
  <2> QED BY <2>1, <2>2
<1>4. ASSUME NEW k \in 1..Len(counts), Home(k) # None PROVE call(k) \in Call
  <2>1. Home(k) \in TurnIds
    <3>1. counts[k].turn \in TurnIds /\ latest \in 0..MaxTurns
      BY <1>2 DEF TypeOK
    <3> QED BY <1>4, <3>1, BoundsAssumption DEF Home, TurnIds, None
  <2>2. call(k).first \in Nat /\ counts[k].at \in Nat
    BY <1>2, <1>3
  <2> QED BY <2>1, <2>2 DEF Call, None
<1>5. ASSUME NEW k \in 1..Len(counts), NEW l \in 1..Len(counts), k < l
      PROVE  call(k).last < call(l).first
  <2>1. l - 1 \in 1..Len(counts) /\ (k < l - 1 \/ k = l - 1) /\ l # 1
    BY <1>2, <1>5
  <2>2. counts[k].at <= counts[l - 1].at /\ counts[k].at \in Nat /\ counts[l - 1].at \in Nat
    <3>1. CASE k = l - 1
      BY <1>2, <3>1
    <3>2. CASE k < l - 1
      <4>1. counts[k].at < counts[l - 1].at
        BY <1>2, <2>1, <3>2
      <4> QED BY <1>2, <2>1, <4>1
    <3> QED BY <2>1, <3>1, <3>2
  <2> QED BY <2>1, <2>2
<1> HIDE DEF call
<1>6. CountedCalls \subseteq Call
  BY <1>1, <1>4
<1>7. \A c \in CountedCalls : 1 <= c.first /\ c.first <= c.last /\ c.last <= Len(events) /\ c.resp = None
  <2> TAKE c \in CountedCalls
  <2>1. PICK k \in 1..Len(counts) : c = call(k)
    BY <1>1
  <2>2. call(k).resp = None
    BY DEF call
  <2> QED BY <1>2, <1>3, <2>1, <2>2
<1>8. ASSUME NEW c \in CountedCalls, NEW d \in CountedCalls, c # d
      PROVE  c.last < d.first \/ d.last < c.first
  <2>1. PICK k \in 1..Len(counts) : c = call(k)
    BY <1>1
  <2>2. PICK l \in 1..Len(counts) : d = call(l)
    BY <1>1
  <2>3. k < l \/ l < k
    BY <1>2, <1>8, <2>1, <2>2
  <2> QED BY <1>5, <2>1, <2>2, <2>3
<1> QED BY <1>6, <1>7, <1>8

\* The range of a turn once its events are counted in.
LEMMA SpannedCovers ==
  ASSUME TypeOK, NEW evs \in Seq(Event), NEW t \in TurnIds
  PROVE  /\ Spanned(evs, t) \in Turn /\ Spanned(evs, t).known = turns[t].known
         /\ \A i \in 1..Len(evs) : evs[i].turn = t =>
              Spanned(evs, t).first <= i /\ i <= Spanned(evs, t).last
<1> DEFINE lows == {turns[t].first} \cup Carried(evs, t)
           highs == {turns[t].last} \cup Carried(evs, t)
           most == turns[t].last + Len(evs)
<1>1. turns[t] \in Turn /\ turns[t].first \in Nat /\ turns[t].last \in Nat /\ Len(evs) \in Nat
  BY DEF TypeOK, Turn
<1>2. Carried(evs, t) \subseteq 1..Len(evs)
  BY DEF Carried
<1>3. lows \subseteq Nat /\ lows # {} /\ highs \subseteq 0..most /\ highs # {} /\ most \in Nat
  BY <1>1, <1>2
<1> HIDE DEF lows, highs, most
<1>4. /\ Min(lows) \in Nat /\ \A j \in lows : Min(lows) <= j
      /\ Max(highs) \in Nat /\ \A j \in highs : j <= Max(highs)
  <2>1. Min(lows) \in lows /\ \A j \in lows : Min(lows) <= j
    BY <1>3, Minimum
  <2>2. Max(highs) \in highs /\ \A j \in highs : j <= Max(highs)
    BY <1>3, Maximum
  <2>3. Max(highs) \in 0..most
    BY <1>3, <2>2
  <2>4. Min(lows) \in Nat
    BY <1>3, <2>1
  <2>5. Max(highs) \in Nat
    BY <1>3, <2>3
  <2> QED BY <2>1, <2>2, <2>4, <2>5
<1>5. Spanned(evs, t) = [turns[t] EXCEPT !.first = Min(lows), !.last = Max(highs)]
  BY DEF Spanned, lows, highs
<1>6. /\ Spanned(evs, t) \in Turn /\ Spanned(evs, t).known = turns[t].known
      /\ Spanned(evs, t).first = Min(lows) /\ Spanned(evs, t).last = Max(highs)
  BY <1>1, <1>4, <1>5 DEF Turn
<1>7. \A i \in 1..Len(evs) : evs[i].turn = t => i \in lows /\ i \in highs
  BY DEF Carried, lows, highs
<1> QED BY <1>4, <1>6, <1>7

LEMMA FinishPreserves == IInv /\ Finish => IInv'
<1> SUFFICES ASSUME IInv, Finish PROVE IInv'
  OBVIOUS
<1> DEFINE evs == Stamped(events, None, TailTurn)
           tail == CallUpTo(events, None, FALSE, TailTurn)
<1>1. /\ ~done /\ done' = TRUE /\ callEvents' = {}
      /\ events' = [i \in 1..Len(evs) |-> IF Counted(i) THEN [evs[i] EXCEPT !.usage = TRUE] ELSE evs[i]]
      /\ turns' = Ranges(evs)
      /\ calls' = IF Fallback THEN CountedCalls ELSE calls \cup TrailingCalls
      /\ UNCHANGED <<n, now, mine, start, gate, latest, callStart, usage, items, story>>
  BY DEF Finish
<1>2. /\ TypeOK /\ events \in Seq(Event) /\ Len(events) \in Nat /\ TailTurn \in 0..MaxTurns /\ None \in Nat
      /\ callEvents \subseteq callStart..Len(events) /\ callStart \in 1..Len(events) + 1
  BY TailTurnTyped DEF IInv, TypeOK, None
<1>3. /\ evs \in Seq(Event) /\ Len(evs) = Len(events)
      /\ \A i \in 1..Len(events) :
           /\ i \in callEvents => evs[i].resp = None
           /\ i \notin callEvents => evs[i] = events[i]
  <2>1. evs = Stamped(events, None, TailTurn)
    OBVIOUS
  <2> HIDE DEF evs
  <2>2. /\ Stamped(events, None, TailTurn) \in Seq(Event)
        /\ Len(Stamped(events, None, TailTurn)) = Len(events)
    BY <1>2, StampedTyped
  <2>3. ASSUME NEW i \in 1..Len(events)
        PROVE  /\ i \in callEvents => Stamped(events, None, TailTurn)[i].resp = None
               /\ i \notin callEvents => Stamped(events, None, TailTurn)[i] = events[i]
    <3>1. events[i] \in Event
      BY <1>2
    <3> QED BY <3>1 DEF Stamped, Event
  <2> QED BY <2>1, <2>2, <2>3
<1> HIDE DEF evs
<1>4. /\ events' \in Seq(Event) /\ Len(events') = Len(events)
      /\ \A i \in 1..Len(events) :
           /\ events'[i].resp = evs[i].resp /\ events'[i].turn = evs[i].turn
           /\ events'[i].kind = evs[i].kind
           /\ ~Counted(i) => events'[i] = evs[i]
  <2> DEFINE one(i) == IF Counted(i) THEN [evs[i] EXCEPT !.usage = TRUE] ELSE evs[i]
  <2>1. ASSUME NEW i \in 1..Len(events)
        PROVE  /\ one(i) \in Event
               /\ one(i).resp = evs[i].resp /\ one(i).turn = evs[i].turn /\ one(i).kind = evs[i].kind
               /\ ~Counted(i) => one(i) = evs[i]
    <3>1. evs[i] \in Event
      BY <1>3
    <3> QED BY <3>1 DEF Event
  <2>2. events' = [i \in 1..Len(events) |-> one(i)]
    BY <1>1, <1>3
  <2> HIDE DEF one
  <2>3. events' \in Seq(Event) /\ Len(events') = Len(events)
    BY <1>2, <2>1, <2>2, SeqDef
  <2> QED BY <2>1, <2>2, <2>3
<1>5. \A c \in calls : c.first \in Nat /\ c.last \in Nat /\ c.last < callStart
  BY <1>1 DEF IInv, TypeOK, Call, CallsBehind
<1>6. /\ calls' \subseteq Call
      /\ \A c \in calls' : 1 <= c.first /\ c.first <= c.last /\ c.last <= Len(events)
      /\ \A c, d \in calls' : c # d => c.last < d.first \/ d.last < c.first
  <2>1. CASE Fallback
    <3>1. calls' = CountedCalls
      BY <1>1, <2>1
    <3> QED BY <1>2, <3>1, CountedCallsTyped DEF IInv
  <2>2. CASE ~Fallback /\ TrailingCalls = {}
    <3>1. calls' = calls
      BY <1>1, <2>2
    <3> QED BY <3>1 DEF IInv, TypeOK, EventsInOneCall
  <2>3. CASE ~Fallback /\ TrailingCalls # {}
    <3>1. calls' = calls \cup {tail} /\ TailTurn # None
      BY <1>1, <2>3 DEF TrailingCalls
    <3>2. callEvents # {} /\ callStart <= Len(events)
      BY <1>2, <3>1 DEF TailTurn
    <3>3. tail \in Call /\ tail.first = callStart /\ tail.last = Len(events)
      <4>1. TailTurn \in TurnIds
        BY <1>2, <3>1, BoundsAssumption DEF TurnIds, None
      <4> QED BY <1>2, <3>2, <4>1 DEF CallUpTo, Reach, Call
    <3> HIDE DEF tail
    <3>4. \A c \in calls : c \in Call /\ 1 <= c.first /\ c.first <= c.last /\ c.last <= Len(events)
      BY <1>2 DEF IInv, TypeOK, EventsInOneCall
    <3>5. ASSUME NEW c \in calls', NEW d \in calls', c # d
          PROVE  c.last < d.first \/ d.last < c.first
      <4>1. CASE c \in calls /\ d \in calls
        BY <3>5, <4>1 DEF IInv, EventsInOneCall
      <4>2. CASE c = tail \/ d = tail
        BY <1>5, <3>1, <3>3, <3>5, <4>2
      <4> QED BY <3>1, <4>1, <4>2
    <3>6. \A c \in calls' : c \in Call /\ 1 <= c.first /\ c.first <= c.last /\ c.last <= Len(events)
      BY <1>2, <3>1, <3>2, <3>3, <3>4
    <3> QED BY <3>5, <3>6
  <2> QED BY <2>1, <2>2, <2>3
<1>7. EventsInOneCall' /\ CallsBehind'
  BY <1>1, <1>4, <1>6 DEF EventsInOneCall, CallsBehind
<1>8. StampsMatchCalls' /\ UsageStamps'
  <2>1. CASE ~seenUsage
    <3>1. \A i \in 1..Len(events) : events'[i].resp = None
      BY <1>3, <1>4, <2>1 DEF IInv, UsageStamps
    <3> QED BY <1>4, <3>1 DEF StampsMatchCalls, UsageStamps
  <2>2. CASE seenUsage
    <3>1. calls \subseteq calls' /\ seenUsage' = seenUsage
      BY <1>1, <2>2 DEF Fallback, usage
    <3>2. ASSUME NEW i \in 1..Len(events), events'[i].resp # None
          PROVE  events'[i] = events[i]
      <4>1. ~Counted(i) /\ i \notin callEvents
        BY <1>3, <1>4, <2>2, <3>2 DEF Counted, Fallback
      <4> QED BY <1>3, <1>4, <4>1
    <3>3. StampsMatchCalls'
      BY <1>4, <3>1, <3>2 DEF IInv, StampsMatchCalls
    <3> QED BY <2>2, <3>1, <3>3 DEF UsageStamps
  <2> QED BY <2>1, <2>2
<1>9. turns' \in [TurnIds -> Turn] /\ TurnsCoverTheirEvents'
  <2>1. \A t \in TurnIds : turns'[t] = IF turns[t].known THEN Spanned(evs, t) ELSE turns[t]
    BY <1>1 DEF Ranges
  <2>2. \A t \in TurnIds :
          /\ Spanned(evs, t) \in Turn /\ Spanned(evs, t).known = turns[t].known
          /\ \A i \in 1..Len(evs) : evs[i].turn = t =>
               Spanned(evs, t).first <= i /\ i <= Spanned(evs, t).last
    BY <1>2, <1>3, SpannedCovers
  <2>3. turns' \in [TurnIds -> Turn]
    <3>1. \A t \in TurnIds : turns'[t] \in Turn
      BY <1>2, <2>1, <2>2 DEF TypeOK
    <3>2. turns' = [t \in TurnIds |-> turns'[t]]
      BY <1>1 DEF Ranges
    <3> QED BY <3>1, <3>2
  <2>4. ASSUME NEW i \in 1..Len(events), NEW t, t = events'[i].turn, t # None, turns'[t].known
        PROVE  turns'[t].first <= i /\ i <= turns'[t].last
    <3>1. evs[i] \in Event /\ evs[i].turn = t
      BY <1>3, <1>4, <2>4
    <3>2. t \in TurnIds
      BY <2>4, <3>1, BoundsAssumption DEF Event, TurnIds, None
    <3>3. turns'[t] = Spanned(evs, t)
      BY <2>1, <2>4, <3>2
    <3> QED BY <1>3, <2>2, <3>1, <3>2, <3>3
  <2>5. TurnsCoverTheirEvents'
    BY <1>4, <2>4 DEF TurnsCoverTheirEvents
  <2> QED BY <2>3, <2>5
<1>10. TypeOK'
  <2>1. /\ n' \in Nat /\ now' \in 0..MaxTurns /\ start' \in Starts /\ latest' \in 0..MaxTurns
        /\ counts' \in Seq([at : Nat, turn : TurnIds])
        /\ agentCalls' \subseteq Nat /\ group' \in Nat /\ pairs' \subseteq [record : Nat, item : Nat]
    BY <1>1, <1>2 DEF TypeOK, usage, items, story
  <2>2. {mine', done', secondMeta', untilOwn', seenUsage', seenItem', heard', lost'} \subseteq BOOLEAN
    BY <1>1, <1>2 DEF TypeOK, usage, items, story, gate
  <2>3. /\ callStart' \in 1..Len(events') + 1 /\ compacted' \in 0..Len(events')
        /\ callEvents' \subseteq callStart'..Len(events')
    BY <1>1, <1>2, <1>4 DEF TypeOK, items
  <2> QED BY <1>4, <1>6, <1>9, <2>1, <2>2, <2>3 DEF TypeOK
<1>11. CountsGrow'
  BY <1>1, <1>4 DEF IInv, CountsGrow, usage
<1> QED BY <1>7, <1>8, <1>9, <1>10, <1>11 DEF IInv

-----------------------------------------------------------------------------
(***************************************************************************)
(* Compactions are summed over the turns.                                  *)
(***************************************************************************)
LEMMA CountIsSum ==
  ASSUME NEW tn, NEW f, f = [t \in TurnIds |-> tn[t].compactions]
  PROVE  CountOf(tn) = Sums(f)[TurnIds]
<1>1. FoldFunction(+, 0, f) = Sums(f)[DOMAIN f]
  BY FoldIsSum
<1>2. CountOf(tn) = FoldFunction(+, 0, f)
  BY DEF CountOf, FoldFunction
<1>3. DOMAIN f = TurnIds
  OBVIOUS
<1> QED BY <1>1, <1>2, <1>3

-----------------------------------------------------------------------------
(***************************************************************************)
(* What the two records that treat calls do to events.                     *)
(***************************************************************************)
LEMMA UsageEffect ==
  ASSUME TypeOK, UsageRecord
  PROVE  \E paid \in BOOLEAN : \E call \in Call :
           /\ call.usage = paid /\ call.last = Len(events) + 1
           /\ call.resp = n /\ call.turn = now
           /\ calls' = calls \/ calls' = calls \cup {call}
           /\ paid => call \in calls'
           /\ Len(events') = Len(events) + 1
           /\ events'[Len(events) + 1] = [Marker(now) EXCEPT !.resp = n, !.usage = paid]
           /\ \A i \in 1..Len(events) :
                /\ events'[i].kind = events[i].kind /\ events'[i].usage = events[i].usage
                /\ i \notin callEvents => events'[i] = events[i]
<1> DEFINE L == Len(events) + 1
           mark(paid) == [Marker(now) EXCEPT !.resp = n, !.usage = paid]
           evs(paid) == Append(events, mark(paid))
           call(paid) == CallUpTo(evs(paid), n, paid, now)
<1>1. PICK paid \in BOOLEAN :
        /\ events' = Stamped(evs(paid), n, now)
        /\ calls' = IF callEvents = {} /\ ~paid THEN calls ELSE calls \cup {call(paid)}
  BY DEF UsageRecord, ClosesCall
<1>2. Accept("own") /\ InTurn
  BY DEF UsageRecord, ClosesCall
<1>3. /\ now \in TurnIds /\ now \in 0..MaxTurns /\ n \in Nat
      /\ Len(events) \in Nat /\ L \in Nat /\ callStart \in 1..L
      /\ callEvents \subseteq callStart..Len(events)
  BY <1>2, InTurnTyped DEF TypeOK
<1>4. mark(paid) \in Event
  BY <1>3, BoundsAssumption DEF Marker, Plain, Event, Kinds, None, TypeOK
<1>5. /\ evs(paid) \in Seq(Event) /\ Len(evs(paid)) = L
      /\ evs(paid)[L] = mark(paid)
      /\ \A i \in 1..Len(events) : evs(paid)[i] = events[i]
  <2> HIDE DEF mark
  <2> QED BY <1>4 DEF TypeOK
<1>6. /\ call(paid) \in Call /\ call(paid).last = L /\ call(paid).resp = n
      /\ call(paid).usage = paid /\ call(paid).turn = now
  <2> HIDE DEF evs
  <2> QED BY <1>1, <1>3, <1>5 DEF CallUpTo, Reach, Call
<1> HIDE DEF mark, evs, call, L
<1>7. /\ Len(events') = L
      /\ \A i \in 1..L :
           /\ i \notin callEvents => events'[i] = evs(paid)[i]
           /\ events'[i].kind = evs(paid)[i].kind /\ events'[i].usage = evs(paid)[i].usage
  <2> DEFINE stamped == Stamped(evs(paid), n, now)
  <2>1. /\ stamped \in Seq(Event) /\ Len(stamped) = Len(evs(paid))
        /\ \A i \in 1..Len(evs(paid)) :
             /\ i \in callEvents => stamped[i].resp = n
             /\ i \notin callEvents => stamped[i] = evs(paid)[i]
             /\ stamped[i].kind = evs(paid)[i].kind
             /\ stamped[i].usage = evs(paid)[i].usage
    BY <1>3, <1>5, StampedTyped
  <2>2. events' = stamped
    BY <1>1
  <2> QED BY <1>5, <2>1, <2>2
<1>8. events'[L] = mark(paid)
  <2>1. L \in 1..L /\ L \notin callEvents
    BY <1>3 DEF L
  <2> QED BY <1>5, <1>7, <2>1
<1>9. \A i \in 1..Len(events) :
        /\ events'[i].kind = events[i].kind /\ events'[i].usage = events[i].usage
        /\ i \notin callEvents => events'[i] = events[i]
  <2>1. \A i \in 1..Len(events) : i \in 1..L
    BY <1>3 DEF L
  <2> QED BY <1>5, <1>7, <2>1
<1>10. /\ calls' = calls \/ calls' = calls \cup {call(paid)}
       /\ paid => call(paid) \in calls'
  BY <1>1
<1>11. events'[L] = [Marker(now) EXCEPT !.resp = n, !.usage = paid]
  BY <1>8 DEF mark
<1> QED BY <1>6, <1>7, <1>9, <1>10, <1>11 DEF L

LEMMA FinishEffect ==
  ASSUME TypeOK, Finish
  PROVE  /\ Len(events') = Len(events)
         /\ \A i \in 1..Len(events) :
              /\ events'[i].kind = events[i].kind
              /\ events'[i].usage = (events[i].usage \/ Counted(i))
              /\ events'[i].resp = IF i \in callEvents THEN None ELSE events[i].resp
              /\ i \notin callEvents /\ ~Counted(i) => events'[i] = events[i]
         /\ \A t \in TurnIds : /\ turns'[t].compactions = turns[t].compactions
                               /\ turns'[t].known = turns[t].known
<1> DEFINE evs == Stamped(events, None, TailTurn)
<1>1. /\ events \in Seq(Event) /\ Len(events) \in Nat /\ TailTurn \in 0..MaxTurns /\ None \in Nat
  BY TailTurnTyped DEF TypeOK, None
<1>2. /\ evs \in Seq(Event) /\ Len(evs) = Len(events)
      /\ \A i \in 1..Len(events) :
           /\ i \in callEvents => evs[i].resp = None
           /\ i \notin callEvents => evs[i] = events[i]
           /\ evs[i].kind = events[i].kind /\ evs[i].usage = events[i].usage
  BY <1>1, StampedTyped
<1>3. /\ events' = [i \in 1..Len(evs) |-> IF Counted(i) THEN [evs[i] EXCEPT !.usage = TRUE] ELSE evs[i]]
      /\ turns' = Ranges(evs)
  BY DEF Finish
<1> HIDE DEF evs
<1>4. Len(events') = Len(events)
  BY <1>1, <1>2, <1>3
<1>5. ASSUME NEW i \in 1..Len(events)
      PROVE  /\ events'[i].kind = events[i].kind
             /\ events'[i].usage = (events[i].usage \/ Counted(i))
             /\ events'[i].resp = IF i \in callEvents THEN None ELSE events[i].resp
             /\ i \notin callEvents /\ ~Counted(i) => events'[i] = events[i]
  <2>1. evs[i] \in Event /\ events[i] \in Event
    BY <1>1, <1>2
  <2>2. events'[i] = IF Counted(i) THEN [evs[i] EXCEPT !.usage = TRUE] ELSE evs[i]
    BY <1>2, <1>3
  <2>3. /\ events'[i].kind = evs[i].kind /\ events'[i].resp = evs[i].resp
        /\ Counted(i) => events'[i].usage = TRUE
        /\ ~Counted(i) => events'[i] = evs[i]
    BY <2>1, <2>2 DEF Event
  <2>4. events[i].usage \in BOOLEAN
    BY <2>1 DEF Event
  <2> QED BY <1>2, <2>3, <2>4
<1>6. ASSUME NEW t \in TurnIds
      PROVE  turns'[t].compactions = turns[t].compactions /\ turns'[t].known = turns[t].known
  <2>1. turns[t] \in Turn
    BY DEF TypeOK
  <2>2. turns'[t] = IF turns[t].known THEN Spanned(evs, t) ELSE turns[t]
    BY <1>3 DEF Ranges
  <2> QED BY <2>1, <2>2 DEF Spanned, Turn
<1> QED BY <1>4, <1>5, <1>6

-----------------------------------------------------------------------------
(***************************************************************************)
(* Bills: as long as the file is read, what is billed ends a call that is  *)
(* paid and the other way round.  Without a usage record nothing is billed *)
(* and no call closed, so that token counts may bill all calls anew.       *)
(***************************************************************************)
PaidCalls ==
  /\ \A i \in 1..Len(events) : events[i].usage => \E c \in calls : c.usage /\ c.last = i
  /\ \A c \in calls : c.usage =>
       /\ events[c.last].usage /\ events[c.last].resp = c.resp
       /\ events[c.last].turn = c.turn

BillsInv ==
  /\ ~done => PaidCalls /\ (~seenUsage => calls = {})
  /\ BillsEndCalls

LEMMA GrowthBills == IInv /\ BillsInv /\ Grows => BillsInv'
<1> SUFFICES ASSUME IInv, BillsInv, Grows PROVE BillsInv'
  OBVIOUS
<1>1. /\ ~done /\ done' = done /\ calls' = calls /\ seenUsage' = seenUsage
      /\ Len(events) <= Len(events')
      /\ \A i \in 1..Len(events) : events'[i] = events[i]
      /\ \A i \in Len(events) + 1..Len(events') : Quiet(events'[i])
      /\ events' \in Seq(Event)
  BY DEF Grows, Adds, open
<1>2. Len(events) \in Nat /\ Len(events') \in Nat
  BY <1>1 DEF IInv, TypeOK
<1>3. \A c \in calls : c.last \in 1..Len(events)
  <2> TAKE c \in calls
  <2>1. c.first \in Nat /\ c.last \in Nat /\ 1 <= c.first /\ c.first <= c.last /\ c.last <= Len(events)
    BY DEF IInv, TypeOK, Call, EventsInOneCall
  <2> QED BY <1>2, <2>1
<1>4. PaidCalls
  BY <1>1 DEF BillsInv
<1>5. \A i \in 1..Len(events') : events'[i].usage => \E c \in calls' : c.usage /\ c.last = i
  <2> SUFFICES ASSUME NEW i \in 1..Len(events'), events'[i].usage
               PROVE  \E c \in calls : c.usage /\ c.last = i
    BY <1>1
  <2>1. i \in 1..Len(events) \/ i \in Len(events) + 1..Len(events')
    BY <1>2
  <2>2. i \in 1..Len(events)
    BY <1>1, <2>1 DEF Quiet
  <2> QED BY <1>1, <1>4, <2>2 DEF PaidCalls
<1>6. PaidCalls'
  BY <1>1, <1>3, <1>4, <1>5 DEF PaidCalls
<1> QED BY <1>1, <1>6 DEF BillsInv, BillsEndCalls

LEMMA UsageBills == IInv /\ BillsInv /\ UsageRecord => BillsInv'
<1> SUFFICES ASSUME IInv, BillsInv, UsageRecord PROVE BillsInv'
  OBVIOUS
<1>1. TypeOK /\ seenUsage' = TRUE /\ ~done /\ ~done' /\ PaidCalls
  <2>1. Accept("own") /\ seenUsage' = TRUE /\ TypeOK
    BY DEF IInv, UsageRecord, ClosesCall
  <2> QED BY <2>1, AcceptTyped DEF BillsInv
<1>2. PICK paid \in BOOLEAN, call \in Call :
           /\ call.usage = paid /\ call.last = Len(events) + 1
           /\ call.resp = n /\ call.turn = now
           /\ calls' = calls \/ calls' = calls \cup {call}
           /\ paid => call \in calls'
           /\ Len(events') = Len(events) + 1
           /\ events'[Len(events) + 1] = [Marker(now) EXCEPT !.resp = n, !.usage = paid]
           /\ \A i \in 1..Len(events) :
                /\ events'[i].kind = events[i].kind /\ events'[i].usage = events[i].usage
                /\ i \notin callEvents => events'[i] = events[i]
  BY <1>1, UsageEffect
<1>3. /\ events'[call.last].usage = paid /\ events'[call.last].resp = n
      /\ events'[call.last].turn = now
  BY <1>2 DEF Marker, Plain
<1>4. \A c \in calls : c.last \in 1..Len(events) /\ c.last \notin callEvents
  <2> TAKE c \in calls
  <2>1. c.first \in Nat /\ c.last \in Nat /\ 1 <= c.first /\ c.first <= c.last /\ c.last <= Len(events)
    BY DEF IInv, TypeOK, Call, EventsInOneCall
  <2>2. c.last < callStart /\ callEvents \subseteq callStart..Len(events) /\ callStart \in Nat /\ Len(events) \in Nat
    BY <1>1 DEF IInv, CallsBehind, TypeOK
  <2> QED BY <2>1, <2>2
<1>5. Len(events) \in Nat
  BY <1>1 DEF TypeOK
<1>6. \A i \in 1..Len(events') : events'[i].usage => \E c \in calls' : c.usage /\ c.last = i
  <2> SUFFICES ASSUME NEW i \in 1..Len(events'), events'[i].usage
               PROVE  \E c \in calls' : c.usage /\ c.last = i
    OBVIOUS
  <2>1. CASE i \in 1..Len(events)
    <3>1. \E c \in calls : c.usage /\ c.last = i
      BY <1>1, <1>2, <2>1 DEF PaidCalls
    <3> QED BY <1>2, <3>1
  <2>2. CASE i = Len(events) + 1
    BY <1>2, <1>3, <2>2
  <2> QED BY <1>2, <1>5, <2>1, <2>2
<1>7. ASSUME NEW c \in calls', c.usage
      PROVE  /\ events'[c.last].usage /\ events'[c.last].resp = c.resp
             /\ events'[c.last].turn = c.turn
  <2>1. CASE c \in calls
    <3>1. events'[c.last] = events[c.last]
      BY <1>2, <1>4, <2>1
    <3> QED BY <1>1, <1>7, <2>1, <3>1 DEF PaidCalls
  <2>2. CASE c = call
    BY <1>2, <1>3, <1>7, <2>2
  <2> QED BY <1>2, <2>1, <2>2
<1>8. PaidCalls'
  BY <1>6, <1>7 DEF PaidCalls
<1> QED BY <1>1, <1>8 DEF BillsInv, BillsEndCalls

LEMMA FinishBills == IInv /\ BillsInv /\ Finish => BillsInv'
<1> SUFFICES ASSUME IInv, BillsInv, Finish PROVE BillsInv'
  OBVIOUS
<1>1. /\ TypeOK /\ ~done /\ done' = TRUE /\ latest' = latest
      /\ seenUsage' = seenUsage /\ counts' = counts
      /\ calls' = IF Fallback THEN CountedCalls ELSE calls \cup TrailingCalls
      /\ PaidCalls
  BY DEF IInv, Finish, usage, BillsInv
<1>2. Fallback' = Fallback
  BY <1>1 DEF Fallback
<1>3. /\ Len(events') = Len(events)
      /\ \A i \in 1..Len(events) :
           /\ events'[i].usage = (events[i].usage \/ Counted(i))
           /\ events'[i].resp = IF i \in callEvents THEN None ELSE events[i].resp
           /\ i \notin callEvents /\ ~Counted(i) => events'[i] = events[i]
  BY <1>1, FinishEffect
<1>4. CASE Fallback
  <2>1. calls = {} /\ ~seenUsage /\ calls' = CountedCalls
    BY <1>1, <1>4 DEF Fallback, BillsInv
  <2>2. \A i \in 1..Len(events) : ~events[i].usage /\ events[i].resp = None
    BY <1>1, <2>1 DEF PaidCalls, IInv, UsageStamps
  <2>3. ASSUME NEW i \in 1..Len(events), events'[i].usage
        PROVE  latest = None \/ \E c \in calls' : c.usage /\ c.last = i
    <3>1. Counted(i)
      BY <1>3, <2>2, <2>3
    <3>2. PICK k \in 1..Len(counts) : counts[k].at = i
      BY <3>1 DEF Counted
    <3>3. CASE Home(k) # None
      <4> DEFINE call == [turn |-> Home(k), resp |-> None, usage |-> TRUE,
                          first |-> IF k = 1 THEN 1 ELSE counts[k - 1].at + 1, last |-> counts[k].at]
      <4>1. call \in CountedCalls
        BY <3>3 DEF CountedCalls
      <4> QED BY <2>1, <3>2, <4>1
    <3>4. CASE Home(k) = None
      <4>1. counts \in Seq([at : Nat, turn : TurnIds])
        BY <1>1 DEF TypeOK
      <4>2. counts[k] \in [at : Nat, turn : TurnIds]
        BY <4>1, ElementOfSeq
      <4>3. counts[k].turn # None
        BY <4>2, BoundsAssumption DEF TurnIds, None
      <4> QED BY <3>4, <4>3 DEF Home
    <3> QED BY <3>3, <3>4
  <2>4. ASSUME NEW c \in calls' PROVE events'[c.last].usage /\ events'[c.last].resp = c.resp
    <3>1. PICK k \in 1..Len(counts) : c.last = counts[k].at /\ c.resp = None
      BY <2>1, <2>4 DEF CountedCalls
    <3>2. counts[k].at \in 1..Len(events)
      BY DEF IInv, CountsGrow
    <3>3. Counted(c.last)
      BY <1>4, <3>1 DEF Counted
    <3> QED BY <1>3, <2>2, <3>1, <3>2, <3>3
  <2> QED BY <1>1, <1>2, <1>3, <1>4, <2>3, <2>4 DEF BillsInv, BillsEndCalls
<1>5. CASE ~Fallback
  <2>1. /\ calls \subseteq calls'
        /\ \A c \in calls' : c \in calls \/ ~c.usage
    BY <1>1, <1>5 DEF TrailingCalls, CallUpTo
  <2>2. \A i \in 1..Len(events) : ~Counted(i)
    BY <1>5 DEF Counted
  <2>3. ASSUME NEW i \in 1..Len(events), events'[i].usage
        PROVE  \E c \in calls' : c.usage /\ c.last = i
    BY <1>1, <1>3, <2>1, <2>2, <2>3 DEF PaidCalls
  <2>4. ASSUME NEW c \in calls', c.usage
        PROVE  /\ events'[c.last].usage /\ events'[c.last].resp = c.resp
               /\ events'[c.last].turn = c.turn
    <3>1. c \in calls
      BY <2>1, <2>4
    <3>2. c.first \in Nat /\ c.last \in Nat /\ 1 <= c.first /\ c.first <= c.last /\ c.last <= Len(events)
      BY <3>1 DEF IInv, TypeOK, Call, EventsInOneCall
    <3>3. c.last < callStart /\ callEvents \subseteq callStart..Len(events) /\ callStart \in Nat /\ Len(events) \in Nat
      BY <1>1, <3>1 DEF IInv, CallsBehind, TypeOK
    <3>4. c.last \in 1..Len(events) /\ c.last \notin callEvents
      BY <3>2, <3>3
    <3>5. events'[c.last] = events[c.last]
      BY <1>3, <2>2, <3>4
    <3> QED BY <1>1, <2>4, <3>1, <3>5 DEF PaidCalls
  <2> QED BY <1>1, <1>2, <1>3, <1>5, <2>3, <2>4 DEF BillsInv, BillsEndCalls
<1> QED BY <1>4, <1>5

-----------------------------------------------------------------------------
(***************************************************************************)
(* Compactions.  A record is the partner of one item at most, because what *)
(* waits for a partner has none.  The turns count what the stream shows,   *)
(* because there is a latest turn whenever the program is in a turn; this  *)
(* fails only behind a parent's header, where a record that began a turn   *)
(* may have been skipped.                                                  *)
(***************************************************************************)
Headed ==
  /\ \A t \in TurnIds : turns[t].known => latest # None
  /\ untilOwn => secondMeta
  /\ ~secondMeta /\ now # None => latest # None

Paired == \A p \in pairs : p.record \in 1..Len(events) /\ p.record # compacted

CountInv == Headed /\ Paired /\ CompactionsCountedOnce

CountsStay == \A t \in TurnIds : turns'[t].compactions = turns[t].compactions
CountsOneMore(d) ==
  \A t \in TurnIds : turns'[t].compactions = turns[t].compactions + (IF t = d THEN 1 ELSE 0)

TurnsStay == latest' = latest /\ \A t \in TurnIds : turns'[t].known = turns[t].known
TurnsReach(d) ==
  latest' = LatestWith(d) /\ \A t \in TurnIds : turns'[t].known = (turns[t].known \/ t = d)

GateMoves ==
  /\ secondMeta => secondMeta'
  /\ untilOwn' => secondMeta'
  /\ now' = now \/ latest' # None \/ secondMeta'

LEMMA ReachHasLatest ==
  ASSUME Headed, NEW d \in TurnIds, TurnsReach(d)
  PROVE  latest' # None
BY BoundsAssumption DEF Headed, TurnsReach, LatestWith, TurnIds, None

LEMMA HeadedStep ==
  ASSUME Headed, GateMoves, TurnsStay \/ \E d \in TurnIds : TurnsReach(d)
  PROVE  Headed'
<1>1. CASE TurnsStay
  BY <1>1 DEF Headed, GateMoves, TurnsStay
<1>2. CASE \E d \in TurnIds : TurnsReach(d)
  BY <1>2, ReachHasLatest DEF Headed, GateMoves
<1> QED BY <1>1, <1>2

LEMMA CountsTyped ==
  ASSUME TypeOK
  PROVE  /\ [t \in TurnIds |-> turns[t].compactions] \in [TurnIds -> Nat]
         /\ IsFiniteSet(TurnIds)
         /\ IsFiniteSet(CompactionEvents) /\ Len(events) + 1 \notin CompactionEvents
<1>1. \A t \in TurnIds : turns[t].compactions \in Nat
  BY DEF TypeOK, Turn
<1>2. IsFiniteSet(TurnIds)
  BY BoundsAssumption, FS_Interval DEF TurnIds
<1>3. Len(events) \in Nat
  BY DEF TypeOK
<1>4. CompactionEvents \subseteq 1..Len(events) /\ IsFiniteSet(1..Len(events))
  BY <1>3, FS_Interval DEF CompactionEvents
<1>5. IsFiniteSet(CompactionEvents)
  BY <1>4, FS_Subset
<1> QED BY <1>1, <1>2, <1>3, <1>4, <1>5

LEMMA CountStays ==
  ASSUME CountsStay
  PROVE  CountOf(turns)' = CountOf(turns)
<1> DEFINE f == [t \in TurnIds |-> turns[t].compactions]
<1>1. [t \in TurnIds |-> turns'[t].compactions] = f
  BY DEF CountsStay
<1>2. CountOf(turns) = Sums(f)[TurnIds]
  BY CountIsSum
<1>3. CountOf(turns)' = Sums(f)[TurnIds]
  BY <1>1, CountIsSum
<1> QED BY <1>2, <1>3

LEMMA CountGrows ==
  ASSUME TypeOK, TypeOK', NEW d \in TurnIds, CountsOneMore(d)
  PROVE  CountOf(turns) \in Nat /\ CountOf(turns)' = CountOf(turns) + 1
<1> DEFINE f == [t \in TurnIds |-> turns[t].compactions]
           g == [t \in TurnIds |-> turns'[t].compactions]
<1>1. f \in [TurnIds -> Nat] /\ IsFiniteSet(TurnIds)
  BY CountsTyped
<1>2. g \in [TurnIds -> Nat]
  BY DEF TypeOK, Turn
<1>3. \A t \in TurnIds : g[t] = f[t] + (IF t = d THEN 1 ELSE 0)
  BY DEF CountsOneMore
<1>4. CountOf(turns) = Sums(f)[TurnIds] /\ CountOf(turns)' = Sums(g)[TurnIds]
  BY CountIsSum
<1> HIDE DEF f, g
<1>5. /\ Sums(f)[TurnIds] \in Nat
      /\ Sums(g)[TurnIds] = Sums(f)[TurnIds] + (IF d \in TurnIds THEN 1 ELSE 0)
  BY <1>1, <1>2, <1>3, SumOfOneMore
<1> QED BY <1>4, <1>5

\* The two ways to keep the count, and what is enough where nobody is paired.
LEMMA CountedStep ==
  ASSUME TypeOK, TypeOK', CountInv, GateMoves,
         TurnsStay \/ \E d \in TurnIds : TurnsReach(d),
         Len(events) <= Len(events'), UNCHANGED <<pairs, compacted>>,
         \/ secondMeta'
         \/ CountsStay /\ CompactionEvents' = CompactionEvents
         \/ /\ \E d \in TurnIds : CountsOneMore(d)
            /\ CompactionEvents' = CompactionEvents \cup {Len(events) + 1}
  PROVE  CountInv'
<1>1. Headed'
  BY HeadedStep DEF CountInv
<1>2. Paired'
  <2>1. Len(events) \in Nat /\ Len(events') \in Nat
    BY DEF TypeOK
  <2> QED BY <2>1 DEF CountInv, Paired
<1>3. ~secondMeta' => CountOf(turns)' = Cardinality(CompactionEvents)'
  <2> SUFFICES ASSUME ~secondMeta' PROVE CountOf(turns)' = Cardinality(CompactionEvents)'
    OBVIOUS
  <2>1. CountOf(turns) = Cardinality(CompactionEvents)
    BY DEF CountInv, CompactionsCountedOnce, GateMoves
  <2>2. CASE CountsStay /\ CompactionEvents' = CompactionEvents
    BY <2>1, <2>2, CountStays
  <2>3. CASE /\ \E d \in TurnIds : CountsOneMore(d)
             /\ CompactionEvents' = CompactionEvents \cup {Len(events) + 1}
    <3>1. CountOf(turns)' = CountOf(turns) + 1
      BY <2>3, CountGrows
    <3>2. Cardinality(CompactionEvents \cup {Len(events) + 1}) = Cardinality(CompactionEvents) + 1
      BY CountsTyped, FS_AddElement
    <3> QED BY <2>1, <2>3, <3>1, <3>2
  <2> QED BY <2>2, <2>3
<1>4. CompactionsCountedOnce'
  BY <1>3 DEF CountInv, CompactionsCountedOnce
<1> QED BY <1>1, <1>2, <1>4 DEF CountInv

LEMMA EnsuredKeeps ==
  ASSUME TypeOK, NEW t \in TurnIds, NEW next
  PROVE  \A u \in TurnIds :
           /\ EnsuredAt(t, next)[u].compactions = turns[u].compactions
           /\ EnsuredAt(t, next)[u].known = (turns[u].known \/ u = t)
BY DEF TypeOK, Turn, EnsuredAt

LEMMA GivenKeeps ==
  ASSUME NEW tn \in [TurnIds -> Turn], NEW kind
  PROVE  \A u \in TurnIds : /\ Given(tn, kind)[u].compactions = tn[u].compactions
                            /\ Given(tn, kind)[u].known = tn[u].known
BY DEF Turn, Given

\* A record of the current turn may leave the turns as they are or reach the turn.
LEMMA ReachesTurn ==
  ASSUME TypeOK, InTurn, latest' = LatestWith(now),
         NEW next \in Nat,
         \/ turns' = EnsuredAt(now, next)
         \/ \E kind : turns' = Given(EnsuredAt(now, next), kind)
         \/ \E status : turns' = [EnsuredAt(now, next) EXCEPT ![now].status = status]
  PROVE  CountsStay /\ TurnsReach(now)
<1>1. now \in TurnIds /\ EnsuredAt(now, next) \in [TurnIds -> Turn]
  BY InTurnTyped, EnsuredTyped DEF TypeOK
<1>2. \A u \in TurnIds : /\ EnsuredAt(now, next)[u].compactions = turns[u].compactions
                         /\ EnsuredAt(now, next)[u].known = (turns[u].known \/ u = now)
  BY <1>1, EnsuredKeeps
<1>3. \A u \in TurnIds : /\ turns'[u].compactions = EnsuredAt(now, next)[u].compactions
                         /\ turns'[u].known = EnsuredAt(now, next)[u].known
  <2>1. CASE turns' = EnsuredAt(now, next)
    BY <2>1
  <2>2. CASE \E kind : turns' = Given(EnsuredAt(now, next), kind)
    BY <1>1, <2>2, GivenKeeps
  <2>3. CASE \E status : turns' = [EnsuredAt(now, next) EXCEPT ![now].status = status]
    BY <1>1, <2>3 DEF Turn
  <2> QED BY <2>1, <2>2, <2>3
<1> QED BY <1>2, <1>3 DEF CountsStay, TurnsReach

LEMMA NewEvent ==
  ASSUME TypeOK, NEW e, Note(e) \/ Collect(e)
  PROVE  /\ Len(events') = Len(events) + 1
         /\ e.kind # "compaction" => CompactionEvents' = CompactionEvents
         /\ e.kind = "compaction" => CompactionEvents' = CompactionEvents \cup {Len(events) + 1}
<1>1. events' = Append(events, e) /\ events \in Seq(Event) /\ Len(events) \in Nat
  BY DEF TypeOK, Note, Collect
<1>2. /\ Len(events') = Len(events) + 1 /\ events'[Len(events) + 1] = e
      /\ \A i \in 1..Len(events) : events'[i] = events[i]
  BY <1>1
<1>3. \A i \in 1..Len(events') : i \in 1..Len(events) \/ i = Len(events) + 1
  BY <1>1, <1>2
<1>4. \A i : i \in CompactionEvents' <=>
               i \in CompactionEvents \/ (i = Len(events) + 1 /\ e.kind = "compaction")
  BY <1>1, <1>2, <1>3 DEF CompactionEvents
<1> QED BY <1>2, <1>4

LEMMA PlainKind ==
  ASSUME NEW kind, NEW t, NEW g
  PROVE  /\ Plain(kind, t).kind = kind /\ [Plain(kind, t) EXCEPT !.group = g].kind = kind
         /\ Marker(t).kind = "meta"
BY DEF Plain, Marker

LEMMA AcceptGate ==
  ASSUME Headed, NEW thread, Accept(thread), now' = now \/ latest' # None
  PROVE  GateMoves
BY DEF Headed, Accept, GateMoves

\* Records of the current turn that are neither a compaction nor its partner.
LEMMA OrdinaryRecord ==
  ASSUME TypeOK, TypeOK', CountInv, NEW thread, Accept(thread), InTurn,
         UNCHANGED <<pairs, compacted>>,
         CompactionEvents' = CompactionEvents, Len(events) <= Len(events'),
         UNCHANGED <<turns, latest>> \/ (CountsStay /\ TurnsReach(now))
  PROVE  CountInv'
<1>1. GateMoves
  BY AcceptGate DEF CountInv, InTurn
<1>2. CountsStay /\ (TurnsStay \/ \E d \in TurnIds : TurnsReach(d))
  BY InTurnTyped DEF CountsStay, TurnsStay
<1> QED BY <1>1, <1>2, CountedStep

LEMMA NotedCounts ==
  TypeOK /\ TypeOK' /\ CountInv /\ (TurnContext \/ TaskEnds \/ ExecOpens \/ ExecCloses \/ TokenCount)
    => CountInv'
<1> SUFFICES ASSUME TypeOK, TypeOK', CountInv,
                    TurnContext \/ TaskEnds \/ ExecOpens \/ ExecCloses \/ TokenCount
             PROVE  CountInv'
  OBVIOUS
<1>1. Accept("none") /\ InTurn /\ UNCHANGED <<pairs, compacted>>
  BY DEF TurnContext, TaskEnds, ExecOpens, ExecCloses, TokenCount, items
<1>2. \E e : e.kind # "compaction" /\ Note(e)
  <2>1. CASE TurnContext \/ TaskEnds \/ TokenCount
    BY <2>1, PlainKind DEF TurnContext, TaskEnds, TokenCount
  <2>2. CASE ExecOpens
    BY <2>2, PlainKind DEF ExecOpens
  <2>3. CASE ExecCloses
    BY <2>3, PlainKind DEF ExecCloses
  <2> QED BY <2>1, <2>2, <2>3
<1>3. CompactionEvents' = CompactionEvents /\ Len(events) <= Len(events')
  <2>1. CompactionEvents' = CompactionEvents /\ Len(events') = Len(events) + 1
    BY <1>2, NewEvent
  <2>2. Len(events) \in Nat
    BY DEF TypeOK
  <2> QED BY <2>1, <2>2
<1>4. UNCHANGED <<turns, latest>> \/ (CountsStay /\ TurnsReach(now))
  <2>1. CASE ExecOpens \/ ExecCloses \/ TokenCount
    BY <2>1 DEF ExecOpens, ExecCloses, TokenCount
  <2>2. CASE TurnContext \/ TaskEnds
    <3>1. Len(events) + 1 \in Nat /\ latest' = LatestWith(now)
      BY <1>1, <2>2, InTurnTyped DEF TurnContext, TaskEnds
    <3>2. \/ turns' = EnsuredAt(now, Len(events) + 1)
          \/ \E status : turns' = [EnsuredAt(now, Len(events) + 1) EXCEPT ![now].status = status]
      BY <2>2 DEF TurnContext, TaskEnds, Ensured
    <3> QED BY <1>1, <3>1, <3>2, ReachesTurn
  <2> QED BY <2>1, <2>2
<1> QED BY <1>1, <1>3, <1>4, OrdinaryRecord

LEMMA ItemCounts ==
  TypeOK /\ TypeOK' /\ CountInv /\ (UserMessage \/ OneEventItem \/ Operation \/ UnknownItem \/ CollabItem)
    => CountInv'
<1> SUFFICES ASSUME TypeOK, TypeOK', CountInv,
                    UserMessage \/ OneEventItem \/ Operation \/ UnknownItem \/ CollabItem
             PROVE  CountInv'
  OBVIOUS
<1>1. Accept("own") /\ InTurn /\ UNCHANGED <<pairs, compacted>>
  BY DEF UserMessage, OneEventItem, Operation, UnknownItem, CollabItem, Item
<1>2. Len(events) \in Nat /\ events \in Seq(Event)
  BY DEF TypeOK
<1>3. CompactionEvents' = CompactionEvents /\ Len(events) <= Len(events')
  <2>1. CASE UNCHANGED events
    BY <1>2, <2>1 DEF CompactionEvents
  <2>2. CASE \E e : e.kind # "compaction" /\ Collect(e)
    <3>1. CompactionEvents' = CompactionEvents /\ Len(events') = Len(events) + 1
      BY <2>2, NewEvent
    <3> QED BY <1>2, <3>1
  <2>3. CASE \E e, f : /\ e.kind # "compaction" /\ f.kind # "compaction"
                       /\ events' = Append(Append(events, e), f)
    <3>1. PICK e, f : /\ e.kind # "compaction" /\ f.kind # "compaction"
                      /\ events' = Append(Append(events, e), f)
      BY <2>3
    <3>2. /\ Len(events') = Len(events) + 2
          /\ \A i \in 1..Len(events) : events'[i] = events[i]
          /\ events'[Len(events) + 1] = e /\ events'[Len(events) + 2] = f
      BY <1>2, <3>1
    <3>3. \A i \in 1..Len(events') :
             i \in 1..Len(events) \/ i = Len(events) + 1 \/ i = Len(events) + 2
      BY <1>2, <3>2
    <3>4. \A i : i \in CompactionEvents' <=> i \in CompactionEvents
      BY <1>2, <3>1, <3>2, <3>3 DEF CompactionEvents
    <3>5. CompactionEvents' = CompactionEvents
      BY <3>4
    <3> QED BY <1>2, <3>2, <3>5
  <2>4. UNCHANGED events
        \/ (\E e : e.kind # "compaction" /\ Collect(e))
        \/ (\E e, f : /\ e.kind # "compaction" /\ f.kind # "compaction"
                      /\ events' = Append(Append(events, e), f))
    <3>1. CASE UserMessage
      BY <3>1, PlainKind DEF UserMessage
    <3>2. CASE OneEventItem
      <4>1. PICK kind \in {"assistant_msg", "tool_call", "tool_result", "meta"} : Collect(Plain(kind, now))
        BY <3>2 DEF OneEventItem
      <4>2. Plain(kind, now).kind # "compaction"
        BY PlainKind
      <4> QED BY <4>1, <4>2
    <3>3. CASE Operation
      BY <3>3, PlainKind DEF Operation
    <3>4. CASE UnknownItem
      BY <3>4 DEF UnknownItem
    <3>5. CASE CollabItem
      BY <3>5, PlainKind DEF CollabItem
    <3> QED BY <3>1, <3>2, <3>3, <3>4, <3>5
  <2> QED BY <2>1, <2>2, <2>3, <2>4
<1>4. UNCHANGED <<turns, latest>> \/ (CountsStay /\ TurnsReach(now))
  <2>1. \/ UNCHANGED <<turns, latest>>
        \/ /\ latest' = LatestWith(now)
           /\ \/ turns' = EnsuredAt(now, Len(events) + 1)
              \/ \E kind : turns' = Given(EnsuredAt(now, Len(events) + 1), kind)
    BY DEF UserMessage, OneEventItem, Operation, UnknownItem, CollabItem, Ensured
  <2>2. Len(events) + 1 \in Nat
    BY <1>2
  <2> QED BY <1>1, <2>1, <2>2, ReachesTurn
<1> QED BY <1>1, <1>3, <1>4, OrdinaryRecord

LEMMA AgentCounts ==
  TypeOK /\ TypeOK' /\ CountInv /\ (AgentFunction \/ AgentMessage) => CountInv'
<1> SUFFICES ASSUME TypeOK, TypeOK', CountInv, AgentFunction \/ AgentMessage
             PROVE  CountInv'
  OBVIOUS
<1>1. Accept("none") /\ InTurn /\ UNCHANGED <<pairs, compacted>> /\ Len(events) \in Nat
  BY DEF AgentFunction, AgentMessage, items, TypeOK
<1>2. \E kind \in {"tool_call", "user_msg", "tool_result", "assistant_msg"} : Collect(Plain(kind, None))
  BY DEF AgentFunction, AgentMessage
<1>3. CompactionEvents' = CompactionEvents /\ Len(events') = Len(events) + 1
  BY <1>2, PlainKind, NewEvent
<1>4. UNCHANGED <<turns, latest>> \/ (CountsStay /\ TurnsReach(now))
  <2>1. \/ UNCHANGED <<turns, latest>>
        \/ /\ latest' = LatestWith(now)
           /\ \E kind : turns' = Given(EnsuredAt(now, Len(events) + 2), kind)
    BY DEF AgentFunction, AgentMessage
  <2>2. Len(events) + 2 \in Nat
    BY <1>1
  <2> QED BY <1>1, <2>1, <2>2, ReachesTurn
<1>5. Len(events) <= Len(events')
  BY <1>1, <1>3
<1> QED BY <1>1, <1>3, <1>4, <1>5, OrdinaryRecord

LEMMA TaskStartedCounts == TypeOK /\ TypeOK' /\ CountInv /\ TaskStarted => CountInv'
<1> SUFFICES ASSUME TypeOK, TypeOK', CountInv, TaskStarted PROVE CountInv'
  OBVIOUS
<1> DEFINE d == now + 1
<1>1. /\ Accept("none") /\ UNCHANGED <<pairs, compacted>> /\ Len(events) \in Nat /\ now < MaxTurns
      /\ turns' = EnsuredAt(d, Len(events) + 1) /\ latest' = LatestWith(d) /\ Note(Marker(d))
  BY DEF TaskStarted, items, TypeOK, Ensured
<1>2. d \in TurnIds
  <2>1. now \in 0..MaxTurns /\ MaxTurns \in Nat
    BY BoundsAssumption DEF TypeOK
  <2> QED BY <1>1, <2>1 DEF TurnIds
<1> HIDE DEF d
<1>3. CountsStay /\ TurnsReach(d)
  BY <1>1, <1>2, EnsuredKeeps DEF CountsStay, TurnsReach
<1>4. CompactionEvents' = CompactionEvents /\ Len(events') = Len(events) + 1
  BY <1>1, PlainKind, NewEvent
<1>5. GateMoves
  <2>1. latest' # None
    BY <1>2, <1>3, ReachHasLatest DEF CountInv
  <2> QED BY <1>1, <2>1, AcceptGate DEF CountInv
<1>6. Len(events) <= Len(events')
  BY <1>1, <1>4
<1> QED BY <1>1, <1>2, <1>3, <1>4, <1>5, <1>6, CountedStep

LEMMA CompactedCounts == TypeOK /\ TypeOK' /\ CountInv /\ Compacted => CountInv'
<1> SUFFICES ASSUME TypeOK, TypeOK', CountInv, Compacted PROVE CountInv'
  OBVIOUS
<1>1. /\ Accept("none") /\ InTurn /\ latest' = latest /\ pairs' = pairs /\ compacted' = Len(events) + 1
      /\ Collect([Plain("compaction", None) EXCEPT !.group = None])
      /\ turns' = IF latest = None THEN turns ELSE [turns EXCEPT ![latest].compactions = @ + 1]
      /\ Len(events) \in Nat /\ turns \in [TurnIds -> Turn]
  BY DEF Compacted, TypeOK
<1>2. /\ Len(events') = Len(events) + 1
      /\ CompactionEvents' = CompactionEvents \cup {Len(events) + 1}
  <2>1. [Plain("compaction", None) EXCEPT !.group = None].kind = "compaction"
    BY PlainKind
  <2> QED BY <1>1, <2>1, NewEvent
<1>3. TurnsStay /\ (latest # None => \E d \in TurnIds : CountsOneMore(d))
  <2>1. CASE latest = None
    BY <1>1, <2>1 DEF TurnsStay
  <2>2. CASE latest # None
    <3>1. latest \in TurnIds
      <4>1. latest \in 0..MaxTurns /\ MaxTurns \in Nat
        BY BoundsAssumption DEF TypeOK
      <4> QED BY <2>2, <4>1 DEF TurnIds, None
    <3>2. turns' = [turns EXCEPT ![latest].compactions = @ + 1]
      BY <1>1, <2>2
    <3>3. CountsOneMore(latest) /\ TurnsStay
      BY <1>1, <3>1, <3>2 DEF CountsOneMore, TurnsStay, Turn
    <3> QED BY <3>1, <3>3
  <2> QED BY <2>1, <2>2
<1>4. GateMoves
  BY <1>1, AcceptGate DEF CountInv, InTurn
<1>5. Headed'
  BY <1>3, <1>4, HeadedStep DEF CountInv
<1>6. Paired'
  BY <1>1, <1>2 DEF CountInv, Paired
<1>7. CompactionsCountedOnce'
  <2>1. \A p, q \in pairs' : p.record = q.record => p = q
    BY <1>1 DEF CountInv, CompactionsCountedOnce
  <2>2. ASSUME ~secondMeta' PROVE CountOf(turns)' = Cardinality(CompactionEvents)'
    <3>1. ~secondMeta /\ latest # None
      BY <1>1, <1>4, <2>2 DEF GateMoves, CountInv, Headed, InTurn
    <3>2. CountOf(turns)' = CountOf(turns) + 1
      BY <1>3, <3>1, CountGrows
    <3>3. CountOf(turns) = Cardinality(CompactionEvents)
      BY <3>1 DEF CountInv, CompactionsCountedOnce
    <3>4. Cardinality(CompactionEvents \cup {Len(events) + 1}) = Cardinality(CompactionEvents) + 1
      BY CountsTyped, FS_AddElement
    <3> QED BY <1>2, <3>2, <3>3, <3>4
  <2> QED BY <2>1, <2>2 DEF CompactionsCountedOnce
<1> QED BY <1>5, <1>6, <1>7 DEF CountInv

LEMMA CompactionItemCounts == TypeOK /\ TypeOK' /\ CountInv /\ CompactionItem => CountInv'
<1> SUFFICES ASSUME TypeOK, TypeOK', CountInv, CompactionItem PROVE CountInv'
  OBVIOUS
<1>1. Accept("own") /\ InTurn /\ Len(events) \in Nat /\ now \in TurnIds /\ (PairedItem \/ LoneItem)
  <2>1. Accept("own") /\ InTurn /\ (PairedItem \/ LoneItem)
    BY DEF CompactionItem, Item
  <2>2. Len(events) \in Nat
    BY DEF TypeOK
  <2> QED BY <2>1, <2>2, InTurnTyped
<1>2. GateMoves
  BY <1>1, AcceptGate DEF CountInv, InTurn
<1>3. CASE PairedItem
  <2>1. /\ compacted # None /\ compacted' = None /\ UNCHANGED <<turns, latest>>
        /\ pairs' = pairs \cup {[record |-> compacted, item |-> Len(events) + 1]}
        /\ Note(Marker(now))
    BY <1>3 DEF PairedItem, Pairs, Near
  <2>2. Len(events') = Len(events) + 1 /\ CompactionEvents' = CompactionEvents
    BY <2>1, PlainKind, NewEvent
  <2>3. compacted \in 1..Len(events)
    BY <1>1, <2>1 DEF TypeOK, None
  <2>4. Headed'
    <3>1. TurnsStay
      BY <2>1 DEF TurnsStay
    <3> QED BY <1>2, <3>1, HeadedStep DEF CountInv
  <2>5. Paired'
    BY <1>1, <2>1, <2>2, <2>3 DEF CountInv, Paired, None
  <2>6. \A p, q \in pairs' : p.record = q.record => p = q
    BY <2>1 DEF CountInv, Paired, CompactionsCountedOnce
  <2>7. ~secondMeta' => CountOf(turns)' = Cardinality(CompactionEvents)'
    BY <1>2, <2>1, <2>2 DEF GateMoves, CountInv, CompactionsCountedOnce
  <2> QED BY <2>4, <2>5, <2>6, <2>7 DEF CountInv, CompactionsCountedOnce
<1>4. CASE LoneItem
  <2>1. /\ turns' = [EnsuredAt(now, Len(events) + 1) EXCEPT ![now].compactions = @ + 1]
        /\ latest' = LatestWith(now) /\ Collect(Plain("compaction", now))
        /\ UNCHANGED <<compacted, pairs>>
    BY <1>4 DEF LoneItem, Ensured
  <2>2. EnsuredAt(now, Len(events) + 1) \in [TurnIds -> Turn]
    <3>1. turns \in [TurnIds -> Turn]
      BY DEF TypeOK
    <3>2. Len(events) + 1 \in Nat
      BY <1>1
    <3> QED BY <1>1, <3>1, <3>2, EnsuredTyped
  <2>3. CountsOneMore(now) /\ TurnsReach(now)
    <3>1. \A u \in TurnIds :
            /\ turns'[u].compactions = EnsuredAt(now, Len(events) + 1)[u].compactions + (IF u = now THEN 1 ELSE 0)
            /\ turns'[u].known = EnsuredAt(now, Len(events) + 1)[u].known
      BY <1>1, <2>1, <2>2 DEF Turn
    <3>2. \A u \in TurnIds :
            /\ EnsuredAt(now, Len(events) + 1)[u].compactions = turns[u].compactions
            /\ EnsuredAt(now, Len(events) + 1)[u].known = (turns[u].known \/ u = now)
      BY <1>1, EnsuredKeeps
    <3> QED BY <2>1, <3>1, <3>2 DEF CountsOneMore, TurnsReach
  <2>4. /\ Len(events') = Len(events) + 1
        /\ CompactionEvents' = CompactionEvents \cup {Len(events) + 1}
    BY <2>1, PlainKind, NewEvent
  <2>5. Len(events) <= Len(events')
    BY <1>1, <2>4
  <2> QED BY <1>1, <1>2, <2>1, <2>3, <2>4, <2>5, CountedStep
<1> QED BY <1>1, <1>3, <1>4

LEMMA ForeignCounts ==
  TypeOK /\ TypeOK' /\ CountInv /\ (ParentMeta \/ SkipParents \/ SkipOwn \/ ForeignUsage) => CountInv'
<1> SUFFICES ASSUME TypeOK, TypeOK', CountInv, ParentMeta \/ SkipParents \/ SkipOwn \/ ForeignUsage
             PROVE  CountInv'
  OBVIOUS
<1>1. /\ UNCHANGED <<turns, latest, pairs, compacted>> /\ Len(events) \in Nat
      /\ UNCHANGED events \/ events' = Append(events, Marker(None))
  <2>1. CASE ParentMeta \/ ForeignUsage
    BY <2>1 DEF ParentMeta, ForeignUsage, items, story, TypeOK
  <2>2. CASE SkipParents \/ SkipOwn
    <3>1. PICK thread, summary : Skip(thread, summary)
      BY <2>2 DEF SkipParents, SkipOwn
    <3> QED BY <3>1 DEF Skip, items, TypeOK
  <2> QED BY <2>1, <2>2
<1>2. CompactionEvents' = CompactionEvents /\ Len(events) <= Len(events')
  <2>1. CASE UNCHANGED events
    BY <1>1, <2>1 DEF CompactionEvents
  <2>2. CASE events' = Append(events, Marker(None))
    <3>1. /\ Len(events') = Len(events) + 1 /\ events'[Len(events) + 1] = Marker(None)
          /\ \A i \in 1..Len(events) : events'[i] = events[i]
      BY <2>2 DEF TypeOK
    <3>2. Marker(None).kind # "compaction"
      BY PlainKind
    <3>3. \A i \in 1..Len(events') : i \in 1..Len(events) \/ i = Len(events) + 1
      BY <1>1, <3>1
    <3>4. \A i : i \in CompactionEvents' <=> i \in CompactionEvents
      BY <1>1, <3>1, <3>2, <3>3 DEF CompactionEvents
    <3>5. CompactionEvents' = CompactionEvents
      BY <3>4
    <3> QED BY <1>1, <3>1, <3>5
  <2> QED BY <1>1, <2>1, <2>2
<1>3. GateMoves
  <2>1. CASE ParentMeta
    BY <2>1 DEF ParentMeta, GateMoves
  <2>2. CASE ForeignUsage \/ SkipParents
    BY <2>2 DEF ForeignUsage, SkipParents, Skip, GateMoves, CountInv, Headed, gate
  <2>3. CASE SkipOwn
    <3>1. PICK summary \in BOOLEAN : Skip("none", summary)
      BY <2>3 DEF SkipOwn
    <3>2. n \in Nat /\ n >= start /\ start \in Nat
      BY <2>3, StartsAssumption DEF SkipOwn, OwnTime, TypeOK
    <3>3. secondMeta \/ untilOwn
      BY <3>1, <3>2 DEF Skip, InReplay
    <3> QED BY <3>1, <3>3 DEF Skip, GateMoves, CountInv, Headed, gate
  <2> QED BY <2>1, <2>2, <2>3
<1>4. CountsStay /\ TurnsStay
  BY <1>1 DEF CountsStay, TurnsStay
<1> QED BY <1>1, <1>2, <1>3, <1>4, CountedStep

LEMMA UsageCounts == TypeOK /\ TypeOK' /\ CountInv /\ UsageRecord => CountInv'
<1> SUFFICES ASSUME TypeOK, TypeOK', CountInv, UsageRecord PROVE CountInv'
  OBVIOUS
<1>1. /\ Accept("own") /\ InTurn /\ UNCHANGED <<pairs, compacted>> /\ Len(events) \in Nat
      /\ turns' = EnsuredAt(now, Len(events) + 1) /\ latest' = LatestWith(now)
  BY DEF UsageRecord, ClosesCall, items, Ensured, TypeOK
<1>2. CountsStay /\ TurnsReach(now)
  BY <1>1, ReachesTurn
<1>3. /\ Len(events') = Len(events) + 1
      /\ events'[Len(events) + 1].kind = "meta"
      /\ \A i \in 1..Len(events) : events'[i].kind = events[i].kind
  <2>1. PICK paid \in BOOLEAN :
          /\ Len(events') = Len(events) + 1
          /\ events'[Len(events) + 1] = [Marker(now) EXCEPT !.resp = n, !.usage = paid]
          /\ \A i \in 1..Len(events) : events'[i].kind = events[i].kind
    BY UsageEffect
  <2>2. [Marker(now) EXCEPT !.resp = n, !.usage = paid].kind = "meta"
    BY DEF Marker, Plain
  <2> QED BY <2>1, <2>2
<1>4. \A i \in 1..Len(events') : i \in 1..Len(events) \/ i = Len(events) + 1
  BY <1>1, <1>3
<1>5. CompactionEvents' = CompactionEvents
  <2>1. \A i : i \in CompactionEvents' <=> i \in CompactionEvents
    BY <1>1, <1>3, <1>4 DEF CompactionEvents
  <2> QED BY <2>1
<1>6. Len(events) <= Len(events')
  BY <1>1, <1>3
<1> QED BY <1>1, <1>2, <1>5, <1>6, OrdinaryRecord

LEMMA FinishCounts == TypeOK /\ TypeOK' /\ CountInv /\ Finish => CountInv'
<1> SUFFICES ASSUME TypeOK, TypeOK', CountInv, Finish PROVE CountInv'
  OBVIOUS
<1>1. UNCHANGED <<now, secondMeta, untilOwn, latest, pairs, compacted>> /\ Len(events) \in Nat
  BY DEF Finish, gate, items, story, TypeOK
<1>2. /\ Len(events') = Len(events)
      /\ \A i \in 1..Len(events) : events'[i].kind = events[i].kind
      /\ \A t \in TurnIds : /\ turns'[t].compactions = turns[t].compactions
                            /\ turns'[t].known = turns[t].known
  BY FinishEffect
<1>3. CompactionEvents' = CompactionEvents
  BY <1>2 DEF CompactionEvents
<1>4. CountsStay /\ TurnsStay /\ GateMoves
  BY <1>1, <1>2 DEF CountsStay, TurnsStay, GateMoves, CountInv, Headed
<1>5. Len(events) <= Len(events')
  BY <1>1, <1>2
<1> QED BY <1>1, <1>3, <1>4, <1>5, CountedStep

-----------------------------------------------------------------------------
(***************************************************************************)
(* The theorems.                                                           *)
(***************************************************************************)
LEMMA InitInv == Init => IInv
<1> SUFFICES ASSUME Init PROVE IInv
  OBVIOUS
<1>1. /\ events = <<>> /\ Len(events) = 0 /\ calls = {} /\ counts = <<>> /\ Len(counts) = 0
      /\ callStart = 1 /\ callEvents = {} /\ done = FALSE
  BY DEF Init
<1>2. TypeOK
  <2>1. turns \in [TurnIds -> Turn]
    BY DEF Init, Turn, Inputs
  <2>2. events \in Seq(Event) /\ counts \in Seq([at : Nat, turn : TurnIds])
    BY <1>1
  <2>3. n \in Nat /\ now \in 0..MaxTurns /\ latest \in 0..MaxTurns /\ start \in Starts
    BY BoundsAssumption DEF Init, None
  <2>4. {mine, done, secondMeta, untilOwn, seenUsage, seenItem, heard, lost} \subseteq BOOLEAN
    BY DEF Init
  <2>5. /\ callStart \in 1..Len(events) + 1 /\ callEvents \subseteq callStart..Len(events)
        /\ agentCalls \subseteq Nat /\ group \in Nat /\ compacted \in 0..Len(events)
        /\ calls \subseteq Call /\ pairs \subseteq [record : Nat, item : Nat]
    BY <1>1 DEF Init, None
  <2> QED BY <2>1, <2>2, <2>3, <2>4, <2>5 DEF TypeOK
<1> QED BY <1>1, <1>2 DEF IInv, EventsInOneCall, CallsBehind, CountsGrow, UsageStamps,
                          StampsMatchCalls, TurnsCoverTheirEvents

LEMMA OnlyGrowth ==
  TypeOK /\ [Next]_vars => (Grows /\ RestTyped) \/ UsageRecord \/ Finish \/ UNCHANGED vars
<1> SUFFICES ASSUME TypeOK, [Next]_vars
             PROVE  (Grows /\ RestTyped) \/ UsageRecord \/ Finish \/ UNCHANGED vars
  OBVIOUS
<1>1. CASE ParentMeta \/ SkipParents \/ SkipOwn \/ ForeignUsage
  BY <1>1, ForeignGrows
<1>2. CASE TaskStarted \/ TurnContext \/ TaskEnds \/ ExecOpens \/ ExecCloses \/ TokenCount
  BY <1>2, TaskStartedGrows, TurnContextGrows, TaskEndsGrows, ExecOpensGrows,
     ExecClosesGrows, TokenCountGrows
<1>3. CASE UserMessage \/ OneEventItem \/ Operation \/ UnknownItem \/ CollabItem \/ CompactionItem
  BY <1>3, UserMessageGrows, OneEventItemGrows, OperationGrows, UnknownItemGrows,
     CollabItemGrows, CompactionItemGrows
<1>4. CASE Compacted \/ AgentFunction \/ AgentMessage
  BY <1>4, CompactedGrows, AgentFunctionGrows, AgentMessageGrows
<1> QED BY <1>1, <1>2, <1>3, <1>4 DEF Next

LEMMA StepInv == IInv /\ [Next]_vars => IInv'
<1> SUFFICES ASSUME IInv, [Next]_vars PROVE IInv'
  OBVIOUS
<1>1. CASE Grows /\ RestTyped
  BY <1>1, GrowthPreserves
<1>2. CASE UNCHANGED vars
  BY <1>2 DEF vars, file, gate, open, usage, items, story, IInv, TypeOK, EventsInOneCall, CallsBehind,
              CountsGrow, UsageStamps, StampsMatchCalls, TurnsCoverTheirEvents, Counted, Fallback
<1>3. CASE UsageRecord
  BY <1>3, UsagePreserves
<1>4. CASE Finish
  BY <1>4, FinishPreserves
<1> QED BY <1>1, <1>2, <1>3, <1>4, OnlyGrowth DEF IInv

LEMMA Inv == Spec => []IInv
BY InitInv, StepInv, PTL DEF Spec

\* For files of any length: every variable keeps its type, and what waits for a
\* usage record lies in the stream, behind the last call.
THEOREM DecoderTypes == Spec => []TypeOK
<1>1. IInv => TypeOK
  BY DEF IInv
<1> QED BY <1>1, Inv, PTL

\* No event is in two model calls, and calls lie in the stream; whether they come
\* from usage records, from the end of the file or from token counts.
THEOREM CallsAreDisjoint == Spec => []EventsInOneCall
<1>1. IInv => EventsInOneCall
  BY DEF IInv
<1> QED BY <1>1, Inv, PTL

\* An event that carries a response's id lies in a call of that response.
THEOREM StampsAreInTheirCalls == Spec => []StampsMatchCalls
<1>1. IInv => StampsMatchCalls
  BY DEF IInv
<1> QED BY <1>1, Inv, PTL

\* A finished turn covers all events that carry its id.
THEOREM TurnsCover == Spec => []TurnsCoverTheirEvents
<1>1. IInv => TurnsCoverTheirEvents
  BY DEF IInv
<1> QED BY <1>1, Inv, PTL

\* The three together: where an event lies is one story (codex_native.py).
THEOREM EventsHaveOnePlace == Spec => []EventsArePlacedOnce
<1>1. EventsInOneCall /\ StampsMatchCalls /\ TurnsCoverTheirEvents => EventsArePlacedOnce
  BY DEF EventsArePlacedOnce
<1> QED BY <1>1, CallsAreDisjoint, StampsAreInTheirCalls, TurnsCover, PTL

\* What was billed ends exactly one call, which is of its turn, and what claims to be
\* billed ends with a bill; with usage records or, without them, with token counts.
THEOREM BillsAreInCalls == Spec => []BillsEndCalls
<1>1. Init => BillsInv
  BY DEF Init, BillsInv, PaidCalls, BillsEndCalls
<1>2. IInv /\ BillsInv /\ [Next]_vars => BillsInv'
  <2> SUFFICES ASSUME IInv, BillsInv, [Next]_vars PROVE BillsInv'
    OBVIOUS
  <2>1. CASE Grows
    BY <2>1, GrowthBills
  <2>2. CASE UsageRecord
    BY <2>2, UsageBills
  <2>3. CASE Finish
    BY <2>3, FinishBills
  <2>4. CASE UNCHANGED vars
    BY <2>4 DEF vars, file, open, usage, BillsInv, PaidCalls, BillsEndCalls, Fallback
  <2> QED BY <2>1, <2>2, <2>3, <2>4, OnlyGrowth DEF IInv
<1>3. BillsInv => BillsEndCalls
  BY DEF BillsInv
<1> QED BY <1>1, <1>2, <1>3, Inv, PTL DEF Spec

\* A compacted record is the partner of one item, and as long as no parent's header was
\* read the turns together count the compactions that the stream shows.
THEOREM CompactionsAreCounted == Spec => []CompactionsCountedOnce
<1>1. Init => CountInv
  <2> SUFFICES ASSUME Init PROVE CountInv
    OBVIOUS
  <2>1. Headed /\ Paired /\ pairs = {}
    BY DEF Init, Headed, Paired
  <2>2. Cardinality(CompactionEvents) = 0
    <3>1. CompactionEvents = {}
      BY DEF Init, CompactionEvents
    <3> QED BY <3>1, FS_EmptySet
  <2>3. CountOf(turns) = 0
    <3> DEFINE f == [t \in TurnIds |-> turns[t].compactions]
    <3>1. \A t \in TurnIds : f[t] = 0
      BY DEF Init
    <3>2. CountOf(turns) = Sums(f)[TurnIds]
      BY CountIsSum
    <3>3. IsFiniteSet(TurnIds)
      BY BoundsAssumption, FS_Interval DEF TurnIds
    <3>4. f \in [TurnIds -> {0}]
      BY <3>1
    <3> HIDE DEF f
    <3> QED BY <3>2, <3>3, <3>4, SumOfNone
  <2> QED BY <2>1, <2>2, <2>3 DEF CountInv, CompactionsCountedOnce
<1>2. TypeOK /\ TypeOK' /\ CountInv /\ [Next]_vars => CountInv'
  <2> SUFFICES ASSUME TypeOK, TypeOK', CountInv, [Next]_vars PROVE CountInv'
    OBVIOUS
  <2>1. CASE UNCHANGED vars
    BY <2>1 DEF vars, file, gate, items, story, CountInv, Headed, Paired, CompactionsCountedOnce, CompactionEvents
  <2>2. CASE Next
    BY <2>2, NotedCounts, ItemCounts, AgentCounts, TaskStartedCounts, CompactedCounts,
       CompactionItemCounts, ForeignCounts, UsageCounts, FinishCounts DEF Next
  <2> QED BY <2>1, <2>2
<1>3. CountInv => CompactionsCountedOnce
  BY DEF CountInv
<1> QED BY <1>1, <1>2, <1>3, DecoderTypes, PTL DEF Spec

\* Both: a bill and a compaction leave one trace each (codex_native.py, _decode_v2).
THEOREM TracesAreSingle == Spec => []BillsAndCompactionsCountOnce
<1>1. BillsEndCalls /\ CompactionsCountedOnce => BillsAndCompactionsCountOnce
  BY DEF BillsAndCompactionsCountOnce
<1> QED BY <1>1, BillsAreInCalls, CompactionsAreCounted, PTL
=============================================================================
