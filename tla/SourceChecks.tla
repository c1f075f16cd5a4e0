------------------------------ MODULE SourceChecks ------------------------------
(***************************************************************************)
(* What is expected of the way from files to traces, and the files that    *)
(* bounded inputs are made of.                                             *)
(***************************************************************************)
EXTENDS Integers, SequencesExt

T == INSTANCE SourceTrees

Thread(id, change) ==
  LET plain == [id |-> id, parent |-> 0, fork |-> 0, delegated |-> 0, stream |-> id, len |-> 1]
  IN [f \in DOMAIN plain |-> IF f \in DOMAIN change THEN change[f] ELSE plain[f]]

\* threads that name each other in three ways, one without an id, one that names itself
ForestFiles ==
  {Thread(id, [parent |-> p]) : id \in 1..3, p \in 0..3} \union {Thread(1, [fork |-> 2]), Thread(2, [fork |-> 1])}
    \union {Thread(1, [delegated |-> 2]), Thread(1, [delegated |-> 3, stream |-> 4]), Thread(0, [stream |-> 5, parent |-> 1])}

\* snapshots and copies of two threads, and a child
SnapshotFiles ==
  {Thread(1, [len |-> n]) : n \in 1..3} \union {Thread(1, [stream |-> 7, len |-> 2]), Thread(1, [stream |-> 7, len |-> 3])}
    \union {Thread(2, [parent |-> 1]), Thread(2, [parent |-> 1, len |-> 2]), Thread(0, [stream |-> 5])}

Occurrences(seqs, x) == Cardinality({<<k, j>> \in UNION {{<<k, j>> : j \in DOMAIN seqs[k]} : k \in DOMAIN seqs} : seqs[k][j] = x})

\* Each file is in one tree; in a tree all parents come before their children; of every cycle of
\* named parents one link is given up, none stronger than another; a tree is called partial
\* exactly if a link that one of its files names is not followed, or a file is a second copy.
ForestHolds(files) ==
  LET trees == T!Components(files)
      named == T!NamedEdges(files)
      up(n) == LET f[k \in Nat] == IF k = 0 THEN n ELSE IF f[k - 1] \in DOMAIN named THEN named[f[k - 1]].parent ELSE 0
               IN f
      OnCycle(n) == \E k \in 1..Len(files) : up(n)[k] = n
      Cycle(n) == {up(n)[k] : k \in 1..Len(files)}
      followed == UNION {ToSet(trees[k].links) : k \in DOMAIN trees}
      givenUp == {n \in DOMAIN named : <<n, named[n].parent>> \notin followed}
      Lacks(n) == \/ n \in T!Wanting(files) /\ ~\E p \in DOMAIN files : <<n, p>> \in followed
                  \/ files[n].id # 0 /\ ~T!Stands(files, n)
  IN /\ \A n \in DOMAIN files : Occurrences([k \in DOMAIN trees |-> trees[k].files], n) = 1
     /\ \A k \in DOMAIN trees : \A j \in DOMAIN trees[k].links :
          \E i \in 1..j : trees[k].files[i] = trees[k].links[j][2]
     /\ \A n \in givenUp : OnCycle(n) /\ \A m \in Cycle(n) : named[m].rank <= named[n].rank
     /\ \A n \in DOMAIN named : OnCycle(n) => Cardinality(Cycle(n) \intersect givenUp) = 1
     /\ \A k \in DOMAIN trees : trees[k].linkage = "partial" <=> \E n \in ToSet(trees[k].files) : Lacks(n)

\* Whatever copies and snapshots there are, each file is read once or told as an alternate of
\* one that is read, which holds all it says, and threads with two histories are called partial.
SnapshotsHold(files) ==
  LET found == T!Discover(files)
      read == [n \in DOMAIN files |-> Cardinality({u \in found.units : Contains(u.files, n)})]
      Hosts(n) == {m \in DOMAIN found.alternates : n \in found.alternates[m]}
  IN /\ \A n \in DOMAIN files : read[n] + Cardinality(Hosts(n)) = 1
     /\ \A n \in DOMAIN files : \A m \in Hosts(n) :
          read[m] = 1 /\ files[m].id = files[n].id /\ files[m].stream = files[n].stream /\ files[n].len <= files[m].len
     /\ \A m, n \in DOMAIN files : files[m].id = files[n].id /\ files[m].id # 0 /\ files[m].stream # files[n].stream =>
          \A u \in found.units : Contains(u.files, n) => u.linkage = "partial" /\ Len(u.files) = 1

\* No session file is in two trees, and none is missing unless its parents lead round in a circle.
SessionsHold(parents) ==
  LET trees == T!PiComponents(parents)
      top(n) == LET f[k \in Nat] == IF k = 0 THEN n ELSE IF f[k - 1] \in DOMAIN parents /\ parents[f[k - 1]] # f[k - 1]
                                                       THEN parents[f[k - 1]] ELSE 0
                IN f[Len(parents) + 1]
      In(n) == {k \in DOMAIN trees : n = trees[k].root \/ n \in trees[k].children}
  IN \A n \in DOMAIN parents :
       /\ Cardinality(In(n)) <= 1
       /\ top(n) \notin DOMAIN parents => In(n) # {}

Notice(from, agent, key, tokens, status) == [from |-> from, agent |-> agent, key |-> key, tokens |-> tokens, status |-> status]
NoticeEvents ==
  {Notice("record", "a", "k", 0, 1), Notice("notification", "a", "k", 5, 2), Notice("notification", "a", "k", 9, 0),
   Notice("notification", "b", "k", 7, 1), Notice("notification", "c", "l", 3, 1), Notice("notification", "c", "l", 0, 0),
   Notice("result", "c", "l", 0, 0)}

\* A child is estimated once, and only if no file tells it; a total is split without a rest.
EstimatesHold(notices) ==
  \A children \in {{}, {"k"}} :
    LET new == T!AttachEstimates(children, notices) IN
    /\ IsInjective([n \in DOMAIN new |-> new[n].key])
    /\ \A n \in DOMAIN new : /\ new[n].key \notin children
                             /\ LET u == T!EstimateUsage(new[n].total) IN u.input + u.output + u.read = new[n].total
    /\ \A n \in DOMAIN notices : notices[n].tokens > 0 /\ notices[n].key \notin children =>
         \E k \in DOMAIN new : new[k].key = notices[n].key

-----------------------------------------------------------------------------
D == INSTANCE Decoders

Record(type, change) ==
  LET plain == [type |-> type, id |-> 0, parent |-> 0, blocks |-> <<>>, usage |-> <<>>, flag |-> FALSE]
  IN [f \in DOMAIN plain |-> IF f \in DOMAIN change THEN change[f] ELSE plain[f]]

\* a response in up to three records, one of them with a block that is not read; the work of a call
ClaudeRecords ==
  {Record("assistant", [id |-> 1, usage |-> <<2, 1>>, blocks |-> b]) : b \in {<<"text">>, <<"thinking", "tool_use">>, <<"redacted">>}}
    \union {Record("assistant", [id |-> 2, usage |-> <<3, 1>>, blocks |-> <<"text">>, parent |-> p]) : p \in {0, 7}}
    \union {Record("assistant", [usage |-> <<1, 1>>, blocks |-> <<"text", "text">>]), Record("user", [flag |-> TRUE, blocks |-> <<"text">>]),
            Record("user", [blocks |-> <<"tool_result">>, parent |-> 7]), Record("compact_boundary", [id |-> 0]), Record("result", [usage |-> <<9, 6>>])}

\* Records of a response are billed once, with the usage of the first of them unless nothing of
\* that one is read; the work of calls is split off and none is lost, and with a result the
\* outputs of the root, which are placeholders, give way to its sum.
ClaudeHolds(rs) ==
  LET native == D!ClaudeNative(rs)
      stream == D!ClaudeStream(rs)
      root == D!StreamRoot(rs)
      children == D!StreamChildren(rs)
      Of(events, id) == SelectSeq(events, LAMBDA e : e.usage # <<>> /\ rs[e.line].id = id /\ rs[e.line].type = "assistant")
      first(id) == Min({n \in DOMAIN rs : rs[n].type = "assistant" /\ rs[n].id = id})
      told == D!ResultUsage(rs)
      work == SelectSeq(stream, LAMBDA e : rs[e.line].parent = 0)
      metered == \E e \in ToSet(work) : e.usage # <<>>
      below(Size(_)) == FoldSet(LAMBDA c, sum : sum + Size(children[c]), 0, DOMAIN children)
  IN /\ \A id \in {rs[n].id : n \in {m \in DOMAIN rs : rs[m].type = "assistant"}} \ {0} : \A events \in {native, stream} :
          /\ Len(Of(events, id)) <= 1
          /\ (\E k \in DOMAIN events : events[k].line = first(id)) => Of(events, id) # <<>> /\ Of(events, id)[1].usage = rs[first(id)].usage
     /\ \A events \in {native, stream} : \A k \in 1..(Len(events) - 1) : events[k].line <= events[k + 1].line
     /\ Len(SelectSeq(root, LAMBDA e : e.line # 0)) + below(Len) = Len(stream)
     /\ told = <<>> => D!Sum(root, 1) + below(LAMBDA es : D!Sum(es, 1)) = D!Sum(stream, 1)
     /\ told # <<>> => D!Sum(root, 2) = told[2] /\ D!Sum(root, 1) = IF metered THEN D!Sum(work, 1) ELSE told[1]
     /\ LET filled == D!Backfilled(root, <<5, 0>>) IN root # <<>> => D!Sum(filled, 1) + D!Sum(filled, 2) > 0

PiRecords ==
  {Record("assistant", [id |-> 1, usage |-> u, flag |-> f, blocks |-> b]) :
     u \in {<<>>, <<0, 0>>, <<2, 1>>}, f \in BOOLEAN, b \in {<<>>, <<"text", "toolCall">>, <<"image">>}}
    \union {Record("model_change", [id |-> 2]), Record("compaction", [id |-> 0]), Record("session", [id |-> 0])}

\* Each reply has a place and is billed once, and only a failed one without tokens has no bill; the
\* session and the stream of the same work bill the same.
PiHolds(rs) ==
  LET native == D!PiNative(rs)
      At(n) == SelectSeq(native, LAMBDA e : e.line = n)
  IN /\ \A n \in DOMAIN rs : rs[n].type = "assistant" =>
          /\ At(n) # <<>>
          /\ {k \in DOMAIN At(n) : At(n)[k].usage # <<>>} \subseteq {1}
          /\ rs[n].usage # <<>> /\ At(n)[1].usage = <<>> => rs[n].flag /\ rs[n].usage = <<0, 0>>
     /\ \A k \in 1..2 : D!Sum(native, k) = D!Sum(D!PiStream(rs), k)
     /\ D!PiModel(rs) = 1 => \A n \in DOMAIN rs : rs[n].type = "model_change" => \E m \in DOMAIN rs : m > n /\ rs[m].type = "model_change"

LegacyRecords ==
  {Record(type, [id |-> id]) : type \in {"message", "event", "item"}, id \in {1, 2}} \union {Record("compacted", [id |-> 0])}

\* However a message and its event are ordered and repeated, as many of them are read as the
\* more frequent form has.
LegacyHolds(rs) ==
  LET events == D!Legacy(rs)
      Read(types, id) == Cardinality({k \in DOMAIN events : rs[events[k].line].type \in types /\ rs[events[k].line].id = id})
      Written(type, id) == Cardinality({n \in DOMAIN rs : rs[n].type = type /\ rs[n].id = id})
  IN \A id \in {1, 2} : /\ Read({"message", "event"}, id) = Max({Written("message", id), Written("event", id)})
                        /\ Read({"item"}, id) = Written("item", id)

TotalRecords == {Record("turn", [usage |-> <<i, o>>]) : i \in {1, 3, 4}, o \in {0, 2}} \union {Record("message", [id |-> 0])}

\* What is billed is the sum of the last totals before each new beginning, whichever of the fields
\* begins anew.
TotalsHold(rs) ==
  LET billed == D!DeCumulate(D!CodexStream(rs))
      turns == SelectSeq(rs, LAMBDA r : r.type = "turn")
      Ends(k) == {n \in DOMAIN turns : n = Len(turns) \/ turns[n + 1].usage[k] < turns[n].usage[k]}
  IN \A k \in 1..2 : D!Sum(billed, k) = FoldSet(LAMBDA n, sum : sum + turns[n].usage[k], 0, Ends(k))
===============================================================================
