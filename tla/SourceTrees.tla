------------------------------ MODULE SourceTrees ------------------------------
(***************************************************************************)
(* From files to work units: sources/detect.py, the thread forest of       *)
(* sources/codex_forest.py and the session trees of sources/pi_native.py.  *)
(*                                                                         *)
(* A Codex file is [id, parent, fork, delegated, stream, len]: its thread, *)
(* 0 if it has none, the threads it names, and its bytes, the first len    *)
(* pieces of a stream.  A pi file is the place of the file it names as its *)
(* parent, 0 for none.  Files are numbered in the order of their paths.    *)
(***************************************************************************)
EXTENDS Integers, SequencesExt

NoEdge == [to |-> 0, rank |-> 0]
RankEdge(f) ==
  IF f.id = 0 THEN NoEdge
  ELSE IF f.parent \notin {0, f.id} THEN [to |-> f.parent, rank |-> 1]
  ELSE IF f.fork \notin {0, f.id} THEN [to |-> f.fork, rank |-> 2]
  ELSE IF f.delegated \notin {0, f.id} THEN [to |-> f.delegated, rank |-> 3]
  ELSE NoEdge

Named(files, id) == {n \in DOMAIN files : files[n].id = id}
\* the first file of a thread stands for it; one without an id, or a copy, is never linked
Stands(files, n) == files[n].id # 0 /\ n = Min(Named(files, files[n].id))
Wanting(files) == {n \in DOMAIN files : Stands(files, n) /\ RankEdge(files[n]) # NoEdge}

NamedEdges(files) ==
  LET linked == {n \in Wanting(files) : Cardinality(Named(files, RankEdge(files[n]).to)) = 1}
  IN [n \in linked |-> LET e == RankEdge(files[n]) IN [parent |-> Min(Named(files, e.to)), rank |-> e.rank]]
ParentMissing(files, n) == n \in Wanting(files) /\ Named(files, RankEdge(files[n]).to) = {}

\* up from a file, as far as files not seen before go
WalkUp(edges, done, start) ==
  LET up[k \in 1..Cardinality(DOMAIN edges)] ==
        IF k = 1 THEN <<start>>
        ELSE LET p == edges[Last(up[k - 1])].parent IN
             IF p \in DOMAIN edges \ done /\ ~Contains(up[k - 1], p) THEN Append(up[k - 1], p) ELSE up[k - 1]
  IN up[Cardinality(DOMAIN edges)]

\* walk: a cycle loses its weakest edge, the first of them on the way
BreakCycle(acc, start) ==
  IF start \notin DOMAIN acc.edges \/ start \in acc.done THEN acc
  ELSE LET path == WalkUp(acc.edges, acc.done, start)
           back == {k \in DOMAIN path : path[k] = acc.edges[Last(path)].parent}
           cycle == {k \in DOMAIN path : back # {} /\ k >= Min(back)}
           weakest == {path[Min({k \in cycle : \A j \in cycle : acc.edges[path[j]].rank <= acc.edges[path[k]].rank})] : b \in back}
       IN [edges |-> [n \in DOMAIN acc.edges \ weakest |-> acc.edges[n]],
           done |-> acc.done \union ToSet(path), dropped |-> acc.dropped \union weakest]
BreakCycles(edges) ==
  FoldLeft(BreakCycle, [edges |-> edges, done |-> {}, dropped |-> {}], SetToSortSeq(DOMAIN edges, LAMBDA a, b : a < b))

\* depth first, the last child next
Below(edges, root) ==
  LET visit[k \in Nat] ==
        IF k = 0 THEN [order |-> <<root>>, stack |-> <<root>>]
        ELSE LET v == visit[k - 1] IN
             IF v.stack = <<>> THEN v
             ELSE LET children == SetToSortSeq({n \in DOMAIN edges : edges[n].parent = Last(v.stack)}, LAMBDA a, b : a < b)
                  IN [order |-> v.order \o children, stack |-> Front(v.stack) \o children]
  IN visit[Cardinality(DOMAIN edges) + 1].order

\* a file whose notes tell that its links may be wrong
HasNote(files, dropped, n) ==
  \/ files[n].id # 0 /\ ~Stands(files, n)
  \/ n \in Wanting(files) /\ Cardinality(Named(files, RankEdge(files[n]).to)) > 1
  \/ n \in dropped

\* components and load_component: trees in the order of their roots; links with parents first
Components(files) ==
  LET broken == BreakCycles(NamedEdges(files))
      roots == SelectSeq([n \in DOMAIN files |-> n], LAMBDA n : n \notin DOMAIN broken.edges)
      Tree(root) ==
        LET members == Below(broken.edges, root) IN
        [files |-> members, links |-> [k \in 1..(Len(members) - 1) |-> <<members[k + 1], broken.edges[members[k + 1]].parent>>],
         linkage |-> IF ParentMissing(files, root) \/ \E n \in ToSet(members) : HasNote(files, broken.dropped, n)
                     THEN "partial" ELSE IF Len(members) > 1 THEN "full" ELSE "none"]
  IN [k \in DOMAIN roots |-> Tree(roots[k])]

-----------------------------------------------------------------------------
(* discover_many and load_unit, over Codex files.                            *)

\* one of several equal files is read, the first
Distinct(files) == SelectSeq([n \in DOMAIN files |-> n], LAMBDA n : \A m \in 1..(n - 1) : files[m] # files[n])
Copies(files, n) == {m \in DOMAIN files : m > n /\ files[m] = files[n]}

Snapshots(files, id) == {n \in ToSet(Distinct(files)) : files[n].id = id}
Crowded(files) == {id \in {files[n].id : n \in DOMAIN files} \ {0} : Cardinality(Snapshots(files, id)) > 1}
OneHistory(files, id) == \A m, n \in Snapshots(files, id) : files[m].stream = files[n].stream
Largest(files, id) == CHOOSE n \in Snapshots(files, id) : \A m \in Snapshots(files, id) \ {n} :
  files[m].len < files[n].len \/ (files[m].len = files[n].len /\ m < n)

\* snapshots of one file are read once, the largest; others that share a thread are not linked
Discover(files) ==
  LET crowded == Crowded(files)
      alone == UNION {Snapshots(files, id) : id \in {i \in crowded : ~OneHistory(files, i)}}
      older == UNION {Snapshots(files, id) \ {Largest(files, id)} : id \in {i \in crowded : OneHistory(files, i)}}
      rest == SelectSeq(Distinct(files), LAMBDA n : n \notin alone \union older)
      trees == Components([k \in DOMAIN rest |-> files[rest[k]]])
      Alternates(n) ==
        Copies(files, n) \union UNION {{m} \union Copies(files, m) : m \in {o \in older : n = Largest(files, files[o].id)}}
  IN [units |-> {[files |-> <<n>>, linkage |-> "partial"] : n \in alone}
                \union {[files |-> [j \in DOMAIN trees[k].files |-> rest[trees[k].files[j]]], linkage |-> trees[k].linkage] : k \in DOMAIN trees},
      alternates |-> [n \in ToSet(rest) \union alone |-> Alternates(n)]]

-----------------------------------------------------------------------------
(* The trees of pi sessions and the estimates of children without a file.    *)

PiAttached(parents) == {n \in DOMAIN parents : parents[n] \in DOMAIN parents \ {n}}
PiBelow(parents, root) ==
  LET down[k \in Nat] == IF k = 0 THEN {root} ELSE down[k - 1] \union {n \in PiAttached(parents) : parents[n] \in down[k - 1]}
  IN down[Len(parents)] \ {root}

\* a cycle beside a tree is not read; if there are cycles alone, each file is a root
PiComponents(parents) ==
  LET roots == SelectSeq([n \in DOMAIN parents |-> n], LAMBDA n : n \notin PiAttached(parents)) IN
  IF roots = <<>> THEN [n \in DOMAIN parents |-> [root |-> n, children |-> {}, missing |-> FALSE]]
  ELSE [k \in DOMAIN roots |-> [root |-> roots[k], children |-> PiBelow(parents, roots[k]),
                                missing |-> parents[roots[k]] \notin {0} \union DOMAIN parents]]

\* a notice is [from, agent, key, tokens, status]; None is 0
EstimatesFrom(notices) ==
  LET agents == SelectSeq([n \in DOMAIN notices |-> n], LAMBDA n : \A m \in 1..(n - 1) : notices[m].agent # notices[n].agent)
      Of(a) == {n \in DOMAIN notices : notices[n].agent = a}
  IN [k \in DOMAIN agents |->
       LET a == notices[agents[k]].agent
           tokens == {notices[n].tokens : n \in {m \in Of(a) : notices[m].from = "notification"}} \ {0}
           states == {n \in Of(a) : notices[n].from # "result" /\ notices[n].status # 0}
       IN [agent |-> a, key |-> notices[agents[k]].key,
           total |-> IF tokens = {} THEN 0 ELSE Max(tokens),
           status |-> IF states = {} THEN 0 ELSE notices[Max(states)].status,
           type |-> \E n \in Of(a) : notices[n].from \in {"record", "result"}]]

AttachEstimates(children, notices) ==
  FoldLeft(LAMBDA acc, e : IF e.key \in children \union {s.key : s \in ToSet(acc)} \/ (e.total = 0 /\ e.status = 0 /\ ~e.type) THEN acc
                           ELSE Append(acc, e), <<>>, EstimatesFrom(notices))

\* estimate_usage_from_total; round() to the nearest, halves do not occur
EstimateUsage(total) ==
  LET read == (80 * total + 50) \div 100
      output == (8 * total + 50) \div 100
      input == total - read - output
  IN IF input < 0 THEN [input |-> 0, output |-> output, read |-> total - output] ELSE [input |-> input, output |-> output, read |-> read]
=============================================================================
