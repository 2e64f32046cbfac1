---------------------------- MODULE EditWorkload ----------------------------
(***************************************************************************)
(* The edit benchmarks: batches of edges are ingested into a graph format, *)
(* and an algorithm runs after each.                                       *)
(*                                                                         *)
(* edit_scalability_large.cpp ("large") maps a binary edge list, computes  *)
(* the bounds of each batch, and builds adjacency lists with all threads.  *)
(* edit_scalability.cpp ("text") reads what scripts/divide_into_batches    *)
(* has written, line by line.  The formats are those of include/scea/graph *)
(* and the algorithms breadth-first search (Bfs) and triangle counting.    *)
(*                                                                         *)
(* Of a format there is `walk`, which the algorithms read, and for CSR and *)
(* LC_CSR also m_edges, the lists they are built from.  The Galois graphs  *)
(* behind LC_CSR, LS_CSR and MorphGraph are external.                      *)
(***************************************************************************)
EXTENDS Bfs, FiniteSetsExt, SequencesExt

CONSTANTS Edges, \* the input: a sequence of pairs <<src, dst>>, none twice
          Jobs   \* command lines (see Job)

\* What a command line says: pre is floor(num_edges * startup) for "large",
\* checked (no NDEBUG) and num_vertices are for "text".
Job == [tool : {"large", "text"}, num_batches : Nat \ {0}, pre : 0 .. Len(Edges),
        checked : BOOLEAN, num_vertices : Nat,
        format : {"adj", "csr", "lccsr", "lscsr", "morph"},
        algo : {"nop", "bfs", "tc"}, bfs_src : Nat]

ASSUME EdgesAssumption == Edges \in Seq(Nat \X Nat) /\ IsInjective(Edges)
ASSUME JobsAssumption == Jobs \subseteq Job

VARIABLES
  job,           \* the command line
  text,          \* lines of the divided file
  line,          \* the next one to read
  eof,           \* in->eof()
  batch_number,  \* of this batch; -1 while edges are loaded before batching
  todo,          \* indices of edges that prepare_batch has to visit
  batch,         \* adj_map, insertions
  m_edges,       \* AdjGraph::m_edges of CSR and LC_CSR
  numTriangles

input == <<job, text, line, eof, batch_number, todo, batch>>
vars == <<bfsVars, input, m_edges, numTriangles>>

NumEdges == Len(Edges)
Line == [src : Nat \cup {NoVertex}, dsts : Seq(Nat)]
Blank == [src |-> NoVertex, dsts |-> <<>>]

TypeOK ==
  /\ BfsTypeOK
  /\ phase \in {"divide", "prepare", "read", "ingest", "post_ingest", "compute",
                "level", "computed", "count", "counted", "done", "crashed"}
  /\ job \in Jobs
  /\ text \in Seq(Line)
  /\ line \in 1 .. Len(text) + 1
  /\ eof \in BOOLEAN
  /\ batch_number \in -1 .. Len(text) + job.num_batches
  /\ todo \subseteq 1 .. NumEdges
  /\ \A v \in DOMAIN batch : v \in Nat /\ batch[v] \in Seq(Nat)
  /\ IsGraph(m_edges)
  /\ numTriangles \in Nat

NoLists == [v \in {} |-> <<>>]
-----------------------------------------------------------------------------
(* Sorting.                                                                *)

\* The elements of D in the order R.
Ranked(D, R) ==
  [k \in 1 .. Cardinality(D) |->
     CHOOSE x \in D : Cardinality({y \in D : <<y, x>> \in R}) = k - 1]

\* Different numbers, ascending: the sort of a batch before it is written.
Ascending(S) == Ranked(S, {p \in S \X S : p[1] < p[2]})

\* std::sort of a list of neighbours.
InOrder(s) ==
  LET D == DOMAIN s
      r == Ranked(D, {p \in D \X D : \/ s[p[1]] < s[p[2]]
                                    \/ (s[p[1]] = s[p[2]] /\ p[1] < p[2])})
  IN [k \in D |-> s[r[k]]]
-----------------------------------------------------------------------------
(* Bounds of batches.                                                      *)

\* Mutant: rounded down.
PerBatchDown(edges, batches) == edges \div batches

\* edges_per_batch, num_edges_per_batch
PerBatch(edges, batches) == (edges + batches - 1) \div batches

\* Batch b of the large benchmark has the edges after StartEdge, up to
\* EndEdge; the edges before batching are batch -1.
EndEdge(b) ==
  Min({NumEdges, job.pre + (b + 1) * PerBatch(NumEdges - job.pre, job.num_batches)})
StartEdge(b) == IF b = -1 THEN 0 ELSE EndEdge(b - 1)
PrepareTodo(b) == StartEdge(b) + 1 .. EndEdge(b)

Init ==
  /\ job \in Jobs
  /\ batch_number = IF job.tool = "large" /\ job.pre > 0 THEN -1 ELSE 0
  /\ phase = IF job.tool = "large" THEN "prepare" ELSE "divide"
  /\ todo = IF job.tool = "large" THEN PrepareTodo(batch_number) ELSE {}
  /\ text = <<>>
  /\ line = 1
  /\ eof = FALSE
  /\ batch = NoLists
  /\ m_edges = NoLists
  /\ numTriangles = 0
  /\ walk = NoLists
  /\ source = job.bfs_src
  /\ Unused
-----------------------------------------------------------------------------
(* divide_into_batches.                                                    *)

\* begin and end of batch b: only end is limited to the edges there are.
DivideBegin(b) == b * PerBatch(NumEdges, job.num_batches)
DivideEnd(b) == Min({NumEdges, (b + 1) * PerBatch(NumEdges, job.num_batches)})

\* A line for each source, sources and destinations ascending.
LinesOf(E) ==
  LET src == Ascending({e[1] : e \in E})
  IN [i \in DOMAIN src |->
       [src |-> src[i], dsts |-> Ascending({e[2] : e \in {f \in E : f[1] = src[i]}})]]

\* The end of the last line and a blank line; an empty batch has no last
\* line, which makes two blank lines.
Paragraph(E) ==
  IF E = {} THEN <<Blank, Blank>> ELSE LinesOf(E) \o <<Blank>>

DividedText ==
  FlattenSeq([k \in 1 .. job.num_batches |->
    Paragraph({Edges[i] : i \in DivideBegin(k - 1) + 1 .. DivideEnd(k - 1)})])

\* Without edges there is no max_pair to dereference; with begin behind end,
\* the sort and the loop run out of the vector.
Overrun ==
  \/ NumEdges = 0
  \/ \E b \in 0 .. job.num_batches - 1 : DivideBegin(b) > DivideEnd(b)

Divide ==
  /\ phase = "divide"
  /\ phase' = IF Overrun THEN "crashed" ELSE "read"
  /\ text' = IF Overrun THEN <<>> ELSE DividedText
  /\ UNCHANGED <<graph, level, shortest_path, currSt, nextSt, at, pos, job,
                 line, eof, batch_number, todo, batch, m_edges, numTriangles>>
-----------------------------------------------------------------------------
(* A batch.                                                                *)

Listed(b, v) == IF v \in DOMAIN b THEN b[v] ELSE <<>>

\* Mutant: what is in the map is replaced.
ExtendedNew(b, v, dsts) ==
  IF dsts = <<>> THEN b
  ELSE [u \in DOMAIN b \cup {v} |-> IF u = v THEN dsts ELSE b[u]]

\* Appends to the list of v, or makes one; a key without edges is not made.
Extended(b, v, dsts) ==
  IF dsts = <<>> THEN b
  ELSE [u \in DOMAIN b \cup {v} |-> IF u = v THEN Listed(b, v) \o dsts ELSE b[u]]

\* prepare_batch: a thread visits an edge, in any order.  lazy_emplace_l
\* holds the lock of the part of the map that the source is in.
Emplace(i) ==
  /\ phase = "prepare"
  /\ i \in todo
  /\ todo' = todo \ {i}
  /\ batch' = Extended(batch, Edges[i][1], <<Edges[i][2]>>)
  /\ UNCHANGED <<bfsVars, job, text, line, eof, batch_number, m_edges, numTriangles>>

\* validate_vertex
Valid(v) == job.checked => v < job.num_vertices

\* The destinations that a line adds.
Kept(dsts) ==
  LET r == Ascending({i \in DOMAIN dsts : Valid(dsts[i])})
  IN [k \in DOMAIN r |-> dsts[r[k]]]

\* A line ends the batch: it is blank, or its source is out of range.
EndsBatch(l) == l.src = NoVertex \/ ~Valid(l.src)

ReadLine ==
  /\ phase = "read"
  /\ line <= Len(text)
  /\ line' = line + 1
  /\ IF EndsBatch(text[line])
       THEN phase' = "ingest" /\ UNCHANGED batch
       ELSE /\ batch' = Extended(batch, text[line].src, Kept(text[line].dsts))
            /\ UNCHANGED phase
  /\ UNCHANGED <<graph, level, shortest_path, currSt, nextSt, at, pos, job,
                 text, eof, batch_number, todo, m_edges, numTriangles>>

\* getline finds nothing; only now does eof() become true.
ReadEof ==
  /\ phase = "read"
  /\ line > Len(text)
  /\ eof' = TRUE
  /\ phase' = "ingest"
  /\ UNCHANGED <<graph, level, shortest_path, currSt, nextSt, at, pos, job,
                 text, line, batch_number, todo, batch, m_edges, numTriangles>>
-----------------------------------------------------------------------------
(* Formats.                                                                *)

\* The formats whose algorithms read a copy of m_edges.
Copied == job.format \in {"csr", "lccsr"}

\* max_vertex_id.reduce(): 0 for an empty batch.
MaxVertex(b) == Max({0} \cup DOMAIN b \cup UNION {ToSet(b[v]) : v \in DOMAIN b})

\* Mutant: the graph grows for the sources only.
IngestedSources(lists, b) ==
  [v \in 0 .. Max({Cardinality(DOMAIN lists) - 1, 0} \cup DOMAIN b) |->
     Listed(lists, v) \o Listed(b, v)]

\* Resized and appended to.  Sources of a batch differ, so that the threads
\* of the do_all append to different lists.
Ingested(lists, b) ==
  [v \in 0 .. Max({Cardinality(DOMAIN lists) - 1, MaxVertex(b)}) |->
     Listed(lists, v) \o Listed(b, v)]

\* The large benchmark ingests an empty batch, too.
Ingest ==
  /\ phase = "ingest" \/ (phase = "prepare" /\ todo = {})
  /\ IF job.tool = "text" /\ batch = NoLists
       THEN phase' = "compute" /\ UNCHANGED <<m_edges, walk>>
       ELSE /\ phase' = "post_ingest"
            /\ IF Copied
                 THEN m_edges' = Ingested(m_edges, batch) /\ UNCHANGED walk
                 ELSE walk' = Ingested(walk, batch) /\ UNCHANGED m_edges
  /\ batch' = NoLists
  /\ UNCHANGED <<source, level, shortest_path, currSt, nextSt, at, pos, job,
                 text, line, eof, batch_number, todo, numTriangles>>

\* m_vertices: an inclusive prefix sum behind a 0.
PrefixSum(lists) ==
  [v \in 0 .. Cardinality(DOMAIN lists) |->
     SumFunctionOnSet([u \in DOMAIN lists |-> Len(lists[u])], 0 .. v - 1)]

\* m_edges_compact
Compact(lists) ==
  FlattenSeq([i \in 1 .. Cardinality(DOMAIN lists) |-> lists[i - 1]])

\* What for_each_edge then comes to, from m_vertices[v] to m_vertices[v + 1].
CompactWalk(lists) ==
  LET m_vertices == PrefixSum(lists)
      m_edges_compact == Compact(lists)
  IN [v \in DOMAIN lists |->
       SubSeq(m_edges_compact, m_vertices[v] + 1, m_vertices[v + 1])]

\* LS_CSR may compact its log, which leaves the lists alone.  The edges that
\* are loaded before batching are not followed by the algorithm.
PostIngest ==
  /\ phase = "post_ingest"
  /\ walk' = IF Copied THEN CompactWalk(m_edges) ELSE walk
  /\ IF batch_number = -1
       THEN /\ phase' = "prepare"
            /\ batch_number' = 0
            /\ todo' = PrepareTodo(0)
       ELSE phase' = "compute" /\ UNCHANGED <<batch_number, todo>>
  /\ UNCHANGED <<source, level, shortest_path, currSt, nextSt, at, pos, job,
                 text, line, eof, batch, m_edges, numTriangles>>
-----------------------------------------------------------------------------
(* Algorithms.                                                             *)

others == <<input, m_edges, numTriangles>>

\* Mutant: sorts nothing, as CSR does.
SortedEndNone(v) == 0 * Len(walk[v])

\* sort_edges: CSR sorts [begin + m_vertices[v], begin + m_vertices[v]).
SortedEnd(v) == IF job.format = "csr" THEN 0 ELSE Len(walk[v])

Sorted(v) ==
  InOrder(SubSeq(walk[v], 1, SortedEnd(v)))
    \o SubSeq(walk[v], SortedEnd(v) + 1, Len(walk[v]))

\* The first do_all of TriangleCounting: each step sorts its own list.
SortEdges ==
  /\ phase = "compute"
  /\ job.algo = "tc"
  /\ phase' = "count"
  /\ walk' = [v \in Vertices |-> Sorted(v)]
  /\ UNCHANGED <<source, level, shortest_path, currSt, nextSt, at, pos, others>>

\* std::binary_search: the first element that is not less, by halving.
LowerBound(s, x) ==
  LET ranges == {p \in (1 .. Len(s) + 1) \X (0 .. Len(s)) : p[1] + p[2] <= Len(s) + 1}
      bound[p \in ranges] ==
        LET first == p[1]
            len == p[2]
            half == len \div 2
        IN IF len = 0 THEN first
           ELSE IF s[first + half] < x THEN bound[<<first + half + 1, len - half - 1>>]
                                       ELSE bound[<<first, half>>]
  IN bound[<<1, Len(s)>>]
FindSorted(v, x) ==
  LET i == LowerBound(walk[v], x) IN i <= Len(walk[v]) /\ walk[v][i] = x

Closes(v0, v1, v2) == v0 < v1 /\ v1 < v2 /\ FindSorted(v0, v2)

\* The second one: it only reads the graph.
CountTriangles ==
  /\ phase = "count"
  /\ numTriangles' = Cardinality(
       {p \in Vertices \X (1 .. NumEdges) \X (1 .. NumEdges) :
          LET v1 == walk[p[1]][p[2]]
          IN /\ p[2] <= Len(walk[p[1]])
             /\ p[3] <= Len(walk[v1])
             /\ Closes(p[1], v1, walk[v1][p[3]])})
  /\ phase' = "counted"
  /\ UNCHANGED <<graph, level, shortest_path, currSt, nextSt, at, pos, input, m_edges>>

Nop ==
  /\ phase = "compute"
  /\ job.algo = "nop"
  /\ phase' = "counted"
  /\ UNCHANGED <<graph, level, shortest_path, currSt, nextSt, at, pos, others>>

Search(A) == job.algo = "bfs" /\ A /\ UNCHANGED others

LastBatch == batch_number + 1 = job.num_batches

\* The algorithm returns, and the loop goes on with the next batch.
NextBatch ==
  /\ phase \in {"computed", "counted"}
  /\ batch_number' = batch_number + 1
  /\ IF job.tool = "text"
       THEN phase' = (IF eof THEN "done" ELSE "read") /\ UNCHANGED todo
       ELSE IF LastBatch
         THEN phase' = "done" /\ UNCHANGED todo
         ELSE phase' = "prepare" /\ todo' = PrepareTodo(batch_number + 1)
  /\ numTriangles' = 0
  /\ level' = 0
  /\ shortest_path' = <<>>
  /\ currSt' = <<>>
  /\ nextSt' = <<>>
  /\ UNCHANGED <<graph, at, pos, job, text, line, eof, batch, m_edges>>

Terminated == phase \in {"done", "crashed"} /\ UNCHANGED vars

Main ==
  \/ Divide
  \/ ReadLine
  \/ ReadEof
  \/ Ingest
  \/ PostIngest
  \/ SortEdges
  \/ CountTriangles
  \/ Nop
  \/ Search(BfsMain)
  \/ NextBatch

ThreadStep(t) == Search(BfsThread(t))

Next ==
  \/ Main
  \/ \E i \in 1 .. NumEdges : Emplace(i)
  \/ \E t \in Thread : ThreadStep(t)
  \/ Terminated

\* The main thread, the threads of prepare_batch and those of the search
\* are scheduled again and again.
Fairness ==
  /\ WF_vars(Main)
  /\ WF_vars(\E i \in 1 .. NumEdges : Emplace(i))
  /\ \A t \in Thread : WF_vars(ThreadStep(t))

Spec == Init /\ [][Next]_vars /\ Fairness
-----------------------------------------------------------------------------
\* Edges of the input that a run has read, without those out of range.
LinesRead == {text[i] : i \in 1 .. line - 1}
EdgesRead ==
  IF job.tool = "large" THEN {Edges[i] : i \in 1 .. EndEdge(batch_number)}
  ELSE {e \in ToSet(Edges) :
          /\ Valid(e[1]) /\ Valid(e[2])
          /\ \E l \in LinesRead : l.src = e[1] /\ e[2] \in ToSet(l.dsts)}

\* The graph consists of the edges in E, each exactly once, and has vertices
\* up to the largest of theirs; the large benchmark ingests an input without
\* edges, too, and has vertex 0 then.
Holds(E) ==
  /\ \A v \in Vertices : IsInjective(walk[v])
  /\ E = {e \in Vertices \X Vertices : Leads(e[1], e[2])}
  /\ Vertices = 0 .. Max({IF job.tool = "large" THEN 0 ELSE -1}
                           \cup UNION {{e[1], e[2]} : e \in E})

\* Whenever an algorithm is called the format presents the edges of all
\* batches so far and nothing else, whatever the order in which threads
\* emplaced them and however the input was cut: "algorithm executions acting
\* as a logical barrier" (README.md:78).
BatchesIngested == phase = "compute" => Holds(EdgesRead)

\* "A blank line indicates an algorithm execution point." (README.md:74)
BlankLines == {i \in 1 .. Len(text) : text[i] = Blank}

\* In the end no edge of the input has been left out between batches, and no
\* execution point has been passed by: the algorithm has run for each batch
\* of the large benchmark, and for each blank line of a text.  That it runs
\* no more often than that is what ExecutionPoints says.
AllBatchesRun ==
  phase = "done" =>
    /\ Holds({e \in ToSet(Edges) :
                job.tool = "text" => Valid(e[1]) /\ Valid(e[2])})
    /\ IF job.tool = "large" THEN batch_number = job.num_batches
                             ELSE batch_number >= Cardinality(BlankLines)

\* What README.md:74-75 says of a text: blank lines are the execution points,
\* any other line is an update.  In its example with one blank line "the
\* algorithm is executed once" (README.md:92).  The code runs it once more
\* at the end of the file (edit_scalability.cpp:160), and at each line whose
\* source is out of range (edit_scalability.cpp:185-186).
ExecutionPoints ==
  (phase = "done" /\ job.tool = "text") => batch_number = Cardinality(BlankLines)

\* The triangle count is that of the edges read, although a format may
\* search by halving: lists are sorted after each batch (tc.hpp:22-36).
TrianglesExact ==
  (phase = "counted" /\ job.algo = "tc") =>
    numTriangles = Cardinality(
      {p \in EdgesRead \X EdgesRead :
         LET e == p[1]
             f == p[2]
         IN /\ e[1] < e[2] /\ e[2] = f[1] /\ f[1] < f[2]
            /\ <<e[1], f[2]>> \in EdgesRead})

\* A run comes to its end: the racing threads of a search run out of
\* vertices, the end of the file is found, and no batch is waited for.
RunEnds == <>(phase \in {"done", "crashed"})
=============================================================================
