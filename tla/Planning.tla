------------------------------- MODULE Planning -------------------------------
(***************************************************************************)
(* The pure functions of the library, each called once: plan-step          *)
(* ordering, tool-call waves, skill routing, prefetching, replay diffs,    *)
(* latency percentiles, the ones that cut a text, an event list or a       *)
(* conversation down to its ends, the gates of Gates, the text handling of *)
(* ToolText and the local tools of JsonTools and CsvTools.                 *)
(*                                                                         *)
(* Strings that are only compared are numbers in their sort order.  A text *)
(* or list to be cut is the sequence of its positions 1..n, a marker put   *)
(* in is Marker.                                                           *)
(***************************************************************************)
EXTENDS Gates, ToolText, JsonTools, CsvTools

CONSTANTS
  StepCount,   \* plan steps, tools and bots are 1..StepCount
  Tags,        \* skill tags, tokens of a task, events of a run, argument keys
  MaxLength    \* bound on the length of a text, list or history

VARIABLES
  call,     \* the function that is called, with its arguments
  result    \* what it returned, None before that

planVars == <<call, result>>

Steps == 1..StepCount
Unknown == 0
Marker == 0
Positions(n) == [i \in 1..n |-> i]

\* There are finitely many tags, and None is none of the values in use.
Arguments == UNION {[keys -> {"text", "value"}] : keys \in SUBSET Tags}
PlanConstantsOK ==
  /\ StepCount \in Nat /\ MaxLength \in Nat /\ IsFiniteSet(Tags)
  /\ None \notin Seq(SUBSET Nat) /\ None \notin Tags
  /\ None \notin Arguments /\ None \notin {"text", "value"}
  /\ \A depth \in 1..5 : None \notin Nesting(Tokens)[depth]
  /\ None \notin Seq(Seq(Int))
  /\ None \notin [added : SUBSET Int, removed : SUBSET Int, changed : SUBSET Int]
ASSUME PlanningConstants == PlanConstantsOK

\* Quotients at and next to the limits of a gate, as far as it accepts them.
Near(g, d) ==
  {n \in {(l * d) \div 10000 + k : l \in {g.soft, g.hard}, k \in -2..2} :
     /\ n >= 0
     /\ g.gate = "fan_in_skew" => n >= d
     /\ ~g.up => n <= d}
Divisors == {1, 3, 7, 20000, 20001}
Ratios ==
  UNION {{[fn |-> "gate", gate |-> g, n |-> n, d |-> d] : n \in Near(g, d)} :
           g \in RatioGates, d \in Divisors}
RatiosToNone ==
  {[fn |-> "gate", gate |-> g, n |-> n, d |-> 0] :
     g \in {x \in RatioGates : x.gate = "write_amplification"}, n \in 0..6}
Quotients == Ratios \cup RatiosToNone

PlanCalls ==
  [fn : {"order"}, deps : [Steps -> SUBSET (Steps \cup {Unknown})]]
    \cup [fn : {"waves"}, hard : BOOLEAN, deps : [Steps -> SUBSET (Steps \cup {Unknown})]]
    \cup [fn : {"route"}, tags : [Steps -> SUBSET Tags], tokens : SUBSET Tags]
    \cup [fn : {"prefetch"}, recent : SeqsUpTo(Steps, 3), available : SUBSET Steps,
          hinted : SUBSET Steps, max : 1..2]
    \cup [fn : {"diff"}, left : SeqsUpTo(Tags, 3), right : SeqsUpTo(Tags, 3)]
    \cup [fn : {"percentile"}, samples : SeqsUpTo(1..3, 4), max : 1..3, pct : {50, 95}]
    \cup [fn : {"truncate"}, n : 0..MaxLength, max : 0..MaxLength, marker : 1..3]
    \cup [fn : {"compact", "summarize"}, n : 0..MaxLength, head : 0..2, tail : 0..2]
    \cup Quotients
    \cup [fn : {"share"}, gate : {"kappa", "confidence"},
          q : {-10000, -1, 0, 1999, 2000, 4999, 5000, 5999, 6000, 7499, 7500, 9999, 10000}]
    \cup [fn : {"count"}, gate : {"quorum", "replan"}, n : 0..7, limit : 1..7]
    \cup [fn : {"count"}, gate : {"egress"}, n : 0..3, limit : 0..3]
    \cup [fn : {"execute"},
          schema : [properties : SeqsUpTo(Tags, 2), required : SeqsUpTo(Tags, 2), typed : SUBSET Tags],
          payload : [shape : {"structured", "object", "plain"}, keys : SUBSET Tags, decodes : BOOLEAN],
          outcome : {"timeout", "protocol", "lost", "isError", "answer"}, valid : BOOLEAN]
    \cup [fn : {"cap"}, text : SeqsUpTo({1, 3, -1, -3}, 3), limit : 0..MaxLength, margin : {2}, redacts : BOOLEAN]
    \cup JsonCalls \cup CsvCalls

PlanInit ==
  /\ call \in PlanCalls
  /\ call.fn = "compact" => call.head >= 1 /\ call.tail >= 1
  /\ call.fn = "share" /\ call.gate = "confidence" => call.q >= 0
  /\ call.fn = "execute" =>
       /\ IsInjective(call.schema.properties) /\ IsInjective(call.schema.required)
       /\ call.schema.typed \subseteq ToSet(call.schema.properties)
       /\ call.payload.shape = "plain" => call.payload.keys = {}
       /\ call.payload.shape = "structured" => call.payload.keys # {} /\ call.payload.decodes
  /\ result = None

Returns(value) == result = None /\ result' = value /\ UNCHANGED call

LowerOf(a, b) == IF a < b THEN a ELSE b
HigherOf(a, b) == IF a > b THEN a ELSE b

-----------------------------------------------------------------------------
(* PlanStepDependencyResolver *)

\* The step an edge is counted for.  The loop runs over _sid and writes sid,
\* which the loop before it left at the last step.
Dependent(step) == StepCount

Edges(deps) == UNION {{[from |-> d, of |-> s] : d \in deps[s]} : s \in Steps}
Children(deps, node) ==
  [child \in Steps |-> Cardinality({e \in Edges(deps) : e.from = node /\ Dependent(e.of) = child})]
InDegrees(deps) ==
  [s \in Steps |-> Cardinality({e \in Edges(deps) : Dependent(e.of) = s})]

\* One round of the while loop: of the ready steps the one declared first is
\* next.
Popped(deps, loop) ==
  LET node == CHOOSE s \in loop.ready : \A t \in loop.ready : s <= t
      left == [s \in Steps |-> loop.indegree[s] - Children(deps, node)[s]]
      freed == {s \in Steps : Children(deps, node)[s] > 0 /\ left[s] = 0}
  IN  [ready |-> (loop.ready \ {node}) \cup freed, indegree |-> left, order |-> Append(loop.order, node)]

\* The loop, for as many rounds as there are steps: it takes no step twice.
Kahn(deps) ==
  LET begin == [ready |-> {s \in Steps : InDegrees(deps)[s] = 0}, indegree |-> InDegrees(deps),
                order |-> <<>>]
      Round(loop, s) == IF loop.ready = {} THEN loop ELSE Popped(deps, loop)
  IN  FoldLeft(Round, begin, [s \in Steps |-> s])

Order(deps) ==
  LET order == Kahn(deps).order
  IN  CASE \E s \in Steps : Unknown \in deps[s] -> [ok |-> FALSE, cyclic |-> FALSE, order |-> <<>>]
        [] OTHER -> IF Len(order) = StepCount
                      THEN [ok |-> TRUE, cyclic |-> FALSE, order |-> order]
                      ELSE [ok |-> FALSE, cyclic |-> TRUE, order |-> <<>>]

-----------------------------------------------------------------------------
(* ToolCallWaveScheduler *)

\* mutant: a tool is ready when one of its dependencies is resolved
Ready_Any(deps, remaining, resolved) ==
  {t \in remaining : deps[t] = {} \/ deps[t] \cap resolved # {}}
Ready(deps, remaining, resolved) == {t \in remaining : deps[t] \subseteq resolved}

\* The waves, or None where hard mode raises.
WavesFrom(deps, hard) ==
  LET From[resolved \in SUBSET Steps] ==
        LET remaining == Steps \ resolved
            ready == Ready(deps, remaining, resolved)
            rest == From[resolved \cup ready]
        IN  IF remaining = {} THEN <<>>
            ELSE IF ready # {} THEN IF rest = None THEN None ELSE <<ready>> \o rest
            ELSE IF hard THEN None ELSE <<remaining>>
  IN  From[{}]

Waves(deps, hard) ==
  IF hard /\ \E s \in Steps : Unknown \in deps[s] THEN None
  ELSE WavesFrom([s \in Steps |-> deps[s] \ {Unknown}], hard)

-----------------------------------------------------------------------------
(* BotSkillTagRouter, SpeculativeToolPrefetch, RunReplayDiff *)

\* mutant: the bots that share a tag are asked in the order of their names
Route_ByName(tags, tokens) == SortedBy({b \in Steps : tags[b] \cap tokens # {}}, LAMBDA b, c : b < c)
\* The bots that share a tag with the task, most tags first, then by name.
Route(tags, tokens) ==
  LET score(b) == Cardinality(tags[b] \cap tokens) IN
  SortedBy({b \in Steps : score(b) > 0},
           LAMBDA b, c : score(b) > score(c) \/ (score(b) = score(c) /\ b < c))

\* Scores in units of 1 / len(recent): every use counts one and its position,
\* a hint counts five.
Score(c, t) ==
  LET len == HigherOf(Len(c.recent), 1) IN
  FoldLeft(+, 0, [i \in DOMAIN c.recent |-> IF c.recent[i] = t THEN len + i - 1 ELSE 0])
    + IF t \in c.hinted THEN 5 * len ELSE 0
\* mutant: hints that leave no place to the tools in use are dropped
Prefetch_Unhinted(c) ==
  LET used == [c EXCEPT !.hinted = {}]
      ranked == SortedBy(c.available, LAMBDA t, u : \/ Score(used, t) > Score(used, u)
                                                    \/ Score(used, t) = Score(used, u) /\ t < u)
  IN  SubSeq(ranked, 1, LowerOf(c.max, Len(ranked)))
Prefetch(c) ==
  LET ranked == SortedBy(c.available, LAMBDA t, u : \/ Score(c, t) > Score(c, u)
                                                    \/ Score(c, t) = Score(c, u) /\ t < u)
  IN  SubSeq(ranked, 1, LowerOf(c.max, Len(ranked)))

\* mutant: the runs are compared as far as the shorter one goes
Diff_Shared(left, right) ==
  [changed |-> {i \in 1..LowerOf(Len(left), Len(right)) : left[i] # right[i]}, removed |-> {}, added |-> {}]
Diff(left, right) ==
  LET shared == LowerOf(Len(left), Len(right)) IN
  [changed |-> {i \in 1..shared : left[i] # right[i]},
   removed |-> (shared + 1)..Len(left),
   added   |-> (shared + 1)..Len(right)]

-----------------------------------------------------------------------------
(* ToolCallLatencyTracker: the ring buffer and its nearest-rank percentile *)

Retained(samples, max) ==
  SubSeq(samples, HigherOf(1, Len(samples) - max + 1), Len(samples))
\* mutant: the rank is rounded down
Percentile_Floor(samples, pct) ==
  LET n == Len(samples)
      order == SortedBy(1..n, LAMBDA i, j : samples[i] < samples[j] \/ (samples[i] = samples[j] /\ i < j))
  IN  samples[order[HigherOf(1, (pct * n) \div 100)]]
Percentile(samples, pct) ==
  LET n == Len(samples)
      order == SortedBy(1..n, LAMBDA i, j : samples[i] < samples[j] \/ (samples[i] = samples[j] /\ i < j))
  IN  samples[order[LowerOf(n, HigherOf(1, (pct * n + 99) \div 100))]]

-----------------------------------------------------------------------------
(* ToolResultTruncator, EventLogCompactor, ConversationSummarizer *)

Ends(n, head, tail, between) ==
  SubSeq(Positions(n), 1, head) \o between \o SubSeq(Positions(n), n - tail + 1, n)

\* mutant: the marker comes on top of what is kept
Truncate_Marked(n, max, marker) ==
  IF n <= max THEN Positions(n)
  ELSE Ends(n, max \div 2, max - max \div 2, [i \in 1..marker |-> Marker])
Truncate(n, max, marker) ==
  IF n <= max THEN Positions(n)
  ELSE IF marker >= max THEN SubSeq(Positions(n), 1, max)
  ELSE LET remaining == max - marker  head == remaining \div 2 IN
       Ends(n, head, remaining - head, [i \in 1..marker |-> Marker])

Compact(n, head, tail) ==
  IF n <= head + tail THEN Positions(n) ELSE Ends(n, head, tail, <<Marker>>)

\* What summarize keeps verbatim; the keywords of the rest are Marker.
Summarize(n, head, tail) ==
  LET h == LowerOf(head, n)  t == LowerOf(tail, n - h) IN
  Ends(n, h, t, IF n > h + t THEN <<Marker>> ELSE <<>>)

-----------------------------------------------------------------------------

ResolveOrder == call.fn = "order" /\ Returns(Order(call.deps))
PlanWaves == call.fn = "waves" /\ Returns([waves |-> Waves(call.deps, call.hard)])
RouteTask == call.fn = "route" /\ Returns(Route(call.tags, call.tokens))
PlanPrefetch == call.fn = "prefetch" /\ Returns(Prefetch(call))
DiffRuns == call.fn = "diff" /\ Returns(Diff(call.left, call.right))
Stats ==
  /\ call.fn = "percentile" /\ call.samples # <<>>
  /\ Returns(Percentile(Retained(call.samples, call.max), call.pct))
TruncateText == call.fn = "truncate" /\ Returns(Truncate(call.n, call.max, call.marker))
CompactEvents == call.fn = "compact" /\ Returns(Compact(call.n, call.head, call.tail))
SummarizeMessages ==
  call.fn = "summarize" /\ Returns(Summarize(call.n, call.head, call.tail))

GradeQuotient == call.fn = "gate" /\ \E grade \in Grades(call.gate, call.n, call.d) : Returns(grade)
GradeShare == call.fn = "share" /\ Returns(ShareGrade(call.gate, call.q))
GradeCount == call.fn = "count" /\ Returns(CountGrade(call.gate, call.n, call.limit))

\* execute: arguments that cannot be mapped are an error of their own.
ExecuteTool ==
  LET args == Coerced(call.schema, call.payload) IN
  /\ call.fn = "execute"
  /\ Returns([sent  |-> args,
              error |-> IF args = None THEN "invalid_arguments" ELSE ErrorKind(call.outcome, call.valid)])
CapResult == call.fn = "cap" /\ Returns(ResultText(call.text, call.limit, call.margin, call.redacts))

PatchJson == call.fn = "patch" /\ Returns([doc |-> ApplyPatch(call.doc, <<call.op>>)])
MergeJson == call.fn = "merge" /\ Returns(MergePatch[<<call.left, call.right>>])
FlattenJson == call.fn = "flatten" /\ \E entries \in Flattenings(call.doc) : Returns([entries |-> entries])
UnflattenJson == call.fn = "unflatten" /\ Returns([doc |-> Unflatten(call.entries)])
DiffJson == call.fn = "paths" /\ Returns([paths |-> DifferentPaths[<<call.left, call.right>>]])

PivotCsv == call.fn = "pivot" /\ Returns([table |-> Pivot(call.rows)])
JoinCsv == call.fn = "join" /\ Returns(Join(call.left, call.right, 2, call.how))
GroupCsv == call.fn = "groupby" /\ Returns([groups |-> GroupBy(call.rows, call.agg)])
UniqueCsv == call.fn = "unique" /\ Returns([rows |-> Unique(call.rows, 2)])
SortCsv == call.fn = "sort" /\ Returns(SortRows(call.rows, call.descending, call.numeric))
DiffCsv == call.fn = "difftables" /\ Returns([diff |-> DiffTables(call.left, call.right, 2)])
WindowCsv == call.fn = "windows" /\ Returns([windows |-> Windows(call.n, call.start, call.size, call.step)])
CompareSemver ==
  /\ call.fn = "versions"
  /\ Returns(<<CompareVersions(call.a, call.b), CompareVersions(call.b, call.c), CompareVersions(call.a, call.c)>>)

\* The call is over, or was made with nothing to answer.
Returned ==
  /\ result # None \/ (call.fn = "percentile" /\ call.samples = <<>>)
  /\ UNCHANGED planVars

PlanNext ==
  \/ ResolveOrder \/ PlanWaves \/ RouteTask \/ PlanPrefetch \/ DiffRuns \/ Stats
  \/ TruncateText \/ CompactEvents \/ SummarizeMessages
  \/ GradeQuotient \/ GradeShare \/ GradeCount \/ ExecuteTool \/ CapResult
  \/ PatchJson \/ MergeJson \/ DiffJson \/ FlattenJson \/ UnflattenJson
  \/ PivotCsv \/ JoinCsv \/ GroupCsv \/ UniqueCsv \/ SortCsv \/ DiffCsv \/ WindowCsv
  \/ CompareSemver \/ Returned

PlanSpec == PlanInit /\ [][PlanNext]_planVars

-----------------------------------------------------------------------------
(* Properties *)

\* Some non-empty set of steps each of which waits for another one of the set.
Cyclic(deps) == \E S \in (SUBSET Steps) \ {{}} : \A s \in S : deps[s] \cap S # {}

\* resolve returns "a stable topological order": every step of a plan without
\* cycles and unknown steps is ordered, behind all the steps it depends on.
OrderIsTopological ==
  result # None /\ call.fn = "order" =>
    IF Cyclic(call.deps) \/ \E s \in Steps : Unknown \in call.deps[s]
      THEN ~result.ok
      ELSE /\ result.ok
           /\ \A i, j \in DOMAIN result.order :
                result.order[i] \in call.deps[result.order[j]] => i < j

\* In hard mode plan raises exactly on cyclic or unknown dependencies.  Waves
\* partition the tools; a tool runs one wave after the last of the tools it
\* depends on, so no wave could start it earlier; advisory mode puts what is
\* on or behind a cycle, and nothing else, in one last wave.
WavesMeetDependencies(c, waves) ==
  LET known == [s \in Steps |-> c.deps[s] \ {Unknown}]
      wave(t) == CHOOSE i \in DOMAIN waves : t \in waves[i]
      stuck == UNION {S \in SUBSET Steps : \A s \in S : known[s] \cap S # {}}
  IN  IF c.hard /\ (Cyclic(known) \/ known # c.deps) THEN waves = None
      ELSE /\ UNION {waves[i] : i \in DOMAIN waves} = Steps
           /\ \A i, j \in DOMAIN waves : i # j => waves[i] \cap waves[j] = {}
           /\ stuck # {} => waves[Len(waves)] = stuck
           /\ \A t \in Steps \ stuck :
                /\ \A d \in known[t] : wave(d) < wave(t)
                /\ wave(t) = 1 \/ \E d \in known[t] : wave(d) = wave(t) - 1

\* What is cut stays within the budget, is a beginning and an end of the
\* original in order, repeats nothing, and is marked when something is gone.
CutKeepsEnds(c, cut) ==
  LET kept == {i \in DOMAIN cut : cut[i] # Marker} IN
  /\ c.fn = "truncate" => Len(cut) <= c.max /\ (c.n > 0 /\ c.max > 0 => cut # <<>>)
  /\ c.fn = "compact" => Len(cut) <= c.head + c.tail + 1
  /\ \A i \in kept : cut[i] = i \/ cut[i] = c.n - Len(cut) + i
  /\ \A i, j \in kept : i < j => cut[i] < cut[j]
  /\ kept = DOMAIN cut /\ (c.fn = "truncate" => c.marker < c.max) => cut = Positions(c.n)

\* A measurement in half ten-thousandths.
HalfUnits(n) == 20000 * n

\* Rounding moves a grade by at most half a ten-thousandth, and to one side.
\* A rising gate that counts a limit itself as passed may grade that much too
\* early and never misses a limit that was reached.  The other gates never
\* grade too early, and miss a quotient that is past its limit by no more.
GradedByQuotient(c, grade) ==
  LET g == c.gate
      n == HalfUnits(c.n)
      d == GreaterOf(c.d, 1)
      past(l) == CASE g.up /\ g.inclusive  -> n >= 2 * l * d
                   [] g.up /\ ~g.inclusive -> n > (2 * l + 1) * d
                   [] ~g.up -> n < (2 * l - 1) * d
      near(l) == CASE g.up /\ g.inclusive  -> n >= (2 * l - 1) * d
                   [] g.up /\ ~g.inclusive -> n > 2 * l * d
                   [] ~g.up -> n < 2 * l * d
  IN  /\ past(g.hard) => grade = 2
      /\ past(g.soft) => grade >= 1
      /\ grade = 2 => near(g.hard)
      /\ grade >= 1 => near(g.soft)

\* A call is sent with all required arguments, never with raw text for an
\* argument of another type, and only a valid answer to it is a success.
ToolResultIsHonest(c, answer) ==
  /\ answer.sent # None =>
       /\ ToSet(c.schema.required) \subseteq DOMAIN answer.sent
       /\ \A k \in DOMAIN answer.sent : answer.sent[k] = "text" => k \notin c.schema.typed
  /\ answer.error = "none" => answer.sent # None /\ c.outcome = "answer" /\ c.valid
  /\ c.payload.shape = "plain" /\ c.schema.required = <<>> /\ c.schema.typed = {}
       => (answer.sent = None <=> Len(c.schema.properties) > 1)

\* The content of a result is a beginning of the (redacted) answer in whole
\* characters, within the limit, and truncated says whether it is all of it.
CapIsHonest(c, capped) ==
  LET whole == IF c.redacts THEN Redacted(c.text) ELSE c.text IN
  /\ IsPrefix(capped.kept, whole)
  /\ Size(capped.kept) <= c.limit
  /\ capped.truncated <=> capped.kept # whole

\* A share gets one grade for every limit it misses.
GradedByMisses(c, grade) ==
  grade = Cardinality({l \in IF c.gate = "kappa" THEN {6000, 2000} ELSE {10000, 7500, 5000} : c.q < l})

\* Near quorum is half of it; only a replan budget of one is exhausted unwarned;
\* a tool gets a grade for every class it is above the maximum, up to two.
GradedByCount(c, grade) ==
  /\ c.gate = "quorum" => (grade <= 1 <=> c.n >= 1 /\ 2 * c.n >= c.limit)
  /\ c.gate = "replan" => (grade = 0 /\ c.n + 1 >= c.limit => c.limit = 1)
  /\ c.gate = "egress" => grade = LowerOf(2, HigherOf(0, c.n - c.limit))

\* Two runs are compared event by event: no difference is found exactly
\* between equal ones.
DiffFindsAll(c, diff) ==
  diff = [changed |-> {}, removed |-> {}, added |-> {}] <=> c.left = c.right

\* The smallest sample that at least pct percent do not exceed.
PercentileIsNearestRank(c, value) ==
  LET kept == Retained(c.samples, c.max)
      below(v) == Cardinality({i \in DOMAIN kept : kept[i] <= v})
  IN  /\ \E i \in DOMAIN kept : kept[i] = value
      /\ 100 * below(value) >= c.pct * Len(kept)
      /\ \A i \in DOMAIN kept : kept[i] < value => 100 * below(kept[i]) < c.pct * Len(kept)

\* A task with a suitable bot is routed, and no bot shares more tags with it.
RoutedToBest(c, route) ==
  \A b \in Steps :
    c.tags[b] \cap c.tokens # {} =>
      /\ route # <<>>
      /\ Cardinality(c.tags[b] \cap c.tokens) <= Cardinality(c.tags[route[1]] \cap c.tokens)

\* As many tools as there may be; none was left out that was hinted, unless
\* each of those taken was hinted or used as often as a hint counts, which
\* without any use in the history none was.
PrefetchedByScore(c, tools) ==
  /\ Len(tools) = LowerOf(c.max, Cardinality(c.available))
  /\ \A t \in c.available \ Range(tools), u \in Range(tools) :
       t \in c.hinted => u \in c.hinted \/ Score(c, u) >= 5 * HigherOf(Len(c.recent), 1)

\* The functions of the guards and planners, and what becomes of texts on
\* the way to a tool and back, answer as their reference definitions do.
PlansMeetContracts ==
  result # None =>
    /\ call.fn = "waves" => WavesMeetDependencies(call, result.waves)
    /\ call.fn = "gate" => GradedByQuotient(call, result)
    /\ call.fn = "share" => GradedByMisses(call, result)
    /\ call.fn = "count" => GradedByCount(call, result)
    /\ call.fn = "execute" => ToolResultIsHonest(call, result)
    /\ call.fn = "cap" => CapIsHonest(call, result)
    /\ call.fn \in {"truncate", "compact", "summarize"} => CutKeepsEnds(call, result)
    /\ call.fn = "diff" => DiffFindsAll(call, result)
    /\ call.fn = "percentile" => PercentileIsNearestRank(call, result)
    /\ call.fn = "route" => RoutedToBest(call, result)
    /\ call.fn = "prefetch" => PrefetchedByScore(call, result)

\* The tools that edit documents, likewise.
JsonToolsMeetContracts ==
  result # None =>
    /\ call.fn = "patch" => PatchCanBeUndone(call.doc, call.op, result.doc)
    /\ call.fn = "merge" => MergeIsIdempotent(call.left, call.right, result)
    /\ call.fn = "paths" => PathsTellDifferences(call.left, call.right, result.paths)
    /\ call.fn = "flatten" => FlattenKeepsDocument(call.doc, result.entries)
    /\ call.fn = "unflatten" => UnflattenKeepsKeys(call.entries, result.doc)

\* The tools that reshape tables and order versions, likewise.
CsvToolsMeetContracts ==
  result # None =>
    /\ call.fn = "pivot" => PivotKeepsValues(call.rows, result.table)
    /\ call.fn = "join" => JoinHasAllPairs(call, result)
    /\ call.fn = "groupby" => GroupsPartition(call, result.groups)
    /\ call.fn = "unique" => UniqueKeepsFirst(call.rows, result.rows)
    /\ call.fn = "sort" => SortIsStable(call, result)
    /\ call.fn = "difftables" => DiffTurnsAround(call, result.diff)
    /\ call.fn = "windows" => WindowsFit(call, result.windows)
    /\ call.fn = "versions" => VersionsOrdered(call, result)
=============================================================================
