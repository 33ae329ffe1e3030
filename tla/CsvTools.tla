------------------------------- MODULE CsvTools -------------------------------
(***************************************************************************)
(* The tools that reshape tables: csv_pivot (both modes), csv_melt,        *)
(* csv_join, csv_groupby, csv_sort, csv_unique, csv_diff and csv_window,   *)
(* and the versions that semver_compare orders.                            *)
(*                                                                         *)
(* A row is the sequence of its cells; a cell is a number, Empty for one   *)
(* without text.  The text -n - 1 is the text n with a blank before it.    *)
(* What the tools check of sizes, options and, where they are not of the   *)
(* tool's own making, headers before they look at the rows is left out:    *)
(* the rows are those of an accepted document.                             *)
(***************************************************************************)
EXTENDS Answers, FiniteSets, SequencesExt

Empty == 0
Cells == {Empty, 1}

\* cell.strip()
Stripped(cell) == IF cell < 0 THEN -cell - 1 ELSE cell

IsBlank(row) == \A i \in DOMAIN row : Stripped(row[i]) = Empty
NotBlank(rows) == At(rows, {i \in DOMAIN rows : ~IsBlank(rows[i])})
Padded(row, width) == [i \in 1..width |-> IF i \in DOMAIN row THEN row[i] ELSE Empty]

\* What the tools ask that take no row shorter or longer than the header.
Fits(rows, width) == \A i \in DOMAIN NotBlank(rows) : Len(NotBlank(rows)[i]) = width

Column(rows, j) == [i \in DOMAIN rows |-> rows[i][j]]

\* mutant: the places whose key is another one than that of the row before
Unseen_Neighbours(keys) == {i \in DOMAIN keys : i = 1 \/ keys[i] # keys[i - 1]}
\* The places whose key was not seen before; each value where it comes first.
Unseen(keys) ==
  FoldLeftDomain(LAMBDA seen, i : IF \E j \in seen : keys[j] = keys[i] THEN seen ELSE seen \cup {i}, {}, keys)
Distinct(values) == At(values, Unseen(values))

-----------------------------------------------------------------------------
(* csv_pivot: cells 1, 2 and 3 of a row are its index, column and value; the *)
(* index has the name IndexName in the header of the wide table              *)

IndexName == 2

PivotBody(rows) == [i \in DOMAIN NotBlank(rows) |-> Padded(NotBlank(rows)[i], 3)]

\* mutant: a cell that is given twice keeps its first value
Pivot_Twice(rows) ==
  LET body == PivotBody(rows)
      keys == Distinct(Column(body, 1))
      columns == Distinct(Column(body, 2))
      ValueAt(k, c) ==
        LET at == {i \in DOMAIN body : body[i][1] = k /\ body[i][2] = c} IN
        IF at = {} THEN Empty ELSE body[CHOOSE i \in at : \A j \in at : i <= j][3]
  IN  [columns |-> columns,
       rows |-> [i \in DOMAIN keys |-> <<keys[i]>> \o [j \in DOMAIN columns |-> ValueAt(keys[i], columns[j])]]]
Pivot(rows) ==
  LET body == PivotBody(rows)
      keys == Distinct(Column(body, 1))
      columns == Distinct(Column(body, 2))
      ValueAt(k, c) ==
        LET at == {i \in DOMAIN body : body[i][1] = k /\ body[i][2] = c} IN
        IF at = {} THEN Empty ELSE body[CHOOSE i \in at : TRUE][3]
  IN  IF \E i, j \in DOMAIN body : i # j /\ body[i][1] = body[j][1] /\ body[i][2] = body[j][2] THEN None
      ELSE [columns |-> columns,
            rows |-> [i \in DOMAIN keys |-> <<keys[i]>> \o [j \in DOMAIN columns |-> ValueAt(keys[i], columns[j])]]]

\* The names of the value columns, and whether the tools take them: some, all
\* with text, and none like another one or the index.
HeaderOf(columns) == [j \in DOMAIN columns |-> Stripped(columns[j])]
IsHeader(columns) ==
  LET names == HeaderOf(columns) IN
  columns # <<>> /\ IsInjective(names) /\ {Empty, IndexName} \cap ToSet(names) = {}

\* One row for each value column; the first cell is the id.
Long(row, names) == [j \in DOMAIN names |-> <<row[1], names[j], row[j + 1]>>]
Unpivot(columns, rows) ==
  IF ~IsHeader(columns) THEN None
  ELSE FlattenSeq([i \in DOMAIN NotBlank(rows) |->
                     Long(Padded(NotBlank(rows)[i], Len(columns) + 1), HeaderOf(columns))])
Melt(columns, rows) ==
  IF ~IsHeader(columns) \/ ~Fits(rows, Len(columns) + 1) THEN None
  ELSE FlattenSeq([i \in DOMAIN NotBlank(rows) |-> Long(NotBlank(rows)[i], HeaderOf(columns))])

-----------------------------------------------------------------------------
(* csv_join, csv_groupby, csv_unique: the key is the first cell *)

\* The rows with a key.
OfKey(rows, key) == At(rows, {i \in DOMAIN rows : rows[i][1] = key})

\* mutant: the right row that was read last hides the others of its key
Matches_Last(left, right) ==
  LET same == OfKey(NotBlank(right), left[1]) IN
  IF same = <<>> THEN <<>> ELSE <<Last(same)>>
Matches(left, right) == OfKey(NotBlank(right), left[1])

Join(left, right, width, how) ==
  LET body == NotBlank(left)
      Out(l) ==
        LET matches == Matches(l, right) IN
        IF matches # <<>> THEN [i \in DOMAIN matches |-> Padded(l, width) \o Tail(Padded(matches[i], width))]
        ELSE IF how = "left" THEN <<Padded(l, 2 * width - 1)>>
        ELSE <<>>
  IN  FlattenSeq([i \in DOMAIN body |-> Out(body[i])])

\* The value of a cell is its number; an empty one, which stands for any text
\* that is no number, refuses the table.  A mean is the quotient of its two.
Aggregate(agg, values) ==
  CASE agg = "sum"   -> <<FoldLeft(+, 0, values), 1>>
    [] agg = "count" -> <<Len(values), 1>>
    [] agg = "min"   -> <<CHOOSE v \in ToSet(values) : \A w \in ToSet(values) : v <= w, 1>>
    [] agg = "max"   -> <<CHOOSE v \in ToSet(values) : \A w \in ToSet(values) : v >= w, 1>>
    [] agg = "mean"  -> <<FoldLeft(+, 0, values), Len(values)>>
GroupBy(rows, agg) ==
  LET body == NotBlank(rows)
      keys == Distinct(Column(body, 1))
      Group(k) == Column(OfKey(body, k), 2)
  IN  IF body = <<>> \/ \E i \in DOMAIN body : Len(body[i]) < 2 \/ body[i][2] = Empty THEN None
      ELSE [i \in DOMAIN keys |-> [key |-> keys[i], value |-> Aggregate(agg, Group(keys[i]))]]

Unique(rows, width) ==
  IF ~Fits(rows, width) THEN None ELSE At(NotBlank(rows), Unseen(Column(NotBlank(rows), 1)))

-----------------------------------------------------------------------------
(* csv_sort: cells are numbered in their order as texts.  Cell 1 is a text   *)
(* of the number 10 and cell 2 one of 9, the others are no numbers.          *)

NumberOf(cell) == IF cell = 1 THEN 10 ELSE 9
IsNumber(cell) == cell \in {1, 2}

\* mutant: the sorted rows are reversed to have them descending
StableSorted_Reversed(rows, keys, descending) ==
  LET Before(i, j) == keys[i] < keys[j] \/ (keys[i] = keys[j] /\ i < j)
      order == IF descending THEN Reverse(SortedBy(DOMAIN rows, Before)) ELSE SortedBy(DOMAIN rows, Before)
  IN  [i \in DOMAIN order |-> rows[order[i]]]
\* sorted: rows with equal keys keep their order, also when it is reversed.
StableSorted(rows, keys, descending) ==
  LET Before(i, j) ==
        \/ IF descending THEN keys[i] > keys[j] ELSE keys[i] < keys[j]
        \/ keys[i] = keys[j] /\ i < j
      order == SortedBy(DOMAIN rows, Before)
  IN  [i \in DOMAIN order |-> rows[order[i]]]

SortRows(rows, descending, numeric) ==
  LET places == {i \in DOMAIN rows : IsNumber(rows[i][1])}
      numbers == At(rows, places)
      texts == At(rows, DOMAIN rows \ places)
  IN  IF ~numeric THEN StableSorted(rows, Column(rows, 1), descending)
      ELSE StableSorted(numbers, [i \in DOMAIN numbers |-> NumberOf(numbers[i][1])], descending)
             \o StableSorted(texts, Column(texts, 1), descending)

-----------------------------------------------------------------------------
(* csv_diff: rows by key; csv_window: blocks of rows *)

HasKeys(rows) ==
  /\ \A i \in DOMAIN rows : Stripped(rows[i][1]) # Empty
  /\ \A i, j \in DOMAIN rows : rows[i][1] = rows[j][1] => i = j
Indexed(rows) ==
  [k \in {rows[i][1] : i \in DOMAIN rows} |-> rows[CHOOSE i \in DOMAIN rows : rows[i][1] = k]]

\* mutant: a row of both tables is only looked for by its key
DiffTables_Keys(left, right, width) ==
  LET l == Indexed(NotBlank(left))  r == Indexed(NotBlank(right)) IN
  IF \E table \in {left, right} : ~Fits(table, width) \/ ~HasKeys(NotBlank(table)) THEN None
  ELSE [added |-> DOMAIN r \ DOMAIN l, removed |-> DOMAIN l \ DOMAIN r, changed |-> {}]
DiffTables(left, right, width) ==
  LET l == Indexed(NotBlank(left))  r == Indexed(NotBlank(right)) IN
  IF \E table \in {left, right} : ~Fits(table, width) \/ ~HasKeys(NotBlank(table)) THEN None
  ELSE [added   |-> DOMAIN r \ DOMAIN l,
        removed |-> DOMAIN l \ DOMAIN r,
        changed |-> {k \in DOMAIN l \cap DOMAIN r : l[k] # r[k]}]

\* mutant: a window that ends with the last row is not counted
Windows_Short(n, start, size, step) ==
  LET left == n - start - 1
      count == IF size > left THEN 0 ELSE (left - size) \div step + 1
  IN  IF count = 0 THEN None
      ELSE [w \in 1..count |-> LET first == start + (w - 1) * step + 1 IN first..(first + size - 1)]
\* The windows of n rows from start on, as intervals of row numbers.
Windows(n, start, size, step) ==
  LET left == n - start
      count == IF size > left THEN 0 ELSE (left - size) \div step + 1
  IN  IF start > n \/ count = 0 THEN None
      ELSE [w \in 1..count |-> LET first == start + (w - 1) * step + 1 IN first..(first + size - 1)]

-----------------------------------------------------------------------------
(* semver_compare: a version is its core and the identifiers of its        *)
(* pre-release.  The rank of a numeral is its number, with as many zeros   *)
(* before it as it is spelled with; that of a text is its place among the  *)
(* texts, from 10 on.                                                      *)

Sign(a, b) == IF a < b THEN -1 ELSE IF a > b THEN 1 ELSE 0
\* The first difference that is not 0.
FirstOf(signs) ==
  LET differ == {i \in DOMAIN signs : signs[i] # 0} IN
  IF differ = {} THEN 0 ELSE signs[CHOOSE i \in differ : \A j \in differ : i <= j]

IsNumeral(id) == id.rank < 10

\* mutant: numerals are compared as they are spelled
CompareIds_Spelled(a, b) ==
  IF IsNumeral(a) = IsNumeral(b)
    THEN IF a.zeros # b.zeros THEN Sign(b.zeros, a.zeros) ELSE Sign(a.rank, b.rank)
    ELSE IF IsNumeral(a) THEN -1 ELSE 1
\* Two numerals by what int() makes of them, without their zeros; two texts by
\* their order; a numeral before a text.
CompareIds(a, b) ==
  IF IsNumeral(a) = IsNumeral(b) THEN Sign(a.rank, b.rank) ELSE IF IsNumeral(a) THEN -1 ELSE 1
CompareVersions(a, b) ==
  LET core == FirstOf([i \in 1..3 |-> Sign(a.core[i], b.core[i])])
      shared == IF Len(a.pre) < Len(b.pre) THEN DOMAIN a.pre ELSE DOMAIN b.pre
      ids == FirstOf([i \in shared |-> CompareIds(a.pre[i], b.pre[i])])
  IN  IF core # 0 THEN core
      ELSE IF a.pre = <<>> \/ b.pre = <<>> THEN Sign(Len(b.pre), Len(a.pre))
      ELSE IF ids # 0 THEN ids ELSE Sign(Len(a.pre), Len(b.pre))

-----------------------------------------------------------------------------

Ragged(width, cells, n) ==
  SeqsUpTo(UNION {[1..w -> cells] : w \in {width - 1, width}}, n)
Long3 == {<<index, column, value>> : index \in Cells, column \in {Empty, 1, 2, -2}, value \in Cells}
Identifiers == {[rank |-> 0, zeros |-> 0], [rank |-> 1, zeros |-> 0], [rank |-> 1, zeros |-> 1], [rank |-> 10, zeros |-> 0]}
Versions ==
  [core : {<<0, 0, 0>>, <<0, 1, 0>>}, pre : SeqsUpTo(Identifiers, 2)]
CsvCalls ==
  [fn : {"pivot"}, rows : SeqsUpTo(Long3 \cup {SubSeq(row, 1, 2) : row \in Long3}, 3)]
    \cup [fn : {"join"}, how : {"inner", "left"}, left : Ragged(2, Cells, 2), right : Ragged(2, Cells, 2)]
    \cup [fn : {"groupby"}, agg : {"sum", "count", "min", "max", "mean"},
      rows : SeqsUpTo([1..2 -> 0..2], 3)]
    \cup [fn : {"unique"}, rows : Ragged(2, Cells, 4)]
    \cup [fn : {"sort"}, rows : {[i \in DOMAIN cells |-> <<cells[i], i>>] :
                                  cells \in SeqsUpTo(0..3, 4)},
          descending : BOOLEAN, numeric : BOOLEAN]
    \cup [fn : {"difftables"}, left : Ragged(2, Cells, 2), right : Ragged(2, Cells, 2)]
    \cup [fn : {"windows"}, n : 0..5, start : 0..5, size : 1..4, step : 1..3]
    \cup [fn : {"versions"}, a : Versions, b : Versions, c : Versions]

\* Unpivoting a pivot gives back every row that had a value, under the column
\* without the blanks around it, and melting the wide table is the same.  A
\* pivot cannot be unpivoted only if it is empty, a column has no name or that
\* of the index, or two columns differ only in blanks.
PivotKeepsValues(rows, result) ==
  LET body == PivotBody(rows)
      long == Unpivot(result.columns, result.rows)
      valued(table) == {row \in ToSet(table) : Stripped(row[3]) # Empty}
      SameName(i, j) == body[i][2] # body[j][2] /\ Stripped(body[i][2]) = Stripped(body[j][2])
  IN  result # None =>
        /\ Melt(result.columns, result.rows) = long
        /\ long # None => valued(long) = {<<row[1], Stripped(row[2]), row[3]>> : row \in valued(body)}
        /\ long = None => \/ body = <<>>
                          \/ \E i \in DOMAIN body : Stripped(body[i][2]) \in {Empty, IndexName}
                          \/ \E i, j \in DOMAIN body : SameName(i, j)

\* A join has a row for every pair of rows with the same key, whichever of the
\* tables is the left one, and a left join one for every left row without any.
JoinHasAllPairs(c, result) ==
  LET l == NotBlank(c.left)  r == NotBlank(c.right)
      pairs == {p \in (DOMAIN l) \X (DOMAIN r) : l[p[1]][1] = r[p[2]][1]}
      alone == DOMAIN l \ {p[1] : p \in pairs}
  IN  /\ Len(result) = Cardinality(pairs) + IF c.how = "left" THEN Cardinality(alone) ELSE 0
      /\ c.how = "inner" => {<<row[1], row[3], row[2]>> : row \in ToSet(result)} = ToSet(Join(r, l, 2, "inner"))

\* Every row is in exactly one group, and a mean lies between the extremes.
GroupsPartition(c, result) ==
  LET body == NotBlank(c.rows)
      least == GroupBy(c.rows, "min")  most == GroupBy(c.rows, "max")
      total == FoldLeft(LAMBDA n, group : n + group.value[1], 0, result)
  IN  result # None =>
        /\ \A i, j \in DOMAIN result : result[i].key = result[j].key => i = j
        /\ c.agg = "count" => total = Len(body)
        /\ c.agg = "sum" => total = FoldLeft(LAMBDA n, row : n + row[2], 0, body)
        /\ c.agg = "mean" =>
             \A i \in DOMAIN result :
               LET value == result[i].value IN
               least[i].value[1] * value[2] <= value[1] /\ value[1] <= most[i].value[1] * value[2]

\* The first row of every key is kept, and doing it again drops nothing.
UniqueKeepsFirst(rows, result) ==
  result # None =>
    /\ Unique(result, 2) = result
    /\ LET body == NotBlank(rows)
           first == {i \in DOMAIN body : \A j \in 1..(i - 1) : body[j][1] # body[i][1]}
       IN  Len(result) = Cardinality(first) /\ {body[i] : i \in first} = ToSet(result)

\* Sorting loses no row, keeps the order of equal keys in both directions and
\* leaves what is no number at the end in both.
SortIsStable(c, result) ==
  /\ Len(result) = Len(c.rows) /\ ToSet(result) = ToSet(c.rows)
  /\ \A i, j \in DOMAIN result :
       LET x == result[i][1]  y == result[j][1] IN
       i < j =>
         /\ x = y => result[i][2] < result[j][2]
         /\ c.numeric => (IsNumber(y) => IsNumber(x))
         /\ ~c.numeric => IF c.descending THEN x >= y ELSE x <= y
         /\ c.numeric /\ IsNumber(y) => IF c.descending THEN NumberOf(x) >= NumberOf(y) ELSE NumberOf(x) <= NumberOf(y)

\* A difference is empty exactly between equal tables, and turns around.
DiffTurnsAround(c, result) ==
  LET back == DiffTables(c.right, c.left, 2) IN
  IF result = None THEN back = None
  ELSE /\ back = [added |-> result.removed, removed |-> result.added, changed |-> result.changed]
       /\ UNION {result.added, result.removed, result.changed} = {}
             <=> ToSet(NotBlank(c.left)) = ToSet(NotBlank(c.right))

\* As many windows as fit: each of its size, a step behind the last one.
WindowsFit(c, result) ==
  IF result = None THEN c.start + c.size > c.n
  ELSE LET begin(w) == CHOOSE i \in result[w] : \A j \in result[w] : i <= j IN
       /\ \A w \in DOMAIN result : Cardinality(result[w]) = c.size /\ result[w] \subseteq (c.start + 1)..c.n
       /\ begin(1) = c.start + 1
       /\ \A w \in 2..Len(result) : begin(w) = begin(w - 1) + c.step
       /\ begin(Len(result)) + c.step + c.size > c.n + 1

\* A version without the spelling of its identifiers.
Plain(version) == [core |-> version.core, pre |-> [i \in DOMAIN version.pre |-> version.pre[i].rank]]

\* Precedence is a total order, but for the spelling of numerals, in which a
\* version without identifiers comes last, more identifiers come later, and a
\* text comes after a number.
VersionsOrdered(c, result) ==
  LET a == Plain(c.a)  b == Plain(c.b) IN
  /\ result[1] = -CompareVersions(c.b, c.a)
  /\ result[1] = 0 <=> a = b
  /\ result[1] <= 0 /\ result[2] <= 0 => result[3] <= 0
  /\ a.core = b.core /\ IsStrictPrefix(a.pre, b.pre) => result[1] = IF a.pre = <<>> THEN 1 ELSE -1
  /\ a.core = b.core /\ a.pre # <<>> /\ b.pre # <<>> /\ a.pre[1] < b.pre[1] => result[1] = -1
=============================================================================
