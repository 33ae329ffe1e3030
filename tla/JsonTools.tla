------------------------------- MODULE JsonTools -------------------------------
(***************************************************************************)
(* The tools that edit and compare JSON documents: json_patch_apply        *)
(* (RFC 6902), json_merge_patch (RFC 7396), json_diff_paths, json_flatten  *)
(* and json_unflatten.                                                     *)
(*                                                                         *)
(* A value is an atom (0 is null), a list or an object.  The tokens of a   *)
(* pointer, and the members of an object, are numbers: Dash is "-", Blank  *)
(* the empty name, which only json_flatten and json_unflatten are given,   *)
(* what is not negative is a decimal token, and Name is any other text.    *)
(***************************************************************************)
EXTENDS Answers, SequencesExt, Functions

CONSTANTS
  MaxPathDepth,    \* _MAX_PATH_DEPTH and _MAX_ARRAY_INDEX of json_unflatten
  MaxArrayIndex

Dash == -1
Blank == -2
Name == 7
Tokens == {Dash, 0, 1, Name}

Atom(n) == [kind |-> "atom", atom |-> n, items |-> <<>>]
List(s) == [kind |-> "list", atom |-> 0, items |-> s]
Object(f) == [kind |-> "object", atom |-> 0, items |-> f]
Null == Atom(0)

\* Members of a document, documents, and the paths into them.
Leaves == {Null, Atom(1), List(<<>>), Object(<<>>)} \cup {Object([k \in {Name} |-> v]) : v \in {Null, Atom(1)}}
Documents ==
  Leaves \cup {List(s) : s \in SeqsUpTo(Leaves, 2)}
         \cup {Object(f) : f \in UNION {[keys -> Leaves] : keys \in SUBSET {0, Name}}}
Paths == SeqsUpTo(Tokens, 2)

\* Documents of up to a depth, with members of any names and lists of any length.
Over(members, names) ==
  [kind : {"atom"}, atom : Int, items : {<<>>}]
    \cup [kind : {"list"}, atom : {0}, items : Seq(members)]
    \cup [kind : {"object"}, atom : {0}, items : UNION {[keys -> members] : keys \in SUBSET names}]
Nesting(names) ==
  LET Level[depth \in Nat] == IF depth = 0 THEN {} ELSE Over(Level[depth - 1], names) IN Level

-----------------------------------------------------------------------------
(* Pointers *)

\* An index into the list, or Dash for the place behind its end, which only
\* add accepts.
IsIndex(list, token) == token \in 0..(Len(list.items) - 1)
IsPlace(list, token) == token = Dash \/ token \in 0..Len(list.items)
Place(list, token) == IF token = Dash THEN Len(list.items) ELSE token

HasChild(value, token) ==
  \/ value.kind = "object" /\ token \in DOMAIN value.items
  \/ value.kind = "list" /\ IsIndex(value, token)
Slot(value, token) == IF value.kind = "list" THEN token + 1 ELSE token

Find(doc, path) ==
  FoldLeft(LAMBDA value, token :
             IF value # None /\ HasChild(value, token) THEN value.items[Slot(value, token)] ELSE None,
           doc, path)

\* The document with another value where the path, which it has, leads.
With(doc, path, new) ==
  LET Spine[i \in 0..Len(path)] ==
        LET value == Find(doc, SubSeq(path, 1, i)) IN
        IF i = Len(path) THEN new
        ELSE [value EXCEPT !.items[Slot(value, path[i + 1])] = Spine[i + 1]]
  IN  Spine[0]

-----------------------------------------------------------------------------
(* The operations of a patch; each returns the document, or None where it   *)
(* raises _PatchError                                                       *)

\* mutant: a list item is put over the one at the index
Inserted_Over(parent, token, value) ==
  IF parent.kind = "object"
    THEN Object([k \in DOMAIN parent.items \cup {token} |-> IF k = token THEN value ELSE parent.items[k]])
    ELSE List([i \in 1..Place(parent, token) + 1 |->
                 IF i = Place(parent, token) + 1 THEN value ELSE parent.items[i]])
Inserted(parent, token, value) ==
  IF parent.kind = "object"
    THEN Object([k \in DOMAIN parent.items \cup {token} |-> IF k = token THEN value ELSE parent.items[k]])
    ELSE List(InsertAt(parent.items, Place(parent, token) + 1, value))

AddValue(doc, path, value) ==
  IF path = <<>> THEN value
  ELSE LET parent == Find(doc, Front(path)) IN
       IF parent # None /\ (parent.kind = "object" \/ (parent.kind = "list" /\ IsPlace(parent, Last(path))))
         THEN With(doc, Front(path), Inserted(parent, Last(path), value))
         ELSE None

\* Removing the root leaves null.
RemoveValue(doc, path) ==
  IF path = <<>> THEN Null
  ELSE LET parent == Find(doc, Front(path))  token == Last(path) IN
       IF Find(doc, path) = None THEN None
       ELSE With(doc, Front(path),
                 IF parent.kind = "object" THEN Object(Restrict(parent.items, DOMAIN parent.items \ {token}))
                 ELSE List(RemoveAt(parent.items, token + 1)))

ReplaceValue(doc, path, value) ==
  IF Find(doc, path) = None THEN None ELSE With(doc, path, value)

CopyValue(doc, from, path) ==
  IF Find(doc, from) = None THEN None ELSE AddValue(doc, path, Find(doc, from))

\* mutant: the value stays where it was until it is at its destination
MoveValue_Late(doc, from, path) ==
  IF IsStrictPrefix(from, path) \/ Find(doc, from) = None THEN None
  ELSE LET moved == AddValue(doc, path, Find(doc, from)) IN
       IF moved = None THEN None ELSE RemoveValue(moved, from)
\* The destination is looked up when the value is already gone.
MoveValue(doc, from, path) ==
  IF IsStrictPrefix(from, path) \/ Find(doc, from) = None THEN None
  ELSE AddValue(RemoveValue(doc, from), path, Find(doc, from))

TestValue(doc, path, value) == IF Find(doc, path) = value THEN doc ELSE None

Patched(doc, op) ==
  CASE op.op = "add"     -> AddValue(doc, op.path, op.value)
    [] op.op = "remove"  -> RemoveValue(doc, op.path)
    [] op.op = "replace" -> ReplaceValue(doc, op.path, op.value)
    [] op.op = "copy"    -> CopyValue(doc, op.from, op.path)
    [] op.op = "move"    -> MoveValue(doc, op.from, op.path)
    [] op.op = "test"    -> TestValue(doc, op.path, op.value)

\* execute: the first operation that fails ends the patch without a result.
ApplyPatch(doc, patch) ==
  FoldLeft(LAMBDA result, op : IF result = None THEN None ELSE Patched(result, op), doc, patch)

-----------------------------------------------------------------------------
(* Merging and comparing *)

MergePatch[both \in Documents \X Documents] ==
  LET target == both[1]
      patch == both[2]
      old == IF target.kind = "object" THEN target.items ELSE <<>>
      member(k) == IF k \in DOMAIN old THEN old[k] ELSE Null
      gone == {k \in DOMAIN patch.items : patch.items[k] = Null}
  IN  IF patch.kind # "object" THEN patch
      ELSE Object([k \in (DOMAIN old \cup DOMAIN patch.items) \ gone |->
                     IF k \in DOMAIN patch.items THEN MergePatch[<<member(k), patch.items[k]>>] ELSE old[k]])

\* The paths at which two documents differ, a container that both have being
\* looked into.
DifferentPaths[pair \in Documents \X Documents] ==
  LET left == pair[1]
      right == pair[2]
      token(k) == IF left.kind = "list" THEN k - 1 ELSE k
      both == DOMAIN left.items \cap DOMAIN right.items
      one == (DOMAIN left.items \cup DOMAIN right.items) \ both
  IN  IF left.kind # right.kind \/ left.atom # right.atom THEN {<<>>}
      ELSE {<<token(k)>> : k \in one}
             \cup UNION {{<<token(k)>> \o path : path \in DifferentPaths[<<left.items[k], right.items[k]>>]} :
                           k \in both}

-----------------------------------------------------------------------------
(* Flattening: a flat key is the path of its components, the names and the   *)
(* indices, which the text of a key tells apart; names with a separator or a *)
(* bracket in them, the caps on keys and characters and other spellings of   *)
(* an index are left out.                                                    *)

ComponentsOver(names) == [kind : {"list"}, token : Nat] \cup [kind : {"object"}, token : names]
EntriesOver(parts, n, values) == [path : {p \in Seq(parts) : Len(p) <= n}, value : values]

\* The documents of four levels over these names, Nesting(Names)[4].
Names == {0, Name, Blank}
MapsTo(members) ==
  [{} -> members] \cup [{0} -> members] \cup [{Name} -> members] \cup [{Blank} -> members]
    \cup [{0, Name} -> members] \cup [{0, Blank} -> members] \cup [{Name, Blank} -> members]
    \cup [Names -> members]
Deeper(members) ==
  [kind : {"atom"}, atom : Int, items : {<<>>}]
    \cup [kind : {"list"}, atom : {0}, items : Seq(members)]
    \cup [kind : {"object"}, atom : {0}, items : MapsTo(members)]
Nested == Deeper(Deeper(Deeper(Deeper({}))))
Entries == EntriesOver(ComponentsOver(Names), 4, Nested)

\* The paths to what a document has at its ends.
Leads[value \in Nested] ==
  IF value.items = <<>> THEN {[path |-> <<>>, value |-> value]}
  ELSE UNION {{[path |-> <<[kind |-> value.kind, token |-> IF value.kind = "list" THEN k - 1 ELSE k]>> \o entry.path,
                value |-> entry.value] : entry \in Leads[value.items[k]]} : k \in DOMAIN value.items}

HasBlank(value) == value.kind = "object" /\ Blank \in DOMAIN value.items
IsBlankPart(component) == component.kind = "object" /\ component.token = Blank

\* What has no key of its own, the root, is not stored.
Keyed(value) == {entry \in Leads[value] : entry.path # <<>>}

\* _flatten_value: as long as the key is empty, a member with an empty name
\* adds nothing to it, not even the separator, so that its own members get the
\* keys of its neighbours.  Of two values with the same key the one that comes
\* later in the document is kept.
Collapsed[value \in Nested] ==
  LET inner == value.items[Blank]
      named == {entry \in Keyed(value) : ~IsBlankPart(entry.path[1])}
      Unless(entries, over) == {entry \in entries : \A other \in over : other.path # entry.path}
      Stored(within, later) ==
        LET behind == {entry \in named : entry.path[1].token \in later}
        IN  behind \cup Unless(within, behind) \cup Unless(named \ behind, within)
  IN  {Stored(within, later) : within \in IF HasBlank(inner) THEN Collapsed[inner] ELSE {Keyed(inner)},
                               later \in SUBSET DOMAIN value.items}
Flattenings(doc) == IF HasBlank(doc) THEN Collapsed[doc] ELSE {Keyed(doc)}

\* _parse_path: an empty key, an empty name in a key, a key that is too long,
\* an index that is too high.
Refused(path) ==
  \/ path = <<>> \/ Len(path) > MaxPathDepth
  \/ \E i \in DOMAIN path : IsBlankPart(path[i]) \/ (path[i].kind = "list" /\ path[i].token > MaxArrayIndex)

\* mutant: a name beside an index is taken for another name
Conflicting_Prefix(a, b) == IsPrefix(a, b)
\* _insert_path: a key leads through another one, or through a list where
\* another one leads through an object.
Conflicting(a, b) ==
  \/ IsPrefix(a, b)
  \/ \E n \in DOMAIN a \cap DOMAIN b :
       SubSeq(a, 1, n - 1) = SubSeq(b, 1, n - 1) /\ a[n].kind # b[n].kind

\* _render_node: the places of a list without a key are null.
Render[entries \in SUBSET Entries] ==
  LET first == {entry.path[1] : entry \in entries}
      under(c) == Render[{[path |-> Tail(entry.path), value |-> entry.value] :
                            entry \in {e \in entries : e.path[1] = c}}]
      list == [kind |-> "list", token |-> 0]
      size == 1 + FoldSet(LAMBDA c, n : IF c.token > n THEN c.token ELSE n, 0, first)
  IN  IF entries = {} THEN Object(<<>>)
      ELSE IF \E entry \in entries : entry.path = <<>> THEN (CHOOSE entry \in entries : TRUE).value
      ELSE IF \E c \in first : c.kind = "object"
        THEN Object([k \in {c.token : c \in first} |-> under([kind |-> "object", token |-> k])])
      ELSE List([i \in 1..size |->
                   LET c == [list EXCEPT !.token = i - 1] IN IF c \in first THEN under(c) ELSE Null])

\* mutant: keys are not checked before they are rebuilt
Unflatten_Unchecked(entries) ==
  IF \E a, b \in entries : a # b /\ Conflicting(a.path, b.path) THEN None ELSE Render[entries]
Unflatten(entries) ==
  IF \/ \E entry \in entries : Refused(entry.path)
     \/ \E a, b \in entries : a # b /\ Conflicting(a.path, b.path)
    THEN None ELSE Render[entries]

-----------------------------------------------------------------------------

Operations ==
  [op : {"add", "replace", "test"}, path : Paths, value : {Atom(1)}]
    \cup [op : {"remove"}, path : Paths] \cup [op : {"copy", "move"}, from : Paths, path : Paths]

\* Documents with empty names in them, and keys to be rebuilt.
Blanks ==
  {Object(f) : f \in UNION {[keys -> Leaves \cup {Object([k \in {Blank} |-> Atom(1)])}] : keys \in SUBSET {Name, Blank}}}
Parts(indices, names) == [kind : {"list"}, token : indices] \cup [kind : {"object"}, token : names]
KeyEntries(keys) == {[path |-> p, value |-> Atom(1)] : p \in keys}

JsonCalls ==
  [fn : {"patch"}, doc : Documents, op : Operations]
    \cup [fn : {"merge", "paths"}, left : Documents, right : Documents]
    \cup [fn : {"flatten"}, doc : Documents \cup Blanks]
    \cup {[fn |-> "unflatten", entries |-> KeyEntries(keys)] :
            keys \in (UNION {kSubset(n, SeqsUpTo(Parts({0, 1}, {0, Name}), 2)) : n \in 0..3})
                     \cup {{path} : path \in SeqsUpTo(Parts(0..2, {0, Name, Blank}), 3)}}

\* Where an added value is: Dash is the last index of its list then.
Landed(doc, path) ==
  IF path # <<>> /\ Last(path) = Dash /\ Find(doc, Front(path)).kind = "list"
    THEN Append(Front(path), Len(Find(doc, Front(path)).items) - 1) ELSE path

\* A patch that is applied has put its value where it says, and is undone by
\* the patch in the other direction; only an object member it put its value
\* over needs to be put back as well.  A test changes nothing.
PatchCanBeUndone(doc, op, result) ==
  LET at == Landed(result, op.path)
      removed == [op |-> "remove", path |-> at]
      put(path, value) == [op |-> "add", path |-> path, value |-> value]
      within == IF op.op = "move" THEN RemoveValue(doc, op.from) ELSE doc
      over == Find(within, op.path)
      isOver == over # None /\ (op.path = <<>> \/ Find(within, Front(op.path)).kind = "object")
      back == <<IF isOver THEN put(op.path, over) ELSE removed>>
  IN  result # None =>
        CASE op.op = "test" -> result = doc /\ Find(doc, op.path) = op.value
          [] op.op = "remove" -> ApplyPatch(result, <<put(op.path, Find(doc, op.path))>>) = doc
          [] op.op = "replace" -> /\ Find(result, op.path) = op.value
                                  /\ ReplaceValue(result, op.path, Find(doc, op.path)) = doc
          [] op.op = "add" -> Find(result, at) = op.value /\ ApplyPatch(result, back) = doc
          [] op.op = "copy" -> Find(result, at) = Find(doc, op.from) /\ ApplyPatch(result, back) = doc
          [] op.op = "move" -> /\ Find(result, at) = Find(doc, op.from)
                               /\ ApplyPatch(result, back \o <<put(op.from, Find(doc, op.from))>>) = doc

\* Merging the same patch again changes nothing, and null is never merged in.
MergeIsIdempotent(left, right, result) ==
  /\ MergePatch[<<result, right>>] = result
  /\ right.kind = "object" =>
       \A k \in DOMAIN right.items : k \in DOMAIN result.items <=> right.items[k] # Null

\* What no reported path leads to or through is the same in both documents.
PathsTellDifferences(left, right, result) ==
  \A path \in Paths :
    LET l == Find(left, path)  r == Find(right, path) IN
    IF \E p \in result : IsPrefix(p, path) THEN l # r \/ ~\E p \in result : p = path
    ELSE l = r \/ (l # None /\ r # None /\ l.kind = r.kind /\ l.kind # "atom")

\* A flattened document is rebuilt as it was, except that one without a key
\* becomes an empty object and one with a key json_unflatten does not take is
\* refused; one with an empty name at its root has lost that name.
FlattenKeepsDocument(doc, result) ==
  ~HasBlank(doc) =>
    Unflatten(result) = IF \E entry \in Keyed(doc) : Refused(entry.path) THEN None
                        ELSE IF doc.kind = "object" \/ doc.items # <<>> THEN doc ELSE Object(<<>>)

\* A rebuilt document has the value of every key, and else only nulls.
UnflattenKeepsKeys(entries, result) ==
  result # None =>
    \A flat \in Flattenings(result) :
      entries \subseteq flat /\ \A entry \in flat \ entries : entry.value = Null
=============================================================================
