------------------------------- MODULE EventLog -------------------------------
(***************************************************************************)
(* event_log.py: SQLiteEventLog objects of several processes over one      *)
(* database file in WAL mode.  append is a SELECT of the next sequence     *)
(* number, an INSERT and a COMMIT, and each of them is a step of its own.  *)
(*                                                                         *)
(* Python's sqlite3 opens a transaction before an INSERT and leaves it     *)
(* open when the INSERT raises: append neither rolls back nor retries.     *)
(* What a connection sees and may write afterwards depends on that         *)
(* transaction, which is why its state is modelled.                        *)
(***************************************************************************)
EXTENDS Integers, Sequences, FiniteSets

CONSTANTS
  Conns,      \* SQLiteEventLog objects, one per process
  RunIds,
  Events,     \* event type, state and payload of an event
  None,       \* no event
  MaxRows     \* bound on the rows of a run

ASSUME LogConstantsOK ==
  /\ None \notin RunIds \cup Events
  /\ MaxRows \in Nat

VARIABLES
  rows,     \* committed: rows[r] maps the seq of a row to its event
  tx,       \* tx[c]: the transaction of connection c
  view,     \* view[c]: what c sees inside a transaction that has read
  call,     \* call[c]: the append in progress, its seq once it has one
  acks      \* history: the records append returned

eventVars == <<rows, tx, view, call, acks>>

\* A transaction: closed connection, none open, BEGIN executed, a snapshot
\* held since the first SELECT in it, or the write lock held.
TxState == {"closed", "auto", "begun", "reading", "writing"}

Empty == [r \in RunIds |-> <<>>]

NoCall == [pc |-> "idle", run |-> None, event |-> None, seq |-> 0]

Init ==
  /\ rows = Empty
  /\ tx = [c \in Conns |-> "closed"]
  /\ view = [c \in Conns |-> Empty]
  /\ call = [c \in Conns |-> NoCall]
  /\ acks = {}

-----------------------------------------------------------------------------
(* SQLite in WAL mode, as the log uses it *)

HasSnapshot(c) == tx[c] \in {"reading", "writing"}

\* The table a SELECT of c reads.
Seen(c) == IF HasSnapshot(c) THEN view[c] ELSE rows

\* A SELECT outside a transaction holds nothing; the first one inside a
\* transaction keeps what it saw until the transaction ends.
Select(c) ==
  IF tx[c] = "begun"
  THEN /\ tx' = [tx EXCEPT ![c] = "reading"]
       /\ view' = [view EXCEPT ![c] = rows]
  ELSE UNCHANGED <<tx, view>>

LockedByOther(c) == \E d \in Conns \ {c} : tx[d] = "writing"

\* An INSERT may write if nobody else does and its snapshot is current.
CanWrite_Stale(c) == ~LockedByOther(c)   \* mutant: an old snapshot will do
CanWrite(c) == ~LockedByOther(c) /\ (tx[c] = "reading" => view[c] = rows)

\* The transaction and the snapshot are gone.
EndTx(c, state) ==
  /\ tx' = [tx EXCEPT ![c] = state]
  /\ view' = [view EXCEPT ![c] = Empty]

\* PRIMARY KEY (run_id, seq)
KeyTaken_Never(table, r, seq) == FALSE   \* mutant: a table without the key
KeyTaken(table, r, seq) == seq \in DOMAIN table[r]

WithRow(table, r, seq, e) ==
  [table EXCEPT ![r] = [i \in DOMAIN @ \cup {seq} |-> IF i = seq THEN e ELSE @[i]]]

-----------------------------------------------------------------------------
(* SQLiteEventLog *)

\* __init__
Open(c) ==
  /\ tx[c] = "closed"
  /\ EndTx(c, "auto")
  /\ UNCHANGED <<rows, call, acks>>

\* _next_sequence: COALESCE(MAX(seq), 0) + 1
next_sequence_AllRuns(table, r) ==   \* mutant: without WHERE run_id = ?
  LET seqs == UNION {DOMAIN table[q] : q \in RunIds}
  IN  IF seqs = {} THEN 1 ELSE (CHOOSE m \in seqs : \A s \in seqs : s <= m) + 1
next_sequence(table, r) ==
  LET seqs == DOMAIN table[r]
  IN  IF seqs = {} THEN 1 ELSE (CHOOSE m \in seqs : \A s \in seqs : s <= m) + 1

AppendSelect(c, r, e) ==
  /\ tx[c] # "closed"
  /\ call[c].pc = "idle"
  /\ Cardinality(DOMAIN Seen(c)[r]) < MaxRows
  /\ call' = [call EXCEPT ![c] = [pc |-> "insert", run |-> r, event |-> e,
                                  seq |-> next_sequence(Seen(c), r)]]
  /\ Select(c)
  /\ UNCHANGED <<rows, acks>>

\* The INSERT is done, inside the transaction.
AppendInsert(c) ==
  LET a == call[c]
      table == Seen(c)
  IN  /\ a.pc = "insert"
      /\ CanWrite(c)
      /\ ~KeyTaken(table, a.run, a.seq)
      /\ tx' = [tx EXCEPT ![c] = "writing"]
      /\ view' = [view EXCEPT ![c] = WithRow(table, a.run, a.seq, a.event)]
      /\ call' = [call EXCEPT ![c].pc = "commit"]
      /\ UNCHANGED <<rows, acks>>

\* The INSERT raises IntegrityError: another process took the seq.  The
\* transaction stays open and keeps the write lock.
AppendConflict(c) ==
  LET a == call[c]
      table == Seen(c)
  IN  /\ a.pc = "insert"
          /\ CanWrite(c)
      /\ KeyTaken(table, a.run, a.seq)
      /\ tx' = [tx EXCEPT ![c] = "writing"]
      /\ view' = [view EXCEPT ![c] = table]
      /\ call' = [call EXCEPT ![c] = NoCall]
          /\ UNCHANGED <<rows, acks>>

\* The INSERT raises OperationalError, "database is locked": at once if the
\* snapshot is old, else after the busy timeout sqlite3.connect sets.  The
\* transaction stays open.
GivesUp_Never(c) == tx[c] = "reading" /\ view[c] # rows   \* mutant: no busy timeout
GivesUp(c) == ~CanWrite(c)

AppendLocked(c) ==
  /\ call[c].pc = "insert"
  /\ GivesUp(c)
  /\ tx' = [tx EXCEPT ![c] = IF @ = "auto" THEN "begun" ELSE @]
  /\ call' = [call EXCEPT ![c] = NoCall]
  /\ UNCHANGED <<rows, view, acks>>

\* COMMIT, and append returns the record.
AppendCommit(c) ==
  LET a == call[c]
  IN  /\ a.pc = "commit"
      /\ rows' = view[c]
      /\ EndTx(c, "auto")
      /\ call' = [call EXCEPT ![c] = NoCall]
      /\ acks' = acks \cup {[run |-> a.run, seq |-> a.seq, event |-> a.event]}

\* list_events: it reads what Seen says and may take a snapshot.
ListEvents(c) ==
  /\ tx[c] # "closed"
  /\ call[c].pc = "idle"
  /\ Select(c)
  /\ UNCHANGED <<rows, call, acks>>

\* close, which ends an open transaction without committing it.
Close(c) ==
  /\ tx[c] # "closed"
  /\ call[c].pc = "idle"
  /\ EndTx(c, "closed")
  /\ UNCHANGED <<rows, call, acks>>

\* The process dies during an append.
Crash(c) ==
  /\ call[c].pc # "idle"
  /\ EndTx(c, "closed")
  /\ call' = [call EXCEPT ![c] = NoCall]
  /\ UNCHANGED <<rows, acks>>

-----------------------------------------------------------------------------

AppendStep(c) ==
  AppendInsert(c) \/ AppendConflict(c) \/ AppendLocked(c) \/ AppendCommit(c)

Next ==
  \E c \in Conns :
    \/ Open(c) \/ ListEvents(c) \/ Close(c) \/ Crash(c)
    \/ \E r \in RunIds, e \in Events : AppendSelect(c, r, e)
    \/ AppendStep(c)

Spec == Init /\ [][Next]_eventVars

\* An append that was begun goes on: no statement of it blocks for longer
\* than the busy timeout.
FairSpec == Spec /\ \A c \in Conns : WF_eventVars(AppendStep(c))

-----------------------------------------------------------------------------
(* Properties *)

\* Tables as the list_events callers read them, and appends in progress.
Table == [RunIds -> Seq(Events)]
AppendCall == [pc : {"insert", "commit"}, run : RunIds, event : Events, seq : Nat \ {0}]

\* Every variable stays in the set of values the program can give it.
TypeOK ==
  /\ rows \in Table
  /\ tx \in [Conns -> TxState]
  /\ view \in [Conns -> Table]
  /\ call \in [Conns -> AppendCall \cup {NoCall}]
  /\ acks \subseteq [run : RunIds, seq : Nat \ {0}, event : Events]

\* The sequence numbers of a run are 1, 2, 3... without a gap, whichever
\* processes append at the same time and wherever they are refused or die.
Gapless ==
  \A r \in RunIds : \A s \in DOMAIN rows[r] :
    s \in Nat \ {0} /\ (s > 1 => s - 1 \in DOMAIN rows[r])

\* A record append returned is in the log for good, under its seq: no later
\* append, of a process that numbered its row at the same time or that
\* still holds an old snapshot, takes its place.
ReturnedIsDurable ==
  \A a \in acks : a.seq \in DOMAIN rows[a.run] /\ rows[a.run][a.seq] = a.event

IsStartOf(s, t) == DOMAIN s \subseteq DOMAIN t /\ \A i \in DOMAIN s : s[i] = t[i]

\* Whatever a connection reads between two appends is a prefix of the
\* committed events of the run: possibly old (a failed append leaves its
\* transaction open, and that keeps a snapshot), never uncommitted, never
\* in another order.
ReadsArePrefixes ==
  \A c \in Conns : call[c].pc # "commit" =>
    \A r \in RunIds : IsStartOf(Seen(c)[r], rows[r])

\* Every append ends, with a record or with an exception, even behind a
\* connection that failed and still holds the write lock.
AppendsEnd == \A c \in Conns : call[c].pc # "idle" ~> call[c].pc = "idle"

\* The table implements AppendOnlyLog: an append takes effect at once, at
\* its COMMIT, and an append that raises has no effect.
AppendOnly == INSTANCE AppendOnlyLog WITH log <- rows, known <- acks

ImplementsAppendOnlyLog == AppendOnly!LogSpec

-----------------------------------------------------------------------------
(* The inductive invariant behind the theorems *)

\* At most one connection holds the write lock.
OneWriter ==
  \A c, d \in Conns : tx[c] = "writing" /\ tx[d] = "writing" => c = d

\* A number that was read is at most one beyond the end; a connection with
\* the lock sees all that is committed, and its own row once inserted.
NumberOK(c) ==
  /\ call[c].pc # "idle" => tx[c] # "closed"
  /\ call[c].pc = "insert" =>
       /\ call[c].seq <= Len(rows[call[c].run]) + 1
       /\ HasSnapshot(c) => call[c].seq = Len(view[c][call[c].run]) + 1
  /\ call[c].pc = "commit" =>
       /\ tx[c] = "writing"
       /\ call[c].seq = Len(rows[call[c].run]) + 1
       /\ view[c] = [rows EXCEPT ![call[c].run] = Append(@, call[c].event)]
  /\ tx[c] = "writing" /\ call[c].pc # "commit" => view[c] = rows

NumbersOK == \A c \in Conns : NumberOK(c)

LogInv == TypeOK /\ OneWriter /\ NumbersOK /\ ReadsArePrefixes /\ ReturnedIsDurable
=============================================================================
