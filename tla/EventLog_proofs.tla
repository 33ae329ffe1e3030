--------------------------- MODULE EventLog_proofs ---------------------------
(***************************************************************************)
(* LogInv is inductive, for any number of processes, runs and events, and  *)
(* the table implements AppendOnlyLog.                                     *)
(***************************************************************************)
EXTENDS EventLog, TLAPS

\* A row whose seq is the next one makes the function that maps seqs to
\* events a sequence that is one longer (INSERT).
LEMMA RowIsAppend ==
  ASSUME NEW table \in Table, NEW r \in RunIds, NEW e \in Events
  PROVE  /\ WithRow(table, r, Len(table[r]) + 1, e) = [table EXCEPT ![r] = Append(@, e)]
         /\ WithRow(table, r, Len(table[r]) + 1, e) \in Table
<1> DEFINE s == table[r]
           t == [i \in DOMAIN s \cup {Len(s) + 1} |-> IF i = Len(s) + 1 THEN e ELSE s[i]]
<1>1. s \in Seq(Events) /\ Len(s) \in Nat /\ DOMAIN s = 1..Len(s)
  BY DEF Table
<1>2. DOMAIN s \cup {Len(s) + 1} = 1..(Len(s) + 1)
  BY <1>1
<1>3. Append(s, e) \in Seq(Events) /\ DOMAIN Append(s, e) = 1..(Len(s) + 1)
  BY <1>1
<1>4. t = Append(s, e)
  <2>1. t = [i \in 1..(Len(s) + 1) |-> IF i = Len(s) + 1 THEN e ELSE s[i]]
    BY <1>2, Zenon
  <2>2. Append(s, e) = [i \in 1..(Len(s) + 1) |-> IF i = Len(s) + 1 THEN e ELSE s[i]]
    BY <1>1
  <2> QED BY <2>1, <2>2
<1>5. WithRow(table, r, Len(s) + 1, e) = [table EXCEPT ![r] = t]
  BY DEF WithRow, Table
<1> HIDE DEF t
<1>6. WithRow(table, r, Len(s) + 1, e) = [table EXCEPT ![r] = Append(s, e)]
  BY <1>4, <1>5
<1>7. [table EXCEPT ![r] = Append(s, e)] \in Table
  BY <1>3 DEF Table
<1> QED BY <1>6, <1>7

\* The next number of a sequence is its length plus one (_next_sequence).
LEMMA NextIsLength ==
  ASSUME NEW table \in Table, NEW r \in RunIds
  PROVE  next_sequence(table, r) = Len(table[r]) + 1
<1>1. table[r] \in Seq(Events) /\ Len(table[r]) \in Nat /\ DOMAIN table[r] = 1..Len(table[r])
  BY DEF Table
<1>2. CASE Len(table[r]) = 0
  <2>1. DOMAIN table[r] = {}
    BY <1>1, <1>2
  <2> QED BY <2>1, <1>2 DEF next_sequence
<1>3. CASE Len(table[r]) # 0
  <2> DEFINE n == Len(table[r])
  <2>1. n \in 1..n /\ 1..n # {} /\ \A k \in 1..n : k <= n
    BY <1>1, <1>3
  <2>2. \A m \in 1..n : (\A k \in 1..n : k <= m) => m = n
    BY <1>1, <2>1
  <2>3. (CHOOSE m \in 1..n : \A k \in 1..n : k <= m) = n
    BY <2>1, <2>2
  <2> QED BY <1>1, <2>1, <2>3 DEF next_sequence
<1> QED BY <1>1, <1>2, <1>3

\* A key that is at most one beyond the end and not taken is the next one.
LEMMA FreeIsNext ==
  ASSUME NEW table \in Table, NEW r \in RunIds, NEW q \in Nat \ {0},
         q <= Len(table[r]) + 1, ~KeyTaken(table, r, q)
  PROVE  q = Len(table[r]) + 1
<1>1. Len(table[r]) \in Nat /\ DOMAIN table[r] = 1..Len(table[r])
  BY DEF Table
<1> QED BY <1>1 DEF KeyTaken

\* What is committed is still there after another row is (COMMIT).
LEMMA StartOfAppend ==
  ASSUME NEW s \in Seq(Events), NEW t \in Seq(Events), NEW e \in Events, IsStartOf(s, t)
  PROVE  IsStartOf(s, Append(t, e))
<1>1. /\ Len(t) \in Nat /\ DOMAIN t = 1..Len(t)
      /\ DOMAIN Append(t, e) = 1..(Len(t) + 1)
      /\ \A i \in 1..Len(t) : Append(t, e)[i] = t[i]
  OBVIOUS
<1> QED BY <1>1 DEF IsStartOf

\* A log is a start of itself.
LEMMA StartOfSelf ==
  ASSUME NEW s PROVE IsStartOf(s, s)
BY DEF IsStartOf

\* A connection sees a table.
LEMMA SeenIsTable ==
  ASSUME TypeOK, NEW c \in Conns
  PROVE  Seen(c) \in Table
BY DEF TypeOK, Seen

\* The initial states satisfy the invariant.
LEMMA LogInvInit == Init => LogInv
<1> SUFFICES ASSUME Init PROVE LogInv
  OBVIOUS
<1>1. Empty \in Table
  BY DEF Empty, Table
<1>2. TypeOK
  BY <1>1 DEF Init, TypeOK, TxState
<1>3. OneWriter /\ NumbersOK
  BY DEF Init, OneWriter, NumbersOK, NumberOK, NoCall
<1>4. ReadsArePrefixes
  BY StartOfSelf DEF Init, ReadsArePrefixes, Seen, HasSnapshot
<1>5. ReturnedIsDurable
  BY DEF Init, ReturnedIsDurable
<1> QED BY <1>2, <1>3, <1>4, <1>5 DEF LogInv

\* SELECT and INSERT and their failures commit nothing: a step of connection
\* c that leaves rows and acks alone keeps what other connections rely on.
LEMMA PrivateStep ==
  ASSUME LogInv, NEW c \in Conns, UNCHANGED <<rows, acks>>,
         tx' \in [Conns -> TxState], view' \in [Conns -> Table],
         call' \in [Conns -> AppendCall \cup {NoCall}],
         \A d \in Conns \ {c} : /\ tx'[d] = tx[d]
                                /\ view'[d] = view[d]
                                /\ call'[d] = call[d],
         tx'[c] = "writing" => tx[c] = "writing" \/ ~LockedByOther(c),
         NumberOK(c)',
         call'[c].pc # "commit" => \A r \in RunIds : IsStartOf(Seen(c)'[r], rows[r])
  PROVE  LogInv'
<1> USE DEF LogInv
<1>1. TypeOK'
  BY DEF TypeOK
<1>2. OneWriter'
  BY DEF OneWriter, LockedByOther
<1>3. NumbersOK'
  <2> SUFFICES ASSUME NEW d \in Conns \ {c} PROVE NumberOK(d)'
    BY DEF NumbersOK
  <2>1. rows' = rows /\ tx'[d] = tx[d] /\ view'[d] = view[d] /\ call'[d] = call[d]
    OBVIOUS
  <2>2. NumberOK(d)
    BY DEF NumbersOK
  <2> QED BY <2>1, <2>2 DEF NumberOK, HasSnapshot
<1>4. ReadsArePrefixes'
  <2> SUFFICES ASSUME NEW d \in Conns, call'[d].pc # "commit", NEW r \in RunIds
               PROVE  IsStartOf(Seen(d)'[r], rows'[r])
    BY DEF ReadsArePrefixes, IsStartOf
  <2>1. CASE d = c
    BY <2>1
  <2>2. CASE d # c
    <3>1. Seen(d)' = Seen(d)
      BY <2>2 DEF Seen, HasSnapshot
    <3> QED BY <2>2, <3>1 DEF ReadsArePrefixes
  <2> QED BY <2>1, <2>2
<1>5. ReturnedIsDurable'
  BY DEF ReturnedIsDurable
<1> QED BY <1>1, <1>2, <1>3, <1>4, <1>5

\* Every step keeps the invariant.
LEMMA LogInvNext == LogInv /\ [Next]_eventVars => LogInv'
<1> SUFFICES ASSUME LogInv, [Next]_eventVars PROVE LogInv'
  OBVIOUS
<1> USE DEF LogInv
<1>e. Empty \in Table
  BY DEF Empty, Table
<1>n. ASSUME NEW c \in Conns PROVE NumberOK(c)
  BY DEF NumbersOK
<1>r. ASSUME NEW c \in Conns, call[c].pc # "commit", NEW r \in RunIds
      PROVE  IsStartOf(Seen(c)[r], rows[r])
  BY <1>r DEF ReadsArePrefixes
<1>1. ASSUME NEW c \in Conns, Open(c) PROVE LogInv'
  <2>1. call[c] = NoCall \/ call[c] \in AppendCall
    BY DEF TypeOK
  <2>2. call[c] = NoCall
    BY <1>1, <2>1, <1>n DEF Open, NumberOK, AppendCall
  <2>3. NumberOK(c)'
    BY <1>1, <2>2 DEF Open, EndTx, NumberOK, NoCall, TypeOK
  <2>4. \A r \in RunIds : IsStartOf(Seen(c)'[r], rows[r])
    BY <1>1, StartOfSelf DEF Open, EndTx, TypeOK, Seen, HasSnapshot
  <2> QED BY <1>1, <1>e, <2>3, <2>4, PrivateStep DEF Open, EndTx, TypeOK, TxState
<1>2. ASSUME NEW c \in Conns, ListEvents(c) PROVE LogInv'
  <2>3. NumberOK(c)'
    BY <1>2, <1>n DEF ListEvents, Select, NumberOK, TypeOK, HasSnapshot
  <2>4. \A r \in RunIds : IsStartOf(Seen(c)'[r], rows[r])
    BY <1>2, <1>r, StartOfSelf DEF ListEvents, Select, TypeOK, Seen, HasSnapshot
  <2> QED BY <1>2, <2>3, <2>4, PrivateStep DEF ListEvents, Select, TypeOK, TxState
<1>3. ASSUME NEW c \in Conns, Close(c) PROVE LogInv'
  <2>3. NumberOK(c)'
    BY <1>3 DEF Close, EndTx, NumberOK, TypeOK
  <2>4. \A r \in RunIds : IsStartOf(Seen(c)'[r], rows[r])
    BY <1>3, StartOfSelf DEF Close, EndTx, TypeOK, Seen, HasSnapshot
  <2> QED BY <1>3, <1>e, <2>3, <2>4, PrivateStep DEF Close, EndTx, TypeOK, TxState
<1>4. ASSUME NEW c \in Conns, Crash(c) PROVE LogInv'
  <2>3. NumberOK(c)'
    BY <1>4 DEF Crash, EndTx, NumberOK, NoCall, TypeOK
  <2>4. \A r \in RunIds : IsStartOf(Seen(c)'[r], rows[r])
    BY <1>4, StartOfSelf DEF Crash, EndTx, TypeOK, Seen, HasSnapshot
  <2> QED BY <1>4, <1>e, <2>3, <2>4, PrivateStep DEF Crash, EndTx, TypeOK, TxState
<1>5. ASSUME NEW c \in Conns, NEW r \in RunIds, NEW e \in Events, AppendSelect(c, r, e)
      PROVE  LogInv'
  <2>1. Seen(c) \in Table /\ IsStartOf(Seen(c)[r], rows[r])
    BY <1>5, <1>r, SeenIsTable DEF AppendSelect
  <2>2. next_sequence(Seen(c), r) = Len(Seen(c)[r]) + 1
    BY <2>1, NextIsLength
  <2>3. Len(Seen(c)[r]) \in Nat /\ Len(rows[r]) \in Nat /\ Len(Seen(c)[r]) <= Len(rows[r])
    <3>1. /\ Seen(c)[r] \in Seq(Events) /\ rows[r] \in Seq(Events)
          /\ 1..Len(Seen(c)[r]) \subseteq 1..Len(rows[r])
      BY <2>1 DEF Table, TypeOK, IsStartOf
    <3> QED BY <3>1
  <2>4. call'[c] = [pc |-> "insert", run |-> r, event |-> e, seq |-> Len(Seen(c)[r]) + 1]
    BY <1>5, <2>2 DEF AppendSelect, TypeOK
  <2>5. call'[c] \in AppendCall
    BY <2>3, <2>4 DEF AppendCall
  <2>6. HasSnapshot(c)' => view'[c] = Seen(c)
    BY <1>5 DEF AppendSelect, Select, HasSnapshot, Seen, TypeOK
  <2>7. tx'[c] # "closed" /\ (tx'[c] = "writing" => tx[c] = "writing")
    BY <1>5 DEF AppendSelect, Select, TypeOK
  <2>8. tx'[c] = "writing" => view'[c] = rows
    BY <1>5, <1>n DEF AppendSelect, Select, NumberOK, TypeOK
  <2>9. NumberOK(c)'
    <3>1. rows' = rows
      BY <1>5 DEF AppendSelect
    <3>2. /\ call'[c].pc = "insert" /\ call'[c].run = r
          /\ call'[c].seq = Len(Seen(c)[r]) + 1
      BY <2>4
    <3>3. call'[c].seq <= Len(rows'[r]) + 1
      BY <3>1, <3>2, <2>3
    <3> QED BY <3>1, <3>2, <3>3, <2>6, <2>7, <2>8 DEF NumberOK
  <2>10. \A q \in RunIds : IsStartOf(Seen(c)'[q], rows[q])
    BY <1>5, <1>r, StartOfSelf DEF AppendSelect, Select, TypeOK, Seen, HasSnapshot
  <2>11. call' \in [Conns -> AppendCall \cup {NoCall}]
    BY <1>5, <2>4, <2>5 DEF AppendSelect, TypeOK
  <2>12. /\ tx' \in [Conns -> TxState] /\ view' \in [Conns -> Table]
         /\ \A d \in Conns \ {c} : tx'[d] = tx[d] /\ view'[d] = view[d] /\ call'[d] = call[d]
    BY <1>5 DEF AppendSelect, Select, TypeOK, TxState
  <2> QED BY <1>5, <2>7, <2>9, <2>10, <2>11, <2>12, PrivateStep DEF AppendSelect
<1>6. ASSUME NEW c \in Conns, AppendInsert(c) PROVE LogInv'
  <2> DEFINE a == call[c]
  <2>1. a \in AppendCall /\ a.pc = "insert"
    BY <1>6 DEF AppendInsert, TypeOK, NoCall
  <2>2. Seen(c) = rows
    BY <1>6, <1>n, <2>1 DEF AppendInsert, CanWrite, Seen, HasSnapshot, NumberOK
  <2>3. a.run \in RunIds /\ a.event \in Events /\ a.seq \in Nat \ {0}
    BY <2>1 DEF AppendCall
  <2>4. a.seq = Len(rows[a.run]) + 1
    <3>1. a.seq <= Len(rows[a.run]) + 1 /\ ~KeyTaken(rows, a.run, a.seq)
      BY <1>6, <1>n, <2>1, <2>2 DEF AppendInsert, NumberOK
    <3> QED BY <3>1, <2>3, FreeIsNext DEF TypeOK
  <2>5. /\ WithRow(rows, a.run, a.seq, a.event)
             = [rows EXCEPT ![a.run] = Append(@, a.event)]
        /\ WithRow(rows, a.run, a.seq, a.event) \in Table
    BY <2>3, <2>4, RowIsAppend DEF TypeOK
  <2>6. /\ tx'[c] = "writing" /\ tx' \in [Conns -> TxState]
        /\ view'[c] = WithRow(rows, a.run, a.seq, a.event)
        /\ view' \in [Conns -> Table]
    BY <1>6, <2>2, <2>5 DEF AppendInsert, TypeOK, TxState
  <2>7. /\ call'[c] = [a EXCEPT !.pc = "commit"]
        /\ call' \in [Conns -> AppendCall \cup {NoCall}]
    <3>1. [a EXCEPT !.pc = "commit"] \in AppendCall
      BY <2>1 DEF AppendCall
    <3> QED BY <1>6, <3>1 DEF AppendInsert, TypeOK
  <2>8. /\ call'[c].pc = "commit" /\ call'[c].run = a.run
        /\ call'[c].event = a.event /\ call'[c].seq = a.seq
    BY <2>1, <2>7 DEF AppendCall
  <2>9. NumberOK(c)'
    BY <1>6, <2>4, <2>5, <2>6, <2>8 DEF NumberOK, AppendInsert
  <2>10. ~LockedByOther(c)
    BY <1>6 DEF AppendInsert, CanWrite
  <2>11. \A d \in Conns \ {c} : tx'[d] = tx[d] /\ view'[d] = view[d] /\ call'[d] = call[d]
    BY <1>6 DEF AppendInsert, TypeOK
  <2> QED BY <1>6, <2>6, <2>7, <2>8, <2>9, <2>10, <2>11, PrivateStep DEF AppendInsert
<1>7. ASSUME NEW c \in Conns, AppendConflict(c) PROVE LogInv'
  <2>1. Seen(c) = rows
    BY <1>7, <1>n DEF AppendConflict, CanWrite, Seen, HasSnapshot, NumberOK
  <2>2. tx'[c] = "writing" /\ view'[c] = rows /\ call'[c] = NoCall
    BY <1>7, <2>1 DEF AppendConflict, TypeOK
  <2>3. NumberOK(c)'
    BY <1>7, <2>2 DEF AppendConflict, NumberOK, NoCall
  <2>4. \A r \in RunIds : IsStartOf(Seen(c)'[r], rows[r])
    BY <2>2, StartOfSelf DEF Seen, HasSnapshot
  <2>5. ~LockedByOther(c)
    BY <1>7 DEF AppendConflict, CanWrite
  <2> QED BY <1>7, <2>1, <2>3, <2>4, <2>5, PrivateStep DEF AppendConflict, TypeOK, TxState
<1>8. ASSUME NEW c \in Conns, AppendLocked(c) PROVE LogInv'
  <2>1. /\ tx'[c] = IF tx[c] = "auto" THEN "begun" ELSE tx[c]
        /\ view' = view /\ call'[c] = NoCall
    BY <1>8 DEF AppendLocked, TypeOK
  <2>2. NumberOK(c)'
    <3>1. rows' = rows /\ call'[c].pc = "idle"
      BY <1>8, <2>1 DEF AppendLocked, NoCall
    <3>2. call[c].pc = "insert" /\ NumberOK(c)
      BY <1>8, <1>n DEF AppendLocked
    <3>3. tx[c] = "writing" => view[c] = rows
      BY <3>2 DEF NumberOK
    <3>4. tx'[c] = "writing" => view'[c] = rows
      BY <2>1, <3>3
    <3> QED BY <3>1, <3>4 DEF NumberOK
  <2>3. \A r \in RunIds : IsStartOf(Seen(c)'[r], rows[r])
    BY <1>8, <1>r, <2>1 DEF AppendLocked, Seen, HasSnapshot
  <2> QED BY <1>8, <2>1, <2>2, <2>3, PrivateStep DEF AppendLocked, TypeOK, TxState
<1>9. ASSUME NEW c \in Conns, AppendCommit(c) PROVE LogInv'
  <2> DEFINE a == call[c]
  <2>1. a \in AppendCall /\ a.pc = "commit"
    BY <1>9 DEF AppendCommit, TypeOK, NoCall
  <2>2. a.run \in RunIds /\ a.event \in Events /\ a.seq \in Nat \ {0}
    BY <2>1 DEF AppendCall
  <2>3. /\ tx[c] = "writing" /\ a.seq = Len(rows[a.run]) + 1
        /\ rows' = [rows EXCEPT ![a.run] = Append(@, a.event)]
    BY <1>9, <1>n, <2>1 DEF AppendCommit, NumberOK
  <2>4. rows' \in Table
    BY <1>9 DEF AppendCommit, TypeOK
  <2>5. /\ tx' = [tx EXCEPT ![c] = "auto"] /\ view' = [view EXCEPT ![c] = Empty]
        /\ call' = [call EXCEPT ![c] = NoCall]
        /\ acks' = acks \cup {[run |-> a.run, seq |-> a.seq, event |-> a.event]}
    BY <1>9 DEF AppendCommit, EndTx
  <2>6. TypeOK'
    BY <1>e, <2>2, <2>4, <2>5 DEF TypeOK, TxState
  <2>7. \A r \in RunIds : rows[r] \in Seq(Events) /\ IsStartOf(rows[r], rows'[r])
    <3> SUFFICES ASSUME NEW r \in RunIds
                 PROVE  rows[r] \in Seq(Events) /\ IsStartOf(rows[r], rows'[r])
      OBVIOUS
    <3>1. rows[r] \in Seq(Events)
      BY DEF TypeOK, Table
    <3>2. rows'[r] = IF r = a.run THEN Append(rows[r], a.event) ELSE rows[r]
      BY <2>2, <2>3 DEF TypeOK, Table
    <3> QED BY <3>1, <3>2, <2>2, StartOfSelf, StartOfAppend
  <2>8. \A s, r : r \in RunIds /\ IsStartOf(s, rows[r]) => IsStartOf(s, rows'[r])
    BY <2>7 DEF IsStartOf
  <2>9. \A d \in Conns \ {c} : /\ tx[d] # "writing"
                               /\ tx'[d] = tx[d] /\ view'[d] = view[d] /\ call'[d] = call[d]
    BY <2>3, <2>5 DEF OneWriter, TypeOK
  <2>10. tx'[c] = "auto" /\ call'[c] = NoCall
    BY <2>5 DEF TypeOK
  <2>11. OneWriter'
    BY <2>9, <2>10 DEF OneWriter
  <2>12. NumbersOK'
    <3> SUFFICES ASSUME NEW d \in Conns PROVE NumberOK(d)'
      BY DEF NumbersOK
    <3>1. CASE d = c
      BY <3>1, <2>10 DEF NumberOK, NoCall
    <3>2. CASE d # c
      <4>1. /\ NumberOK(d) /\ tx[d] # "writing"
            /\ tx'[d] = tx[d] /\ view'[d] = view[d] /\ call'[d] = call[d]
        BY <3>2, <1>n, <2>9
      <4>2. call[d].pc # "commit"
        BY <4>1 DEF NumberOK
      <4>3. CASE call[d].pc = "insert"
        <5>1. call[d] \in AppendCall
          BY <4>3 DEF TypeOK, NoCall
        <5>2. call[d].run \in RunIds /\ call[d].seq \in Nat
          BY <5>1 DEF AppendCall
        <5>3. Len(rows'[call[d].run]) >= Len(rows[call[d].run])
          <6>1. rows[call[d].run] \in Seq(Events) /\ rows'[call[d].run] \in Seq(Events)
            BY <5>2, <2>4 DEF TypeOK, Table
          <6>2. 1..Len(rows[call[d].run]) \subseteq 1..Len(rows'[call[d].run])
            BY <5>2, <6>1, <2>7 DEF IsStartOf
          <6> QED BY <6>1, <6>2
        <5>4. Len(rows'[call[d].run]) \in Nat /\ Len(rows[call[d].run]) \in Nat
          BY <5>2, <2>4 DEF TypeOK, Table
        <5>5. call[d].seq <= Len(rows'[call[d].run]) + 1
          BY <4>1, <4>3, <5>2, <5>3, <5>4 DEF NumberOK
        <5> QED BY <4>1, <4>3, <5>5 DEF NumberOK, HasSnapshot
      <4>4. CASE call[d].pc # "insert"
        BY <4>1, <4>2, <4>4 DEF NumberOK, HasSnapshot
      <4> QED BY <4>3, <4>4
    <3> QED BY <3>1, <3>2
  <2>13. ReadsArePrefixes'
    <3> SUFFICES ASSUME NEW d \in Conns, call'[d].pc # "commit", NEW r \in RunIds
                 PROVE  IsStartOf(Seen(d)'[r], rows'[r])
      BY DEF ReadsArePrefixes, IsStartOf
    <3>1. CASE ~HasSnapshot(d)'
      BY <3>1, StartOfSelf DEF Seen
    <3>2. CASE HasSnapshot(d)'
      <4>1. d # c
        BY <3>2, <2>10 DEF HasSnapshot
      <4>2. HasSnapshot(d) /\ Seen(d)' = Seen(d) /\ call[d].pc # "commit"
        BY <3>2, <4>1, <2>9 DEF HasSnapshot, Seen
      <4> QED BY <4>2, <1>r, <2>8
    <3> QED BY <3>1, <3>2
  <2>14. ReturnedIsDurable'
    <3> SUFFICES ASSUME NEW b \in acks'
                 PROVE  b.seq \in DOMAIN rows'[b.run] /\ rows'[b.run][b.seq] = b.event
      BY DEF ReturnedIsDurable
    <3>1. CASE b \in acks
      BY <3>1, <2>7 DEF ReturnedIsDurable, IsStartOf, TypeOK
    <3>2. CASE b = [run |-> a.run, seq |-> a.seq, event |-> a.event]
      <4>1. rows'[a.run] = Append(rows[a.run], a.event) /\ rows[a.run] \in Seq(Events)
        BY <2>2, <2>3 DEF TypeOK, Table
      <4> QED BY <3>2, <4>1, <2>2, <2>3
    <3> QED BY <3>1, <3>2, <2>5
  <2> QED BY <2>6, <2>11, <2>12, <2>13, <2>14
<1>10. CASE UNCHANGED eventVars
  BY <1>10 DEF eventVars, TypeOK, OneWriter, NumbersOK, NumberOK, ReadsArePrefixes,
               ReturnedIsDurable, Seen, HasSnapshot
<1> QED
  BY <1>1, <1>2, <1>3, <1>4, <1>5, <1>6, <1>7, <1>8, <1>9, <1>10 DEF Next, AppendStep

\* The invariant holds throughout.
LEMMA LogInvAlways == Spec => []LogInv
BY LogInvInit, LogInvNext, PTL DEF Spec

\* However many processes append to one database, and wherever they are
\* refused or die, the numbers of every run are 1, 2, 3... without a gap
\* (SQLiteEventLog.append).
THEOREM NumbersGapless == Spec => []Gapless
<1>1. LogInv => Gapless
  <2> SUFFICES ASSUME TypeOK, NEW r \in RunIds, NEW s \in DOMAIN rows[r]
               PROVE  s \in Nat \ {0} /\ (s > 1 => s - 1 \in DOMAIN rows[r])
    BY DEF LogInv, Gapless
  <2>1. DOMAIN rows[r] = 1..Len(rows[r]) /\ Len(rows[r]) \in Nat
    BY DEF TypeOK, Table
  <2> QED BY <2>1
<1> QED BY <1>1, LogInvAlways, PTL

\* No record that append returned is ever lost or replaced.
THEOREM RecordsDurable == Spec => []ReturnedIsDurable
<1>1. LogInv => ReturnedIsDurable
  BY DEF LogInv
<1> QED BY <1>1, LogInvAlways, PTL

\* No connection ever reads events that are not committed, or reads the
\* committed ones out of order (list_events, _next_sequence).
THEOREM ReadsCommitted == Spec => []ReadsArePrefixes
<1>1. LogInv => ReadsArePrefixes
  BY DEF LogInv
<1> QED BY <1>1, LogInvAlways, PTL

\* The table implements the atomic append AgentRunner is built on.
THEOREM TableImplementsAppendOnlyLog == Spec => ImplementsAppendOnlyLog
<1>1. Init => AppendOnly!LogInit
  BY DEF Init, AppendOnly!LogInit, Empty
<1>2. LogInv /\ [Next]_eventVars => [AppendOnly!LogNext]_(AppendOnly!logVars)
  <2> SUFFICES ASSUME LogInv, [Next]_eventVars
               PROVE  AppendOnly!LogNext \/ UNCHANGED <<rows, acks>>
    BY DEF AppendOnly!logVars
  <2>1. CASE \E c \in Conns : AppendCommit(c)
    <3>1. PICK c \in Conns : AppendCommit(c)
      BY <2>1
    <3> DEFINE a == call[c]
    <3>2. a \in AppendCall /\ a.pc = "commit"
      BY <3>1 DEF AppendCommit, LogInv, TypeOK, NoCall
    <3>3. a.run \in RunIds /\ a.event \in Events
      BY <3>2 DEF AppendCall
    <3>4. /\ rows' = [rows EXCEPT ![a.run] = Append(@, a.event)]
          /\ a.seq = Len(rows[a.run]) + 1
          /\ acks' = acks \cup {[run |-> a.run, seq |-> a.seq, event |-> a.event]}
      BY <3>1, <3>2 DEF AppendCommit, LogInv, NumbersOK, NumberOK
    <3>5. Len(rows'[a.run]) = Len(rows[a.run]) + 1
      <4>1. rows'[a.run] = Append(rows[a.run], a.event) /\ rows[a.run] \in Seq(Events)
        BY <3>3, <3>4 DEF LogInv, TypeOK, Table
      <4> QED BY <4>1, <3>3
    <3>6. AppendOnly!AppendEvent(a.run, a.event)
      BY <3>4, <3>5 DEF AppendOnly!AppendEvent
    <3> QED BY <3>3, <3>6 DEF AppendOnly!LogNext
  <2>2. CASE ~\E c \in Conns : AppendCommit(c)
    BY <2>2 DEF Next, AppendStep, eventVars, Open, ListEvents, Close, Crash, AppendSelect,
                AppendInsert, AppendConflict, AppendLocked
  <2> QED BY <2>1, <2>2
<1> QED
  BY <1>1, <1>2, LogInvAlways, PTL DEF Spec, ImplementsAppendOnlyLog, AppendOnly!LogSpec
=============================================================================
