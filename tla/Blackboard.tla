------------------------------ MODULE Blackboard ------------------------------
(***************************************************************************)
(* A SharedBlackboard and the SharedBlackboardWriteLease that guards it,   *)
(* used by several bots.  The two objects do not know each other: a bot    *)
(* asks the manager first and writes to the board some time later, and the *)
(* board does not ask whether the lease still runs.  In hard mode the bots *)
(* keep to the manager's last answer, which does not say when the lease    *)
(* ends; in advisory mode every answer allows the write.                   *)
(***************************************************************************)
EXTENDS Integers, FiniteSets

CONSTANTS
  Keys, Bots, Values,
  None,           \* no entry, no lease
  MaxKeys,        \* max_keys of the board
  LeaseSeconds,   \* lease_seconds of the manager
  MaxRevision,    \* bound on the writes of a key
  MaxTime         \* bound on the clock

VARIABLES
  mode,     \* "advisory" or "hard"
  board,    \* _entries of the blackboard, _leases of the manager
  now,      \* the clock
  seen      \* per bot and key: the entry it read or wrote last; until when its
            \* last grant runs, 0 after a refusal or a release; whether, since
            \* it read and under its grant, a bot whose own grant had run out
            \* changed the key

boardVars == <<mode, board, now, seen>>

Entry(v, b, r) == [value |-> v, writer |-> b, revision |-> r]
Entries == [value : Values, writer : Bots, revision : Nat \ {0}]
Leases == [holder : Bots, until : Nat]

\* What the constructors accept: lease_seconds is not negative; None is no record.
BoardConstantsOK ==
  /\ LeaseSeconds \in Nat /\ MaxTime \in Nat
  /\ None \notin Entries /\ None \notin Leases

Init ==
  /\ mode \in {"advisory", "hard"}
  /\ board = [entries |-> [k \in Keys |-> None], leases |-> [k \in Keys |-> None]]
  /\ now = 0
  /\ seen = [x \in Bots \X Keys |-> [entry |-> None, until |-> 0, late |-> FALSE]]

\* The last grant of b still runs; the last answer b had allows it to write,
\* whether or not the grant still runs.
Holds(b, k) == now < seen[<<b, k>>].until
MayWrite(b, k) == mode = "hard" => seen[<<b, k>>].until > 0

\* What the bots know after b changed key k to e: b knows e, the others do not.
Changed(b, k, e) ==
  [x \in DOMAIN seen |->
     IF x = <<b, k>> THEN [seen[x] EXCEPT !.entry = e, !.late = FALSE]
     ELSE IF x[2] = k /\ Holds(x[1], k) /\ ~Holds(b, k) THEN [seen[x] EXCEPT !.late = TRUE]
     ELSE seen[x]]

-----------------------------------------------------------------------------
(* The blackboard *)

Revision(k) == IF board.entries[k] = None THEN 1 ELSE board.entries[k].revision + 1

HasRoom(k) ==
  board.entries[k] # None \/ Cardinality({x \in Keys : board.entries[x] # None}) < MaxKeys

\* put; with a new key on a full board it raises and changes nothing.
Put(b, k, v) ==
  /\ MayWrite(b, k) /\ HasRoom(k) /\ Revision(k) <= MaxRevision
  /\ board' = [board EXCEPT !.entries[k] = Entry(v, b, Revision(k))]
  /\ seen' = Changed(b, k, Entry(v, b, Revision(k)))
  /\ UNCHANGED <<mode, now>>

Get(b, k) ==
  /\ seen' = [seen EXCEPT ![<<b, k>>].entry = board.entries[k], ![<<b, k>>].late = FALSE]
  /\ UNCHANGED <<mode, board, now>>

\* delete; the next put of the key starts again at revision 1.
Delete(b, k) ==
  /\ MayWrite(b, k) /\ board.entries[k] # None
  /\ board' = [board EXCEPT !.entries[k] = None]
  /\ seen' = Changed(b, k, None)
  /\ UNCHANGED <<mode, now>>

-----------------------------------------------------------------------------
(* The lease manager *)

\* mutant: a lease ends one tick early for the others
Expired_Early(k) == board.leases[k] # None /\ now + 1 >= board.leases[k].until
Expired(k) == board.leases[k] # None /\ now >= board.leases[k].until

Grant(b, k) ==
  /\ board' = [board EXCEPT !.leases[k] = [holder |-> b, until |-> now + LeaseSeconds]]
  /\ seen' = [seen EXCEPT ![<<b, k>>] =
                [entry |-> IF Holds(b, k) THEN @.entry ELSE None,
                 until |-> now + LeaseSeconds,
                 late  |-> Holds(b, k) /\ @.late]]

\* acquire of a free or expired key; the bot must read again.
AcquireFree(b, k) ==
  /\ board.leases[k] = None \/ Expired(k)
  /\ Grant(b, k)
  /\ UNCHANGED <<mode, now>>

\* acquire by the holder refreshes its lease.
Refresh(b, k) ==
  /\ board.leases[k] # None /\ ~Expired(k) /\ board.leases[k].holder = b
  /\ Grant(b, k)
  /\ UNCHANGED <<mode, now>>

\* acquire of a key that another bot holds changes nothing; the bot is told so.
Conflict(b, k) ==
  /\ board.leases[k] # None /\ ~Expired(k) /\ board.leases[k].holder # b
  /\ seen' = [seen EXCEPT ![<<b, k>>].until = 0]
  /\ UNCHANGED <<mode, board, now>>

\* mutant: a bot gives back the lease of another one
Releasable_ByAnyone(b, k) == board.leases[k] # None
Releasable(b, k) == board.leases[k] # None /\ board.leases[k].holder = b

\* release; a bot that is not the holder is told so.  Either way it no
\* longer relies on the lease.
Release(b, k) ==
  /\ board' = IF Releasable(b, k) THEN [board EXCEPT !.leases[k] = None] ELSE board
  /\ seen' = [seen EXCEPT ![<<b, k>>].until = 0]
  /\ UNCHANGED <<mode, now>>

Tick ==
  /\ now < MaxTime
  /\ now' = now + 1
  /\ UNCHANGED <<mode, board, seen>>

Next ==
  \/ \E b \in Bots, k \in Keys :
       \/ \E v \in Values : Put(b, k, v)
       \/ Get(b, k) \/ Delete(b, k)
       \/ AcquireFree(b, k) \/ Refresh(b, k) \/ Conflict(b, k) \/ Release(b, k)
  \/ Tick

Spec == Init /\ [][Next]_boardVars

-----------------------------------------------------------------------------
(* Properties *)

TypeOK ==
  /\ mode \in {"advisory", "hard"}
  /\ board \in [entries : [Keys -> Entries \cup {None}], leases : [Keys -> Leases \cup {None}]]
  /\ now \in Nat
  /\ seen \in [Bots \X Keys -> [entry : Entries \cup {None}, until : Nat, late : BOOLEAN]]

\* "Concurrent bots do not silently overwrite each other", as far as the lease
\* manager brings it about: as long as the grant of a bot runs, the entry it
\* read under it is the one on the board, however leases expire, are refreshed
\* and are released around it, unless a bot writes on a grant that ran out.
\* Such a late writer is the only one: nobody else is told it may write.
NoSilentOverwrite ==
  mode = "hard" =>
    \A b \in Bots, k \in Keys :
      Holds(b, k) /\ seen[<<b, k>>].entry # None /\ ~seen[<<b, k>>].late
        => board.entries[k] = seen[<<b, k>>].entry

\* "Monotonic revision for this key (starts at 1)": a bot never finds a lower
\* revision of a key than the one it found or wrote last.
RevisionMonotonic ==
  \A b \in Bots, k \in Keys :
    LET old == seen[<<b, k>>].entry  new == board.entries[k] IN
    old # None /\ new # None => old.revision <= new.revision
=============================================================================
