-------------------------- MODULE McpClient_proofs --------------------------
(***************************************************************************)
(* Safety of the MCP client for any number of threads, calls and restarts. *)
(***************************************************************************)
EXTENDS McpClient, FiniteSetTheorems, TLAPS

Launching == {"teardown", "spawn", "popen"}
Handshake == {"probe", "init", "late", "initialized"}
Quiet == {"idle", "acquire", "call"} \cup Launching

\* The steps of a thread that hold the lifecycle lock.
HoldsLock(t) == th[t].pc \in Launching \/ th[t].kind \in Handshake

\* The lock is held by the one thread that launches, negotiates or closes,
\* and until it has spawned a process the client has none.
LockOK ==
    \A t \in Threads :
       /\ HoldsLock(t) => lock = {t}
       /\ th[t].pc \in Launching => proc = None
       /\ th[t].pc = "popen" => gen > 0

\* What a frame holds at each point.
Fits(f) ==
    /\ f.pc \in Quiet => f.kind = "none"
    /\ f.pc \in {"write", "send", "await"} \/ f.id = None
    /\ f.pc = "send" => f.s = f.g
    /\ f.probe # None => f.kind = "init"
    /\ f.kind \in {"initialized", "cancelled"} => f.id = None
    /\ f.pc = "issue" => f.kind \in {"probe", "init", "request"}

FrameOK ==
    \A t \in Threads :
       /\ Fits(th[t])
       /\ th[t].id < nextId /\ th[t].probe < nextId

\* An id names one request to one process.
OwnOK ==
    /\ \A p \in pending : p[1] < nextId
    /\ \A m \in inbox : m.id < nextId /\ m.to = m.own
    /\ \A p \in pending : \A m \in inbox : p[1] = m.id => p[2] = m.own
    /\ \A p \in pending : \A t \in Threads :
          (th[t].pc \in {"write", "send"} /\ p[1] = th[t].id)
             => p[2] = th[t].g
    /\ \A r \in responses : <<r.id, r.by>> \in pending

\* A process that runs is the client's, or is being stopped.
AliveOK ==
    \A g \in alive :
       g = proc \/ \E t \in Threads : th[t].pc = "teardown" /\ th[t].s = g

\* After close nobody is on the way to a new process.
ClosedOK ==
    userClosed =>
       /\ proc = None
       /\ \A t \in Threads :
             /\ th[t].pc \notin {"spawn", "popen"}
             /\ th[t].pc = "teardown" => th[t].api \in {"close", "none"}

\* A process without an era is still being negotiated with.
EraOK ==
    /\ (proc # None /\ era = "none") => lock # {}
    /\ \A t \in Threads : th[t].kind = "initialized" => era # "none"

\* From Spawn on, the channel is marked closed only for a real failure.
HealthOK ==
    (closed /\ (proc # None \/ \E t \in Threads : th[t].pc = "popen"))
       => broken

\* From Spawn on, every registered request belongs to a thread.
PendingOK ==
    (proc # None \/ \E t \in Threads : th[t].pc = "popen") =>
       \A p \in pending :
          \E t \in Threads : p[1] = th[t].id \/ p[1] = th[t].probe

IInv == /\ TypeOK /\ LockOK /\ FrameOK /\ OwnOK /\ AliveOK /\ ClosedOK
        /\ EraOK /\ HealthOK /\ PendingOK
-----------------------------------------------------------------------------
\* Most steps move one thread from frame to frame and forget some ids.
Move(t, f, ids) ==
    /\ th' = [th EXCEPT ![t] = f]
    /\ pending' = {p \in pending : p[1] \notin ids}
    /\ responses' = {r \in responses : r.id \notin ids}

\* What every such step leaves alone, and how it may mark the channel.
Steady ==
    /\ UNCHANGED <<gen, nextId, alive, reading>>
    /\ launched' \in BOOLEAN /\ userClosed' = userClosed
    /\ restarts' \in Nat /\ calls' \in Nat /\ starts' \in Nat
    /\ closed' \in BOOLEAN /\ broken' \in BOOLEAN
    /\ closed' => closed \/ broken'
    /\ broken => broken'
    /\ era' \in {era, "modern", "legacy"}

\* The new frame of a move carries on with the ids of the old one, or they
\* are forgotten.
CarriesOn(t, f, ids) ==
    /\ f \in Frame /\ Fits(f) /\ f.pc \notin Launching
    /\ {f.id, f.probe} \subseteq {None, th[t].id, th[t].probe}
    /\ {th[t].id, th[t].probe} \subseteq {None, f.id, f.probe} \cup ids
    /\ (f.pc \in {"write", "send"} /\ f.id # None) =>
          /\ f.id = th[t].id /\ f.g = th[t].g
          /\ th[t].pc \in {"write", "send"}
    /\ f.kind \in Handshake => lock = {t}
    /\ f.kind = "initialized" => era' # "none"

\* The lock is kept, or given back by a handshake that succeeded.
KeepsOrReleases(t, f) ==
    \/ lock' = lock
    \/ lock = {t} /\ lock' = {} /\ era' # "none" /\ f.kind \notin Handshake

\* Nothing is sent but the request in the frame, through its pipe.
SendsOwn(t) ==
    /\ inbox' \subseteq [id : Nat, kind : DOMAIN AnswersTo, own : Nat, to : Nat,
                         meta : BOOLEAN]
    /\ \A m \in inbox' :
          m \in inbox \/ /\ th[t].pc = "send"
                         /\ m.id = th[t].id /\ m.own = th[t].g
                         /\ m.to = th[t].s

\* The messages that have an answer.
LEMMA AnswerKinds == DOMAIN AnswersTo = {"probe", "init", "request"}
  BY DEF AnswersTo

\* A thread outside the client fits everywhere.
LEMMA IdleFrame ==
    /\ Idle \in Frame /\ Fits(Idle)
    /\ Idle.pc = "idle" /\ Idle.kind = "none" /\ Idle.api = "none"
    /\ Idle.id = None /\ Idle.probe = None /\ Idle.s = None
  BY AnswerKinds DEF Idle, Frame, Points, Kinds, Apis, None, Fits, Quiet, Launching

\* A move that keeps the process preserves the invariant.
LEMMA MoveStep ==
    ASSUME IInv, NEW t \in Threads, NEW f, NEW ids,
           Move(t, f, ids), Steady, proc' = proc, CarriesOn(t, f, ids),
           KeepsOrReleases(t, f), SendsOwn(t), th[t].pc \notin Launching
    PROVE  IInv'
<1>1. /\ TypeOK /\ LockOK /\ FrameOK /\ OwnOK /\ AliveOK /\ ClosedOK /\ EraOK
      /\ HealthOK /\ PendingOK
  BY DEF IInv
<1>2. /\ th' \in [Threads -> Frame] /\ th'[t] = f
      /\ \A u \in Threads \ {t} : th'[u] = th[u]
  BY <1>1 DEF TypeOK, Move, CarriesOn
<1>3. pending' \subseteq pending /\ responses' \subseteq responses
  BY DEF Move
<1>4. f.pc \notin Launching /\ Fits(f)
  BY DEF CarriesOn
<1>5. TypeOK'
  <2>1. lock' \in {{}} \cup {{u} : u \in Threads}
    BY <1>1 DEF TypeOK, KeepsOrReleases
  <2>2. era' \in {"none", "modern", "legacy"}
    BY <1>1 DEF TypeOK, Steady
  <2> QED
    BY <1>1, <1>2, <1>3, <2>1, <2>2 DEF TypeOK, Steady, SendsOwn
<1>6. LockOK'
  <2>1. ASSUME NEW u \in Threads, HoldsLock(u)'
        PROVE  lock' = {u}
    <3>1. CASE u = t
      BY <1>2, <1>4, <2>1, <3>1 DEF HoldsLock, CarriesOn, KeepsOrReleases
    <3>2. CASE u # t
      BY <1>1, <1>2, <2>1, <3>2 DEF HoldsLock, LockOK, KeepsOrReleases
    <3> QED BY <3>1, <3>2
  <2> QED
    BY <1>1, <1>2, <1>4, <2>1 DEF LockOK, Steady, Launching
<1>7. FrameOK'
  <2>1. f.id < nextId' /\ f.probe < nextId'
    BY <1>1 DEF FrameOK, CarriesOn, Steady, None, TypeOK
  <2> QED
    BY <1>1, <1>2, <1>4, <2>1 DEF FrameOK, Steady
<1>8. OwnOK'
  <2>1. \A m \in inbox' : m.id < nextId' /\ m.to = m.own
    BY <1>1 DEF OwnOK, SendsOwn, FrameOK, Fits, Steady
  <2>2. \A p \in pending' : \A m \in inbox' : p[1] = m.id => p[2] = m.own
    BY <1>1, <1>3 DEF OwnOK, SendsOwn
  <2>3. ASSUME NEW p \in pending', NEW u \in Threads,
               th'[u].pc \in {"write", "send"}, p[1] = th'[u].id
        PROVE  p[2] = th'[u].g
    <3>1. p \in pending /\ p[1] # None
      BY <1>1, <1>3 DEF TypeOK, None
    <3>2. CASE u = t
      BY <1>1, <1>2, <2>3, <3>1, <3>2 DEF OwnOK, CarriesOn
    <3>3. CASE u # t
      BY <1>1, <1>2, <2>3, <3>1, <3>3 DEF OwnOK
    <3> QED BY <3>2, <3>3
  <2>4. \A r \in responses' : <<r.id, r.by>> \in pending'
    BY <1>1 DEF OwnOK, Move
  <2> QED
    BY <1>1, <1>3, <2>1, <2>2, <2>3, <2>4 DEF OwnOK, Steady
<1>9. AliveOK'
  BY <1>1, <1>2 DEF AliveOK, Steady, Launching
<1>10. ClosedOK'
  BY <1>1, <1>2, <1>4 DEF ClosedOK, Steady, Launching
<1>11. EraOK'
  <2>1. (proc # None /\ era' = "none") => lock' # {}
    BY <1>1 DEF EraOK, Steady, KeepsOrReleases
  <2>2. \A u \in Threads : th'[u].kind = "initialized" => era' # "none"
    BY <1>1, <1>2 DEF EraOK, Steady, CarriesOn
  <2> QED BY <2>1, <2>2 DEF EraOK
<1>12. HealthOK'
  BY <1>1, <1>2, <1>4 DEF HealthOK, Steady, Launching
<1>13. PendingOK'
  <2>1. ASSUME NEW p \in pending', proc # None \/ \E u \in Threads : th'[u].pc = "popen"
        PROVE  \E u \in Threads : p[1] = th'[u].id \/ p[1] = th'[u].probe
    <3>1. PICK u \in Threads : p[1] = th[u].id \/ p[1] = th[u].probe
      BY <1>1, <1>2, <1>3, <1>4, <2>1 DEF PendingOK, Launching
    <3>2. p[1] # None /\ p[1] \notin ids
      BY <1>1, <1>3 DEF TypeOK, None, Move
    <3>3. CASE u = t
      BY <1>2, <3>1, <3>2, <3>3 DEF CarriesOn
    <3>4. CASE u # t
      BY <1>2, <3>1, <3>4
    <3> QED BY <3>3, <3>4
  <2> QED BY <2>1 DEF PendingOK
<1> QED
  BY <1>5, <1>6, <1>7, <1>8, <1>9, <1>10, <1>11, <1>12, <1>13 DEF IInv
\* Taking the process out of the client with the lock held, on the way to
\* stopping it.
LEMMA DetachStep ==
    ASSUME IInv, NEW t \in Threads, NEW f, NEW ids,
           Move(t, f, ids), lock = {} \/ lock = {t}, lock' = {t}, proc' = None,
           f \in Frame, Fits(f), f.pc = "teardown", f.s = proc,
           f.probe = None, inbox' = inbox,
           UNCHANGED <<gen, nextId, alive, reading, era>>,
           launched' \in BOOLEAN, userClosed' \in BOOLEAN,
           userClosed' => f.api \in {"close", "none"},
           restarts' \in Nat, calls' \in Nat, starts' \in Nat,
           closed' \in BOOLEAN, broken' \in BOOLEAN,
           th[t].pc \notin Launching
    PROVE  IInv'
<1>1. /\ TypeOK /\ LockOK /\ FrameOK /\ OwnOK /\ AliveOK /\ ClosedOK /\ EraOK
      /\ HealthOK /\ PendingOK
  BY DEF IInv
<1>2. /\ th' \in [Threads -> Frame] /\ th'[t] = f
      /\ \A u \in Threads \ {t} : th'[u] = th[u]
  BY <1>1 DEF TypeOK, Move
<1>3. pending' \subseteq pending /\ responses' \subseteq responses
  BY DEF Move
<1>4. \A u \in Threads \ {t} : ~HoldsLock(u)
  BY <1>1 DEF LockOK
<1>5. f.kind = "none" /\ f.id = None
  BY DEF Fits, Quiet, Launching
<1>6. TypeOK'
  BY <1>1, <1>2, <1>3 DEF TypeOK
<1>7. LockOK'
  BY <1>1, <1>2, <1>4 DEF LockOK, HoldsLock, Launching
<1>8. FrameOK'
  BY <1>1, <1>2, <1>5 DEF FrameOK, TypeOK, None
<1>9. OwnOK'
  <2>1. \A r \in responses' : <<r.id, r.by>> \in pending'
    BY <1>1 DEF OwnOK, Move
  <2> QED
    BY <1>1, <1>2, <1>3, <2>1 DEF OwnOK
<1>10. AliveOK'
  BY <1>1, <1>2, <1>4 DEF AliveOK, HoldsLock, Launching
<1>11. ClosedOK'
  BY <1>1, <1>2, <1>4 DEF ClosedOK, HoldsLock, Launching
<1>12. EraOK'
  BY <1>1, <1>2, <1>5 DEF EraOK
<1>13. HealthOK' /\ PendingOK'
  BY <1>2, <1>4 DEF HealthOK, PendingOK, HoldsLock, Launching
<1> QED
  BY <1>6, <1>7, <1>8, <1>9, <1>10, <1>11, <1>12, <1>13 DEF IInv

\* An exception of a thread that writes or waits: a call ends, a handshake
\* is torn down.
LEMMA RaiseStep ==
    ASSUME IInv, NEW t \in Threads, NEW ids, Raise(t), Steady,
           UNCHANGED <<lock, inbox>>, era' = era,
           pending' = {p \in pending : p[1] \notin ids},
           responses' = {r \in responses : r.id \notin ids},
           th[t].id \in ids \/ th[t].kind = "late",
           th[t].pc \notin Launching
    PROVE  IInv'
<1>1. /\ TypeOK /\ LockOK /\ FrameOK /\ OwnOK /\ AliveOK /\ ClosedOK /\ EraOK
      /\ HealthOK /\ PendingOK
  BY DEF IInv
<1>2. th \in [Threads -> Frame]
  BY <1>1 DEF TypeOK
<1>3. CASE t \in lock
  <2>1. lock = {t}
    BY <1>1, <1>3 DEF TypeOK
  <2> DEFINE f == [Idle EXCEPT !.pc = "teardown", !.s = proc]
  <2>2. /\ f \in Frame /\ Fits(f) /\ f.pc = "teardown" /\ f.s = proc
        /\ f.probe = None /\ f.api = "none"
    BY <1>1, IdleFrame
       DEF TypeOK, Idle, Frame, Points, Kinds, Fits, Quiet, Launching, None
  <2>3. Move(t, f, ids) /\ proc' = None
    BY <1>3 DEF Raise, Detach, Move
  <2> HIDE DEF f
  <2> QED
    BY <1>1, <2>1, <2>2, <2>3, DetachStep DEF Steady, TypeOK
<1>4. CASE t \notin lock
  <2>1. th[t].kind \notin Handshake /\ th[t].probe = None
    BY <1>1, <1>4 DEF LockOK, HoldsLock, FrameOK, Fits, Handshake
  <2>2. Move(t, Idle, ids) /\ proc' = proc
    BY <1>4 DEF Raise, Move
  <2>3. CarriesOn(t, Idle, ids)
    BY <2>1, IdleFrame DEF CarriesOn, Launching, Handshake
  <2>4. SendsOwn(t) /\ KeepsOrReleases(t, Idle)
    BY <1>1 DEF SendsOwn, KeepsOrReleases, TypeOK
  <2> QED
    BY <2>2, <2>3, <2>4, MoveStep
<1> QED BY <1>3, <1>4
-----------------------------------------------------------------------------
\* The steps under the lifecycle lock.

\* _launch takes the free lock and gives up the old process before a new one.
LEMMA LaunchStep == ASSUME IInv, NEW t \in Threads, Launch(t) PROVE IInv'
<1>1. /\ TypeOK /\ LockOK /\ FrameOK /\ OwnOK /\ AliveOK /\ ClosedOK /\ EraOK
      /\ HealthOK /\ PendingOK
  BY DEF IInv
<1>2. th[t] \in Frame /\ Fits(th[t]) /\ th[t].pc = "acquire"
  BY <1>1 DEF TypeOK, FrameOK, Launch, Ensuring, At
<1> DEFINE f == [th[t] EXCEPT !.pc = "teardown", !.s = proc]
<1>3. /\ f \in Frame /\ Fits(f) /\ f.pc = "teardown" /\ f.s = proc
      /\ f.probe = None
  BY <1>1, <1>2 DEF TypeOK, Frame, Points, Fits, Quiet, Launching, None
<1>4. Move(t, f, {}) /\ proc' = None
  BY <1>1 DEF Launch, Detach, Move
<1> HIDE DEF f
<1> QED
  BY <1>1, <1>2, <1>3, <1>4, DetachStep
     DEF Launch, Ensuring, TypeOK, world, counters, Launching

\* close takes the free lock and gives up the process for good.
LEMMA CloseStep == ASSUME IInv, NEW t \in Threads, Close(t) PROVE IInv'
<1>1. /\ TypeOK /\ LockOK /\ FrameOK /\ OwnOK /\ AliveOK /\ ClosedOK /\ EraOK
      /\ HealthOK /\ PendingOK
  BY DEF IInv
<1>2. /\ th[t] \in Frame /\ Fits(th[t]) /\ th[t].pc = "acquire"
      /\ th[t].api = "close"
  BY <1>1 DEF TypeOK, FrameOK, Close, At
<1> DEFINE f == [th[t] EXCEPT !.pc = "teardown", !.s = proc]
<1>3. /\ f \in Frame /\ Fits(f) /\ f.pc = "teardown" /\ f.s = proc
      /\ f.probe = None /\ f.api = "close"
  BY <1>1, <1>2 DEF TypeOK, Frame, Points, Fits, Quiet, Launching, None
<1>4. Move(t, f, {}) /\ proc' = None
  BY <1>1 DEF Close, Detach, Move
<1> HIDE DEF f
<1> QED
  BY <1>1, <1>2, <1>3, <1>4, DetachStep
     DEF Close, TypeOK, world, counters, Launching
\* Facts about a thread between Detach and the handshake.
LEMMA LaunchingAlone ==
    ASSUME IInv, NEW t \in Threads, th[t].pc \in Launching
    PROVE  /\ th[t] \in Frame /\ lock = {t} /\ proc = None
           /\ th[t].kind = "none" /\ th[t].id = None /\ th[t].probe = None
           /\ \A u \in Threads \ {t} : ~HoldsLock(u)
  BY DEF IInv, TypeOK, LockOK, HoldsLock, FrameOK, Fits, Quiet, Launching

\* _teardown stops the process it took over; the lock passes on or is freed.
LEMMA TeardownStep == ASSUME IInv, NEW t \in Threads, Teardown(t) PROVE IInv'
<1>1. /\ TypeOK /\ LockOK /\ FrameOK /\ OwnOK /\ AliveOK /\ ClosedOK /\ EraOK
      /\ HealthOK /\ PendingOK
  BY DEF IInv
<1>2. /\ th[t] \in Frame /\ lock = {t} /\ proc = None
      /\ th[t].kind = "none" /\ th[t].id = None /\ th[t].probe = None
      /\ \A u \in Threads \ {t} : ~HoldsLock(u)
  BY LaunchingAlone DEF Teardown, At, Launching
<1>3. PICK f \in Frame :
      /\ th' = [th EXCEPT ![t] = f]
      /\ f.pc \in {"spawn", "idle"} /\ f.kind = "none"
      /\ f.id = None /\ f.probe = None
      /\ f.pc = "spawn" => th[t].api \notin {"close", "none"} /\ lock' = lock
      /\ f.pc = "idle" => lock' = {}
  <2>1. CASE th[t].api \in Apis \ {"close"}
    <3> DEFINE f == [th[t] EXCEPT !.pc = "spawn", !.s = None]
    <3>1. /\ f \in Frame /\ f.pc = "spawn" /\ f.kind = "none"
          /\ f.id = None /\ f.probe = None
      BY <1>2 DEF Frame, Points, None
    <3>2. th' = [th EXCEPT ![t] = f] /\ lock' = lock
      BY <2>1 DEF Teardown
    <3>3. th[t].api \notin {"close", "none"}
      BY <2>1 DEF Apis
    <3> QED BY <3>1, <3>2, <3>3
  <2>2. CASE th[t].api \notin Apis \ {"close"}
    <3>1. th' = [th EXCEPT ![t] = Idle] /\ lock' = {}
      BY <2>2 DEF Teardown
    <3> QED BY <3>1, IdleFrame
  <2> QED BY <2>1, <2>2
<1>4. /\ th' \in [Threads -> Frame] /\ th'[t] = f
      /\ \A u \in Threads \ {t} : th'[u] = th[u]
  BY <1>1, <1>3 DEF TypeOK
<1>5. TypeOK'
  <2>1. lock' \in {{}} \cup {{u} : u \in Threads}
    BY <1>1, <1>3 DEF TypeOK
  <2> QED
    BY <1>1, <1>4, <2>1 DEF Teardown, TypeOK, budget, counters
<1>6. LockOK' /\ FrameOK'
  BY <1>1, <1>2, <1>3, <1>4
     DEF Teardown, LockOK, FrameOK, Fits, HoldsLock, Launching, Quiet, Handshake, None,
         TypeOK
<1>7. OwnOK'
  BY <1>1, <1>3, <1>4 DEF Teardown, OwnOK
<1>8. AliveOK'
  BY <1>1, <1>2, <1>4 DEF Teardown, AliveOK, HoldsLock, Launching
<1>9. ClosedOK'
  BY <1>1, <1>2, <1>3, <1>4 DEF Teardown, At, ClosedOK, budget, HoldsLock, Launching
<1>10. EraOK'
  BY <1>1, <1>2, <1>3, <1>4 DEF Teardown, EraOK
<1>11. HealthOK' /\ PendingOK'
  BY <1>2, <1>3, <1>4 DEF Teardown, HealthOK, PendingOK, HoldsLock, Launching
<1> QED
  BY <1>5, <1>6, <1>7, <1>8, <1>9, <1>10, <1>11 DEF IInv

\* _spawn starts a generation with an open channel and nothing registered.
LEMMA SpawnStep == ASSUME IInv, NEW t \in Threads, Spawn(t) PROVE IInv'
<1>1. /\ TypeOK /\ LockOK /\ FrameOK /\ OwnOK /\ AliveOK /\ ClosedOK /\ EraOK
      /\ HealthOK /\ PendingOK
  BY DEF IInv
<1>2. /\ th[t] \in Frame /\ lock = {t} /\ proc = None
      /\ th[t].kind = "none" /\ th[t].id = None /\ th[t].probe = None
      /\ \A u \in Threads \ {t} : ~HoldsLock(u)
  BY LaunchingAlone DEF Spawn, At, Launching
<1> DEFINE f == [th[t] EXCEPT !.pc = "popen"]
<1>3. /\ f \in Frame /\ f.pc = "popen" /\ f.kind = "none"
      /\ f.id = None /\ f.probe = None
  BY <1>2 DEF Frame, Points
<1>4. /\ th' \in [Threads -> Frame] /\ th'[t] = f
      /\ \A u \in Threads \ {t} : th'[u] = th[u]
  BY <1>1, <1>3 DEF TypeOK, Spawn
<1> HIDE DEF f
<1>5. TypeOK'
  <2>1. gen + 1 \in Nat /\ 1..gen \subseteq 1..(gen + 1)
    BY <1>1 DEF TypeOK
  <2>2. alive' \subseteq 1..gen' /\ reading' \subseteq 1..gen'
    BY <1>1, <2>1 DEF Spawn, TypeOK
  <2> QED
    BY <1>1, <1>2, <1>4, <2>1, <2>2 DEF Spawn, TypeOK, budget, counters
<1>6. LockOK' /\ FrameOK'
  BY <1>1, <1>2, <1>3, <1>4
     DEF Spawn, LockOK, FrameOK, Fits, HoldsLock, Launching, Quiet, Handshake, None,
         TypeOK
<1>7. OwnOK'
  BY <1>1, <1>3, <1>4 DEF Spawn, OwnOK
<1>8. AliveOK'
  BY <1>1, <1>2, <1>4 DEF Spawn, At, AliveOK, HoldsLock, Launching
<1>9. ClosedOK'
  BY <1>1, <1>2, <1>3, <1>4 DEF Spawn, At, ClosedOK, budget, HoldsLock, Launching
<1>10. EraOK'
  BY <1>1, <1>2, <1>3, <1>4 DEF Spawn, EraOK, HoldsLock, Handshake
<1>11. HealthOK' /\ PendingOK'
  BY <1>2, <1>3, <1>4 DEF Spawn, HealthOK, PendingOK, HoldsLock, Launching
<1> QED
  BY <1>5, <1>6, <1>7, <1>8, <1>9, <1>10, <1>11 DEF IInv

\* Popen gives the client the process of its generation.
LEMMA PopenStep == ASSUME IInv, NEW t \in Threads, Popen(t) PROVE IInv'
<1>1. /\ TypeOK /\ LockOK /\ FrameOK /\ OwnOK /\ AliveOK /\ ClosedOK /\ EraOK
      /\ HealthOK /\ PendingOK
  BY DEF IInv
<1>2. /\ th[t] \in Frame /\ lock = {t} /\ proc = None
      /\ th[t].kind = "none" /\ th[t].id = None /\ th[t].probe = None
      /\ \A u \in Threads \ {t} : ~HoldsLock(u)
  BY LaunchingAlone DEF Popen, At, Launching
<1> DEFINE f == [th[t] EXCEPT !.pc = "issue", !.kind = "probe", !.legacyOk = TRUE]
<1>3. /\ f \in Frame /\ f.pc = "issue" /\ f.kind = "probe"
      /\ f.id = None /\ f.probe = None
  BY <1>2, AnswerKinds DEF Frame, Points, Kinds
<1>4. /\ th' \in [Threads -> Frame] /\ th'[t] = f
      /\ \A u \in Threads \ {t} : th'[u] = th[u]
  BY <1>1, <1>3 DEF TypeOK, Popen
<1>5. gen \in 1..gen /\ gen # None
  BY <1>1 DEF Popen, At, LockOK, TypeOK, None
<1> HIDE DEF f
<1>6. TypeOK'
  BY <1>1, <1>2, <1>4, <1>5 DEF Popen, TypeOK, budget, counters
<1>7. LockOK' /\ FrameOK'
  BY <1>1, <1>2, <1>3, <1>4
     DEF Popen, LockOK, FrameOK, Fits, HoldsLock, Launching, Quiet, Handshake, None,
         TypeOK
<1>8. OwnOK'
  BY <1>1, <1>3, <1>4 DEF Popen, OwnOK
<1>9. AliveOK'
  BY <1>1, <1>2, <1>4 DEF Popen, At, AliveOK, HoldsLock, Launching, TypeOK, None
<1>10. ClosedOK'
  BY <1>1 DEF Popen, At, ClosedOK, budget
<1>11. EraOK'
  BY <1>1, <1>2, <1>3, <1>4 DEF Popen, EraOK
<1>12. HealthOK'
  BY <1>1 DEF Popen, At, HealthOK
<1>13. PendingOK'
  BY <1>1, <1>2, <1>3, <1>4 DEF Popen, At, PendingOK
<1> QED
  BY <1>6, <1>7, <1>8, <1>9, <1>10, <1>11, <1>12, <1>13 DEF IInv

\* When Popen fails there is no process to leak and the lock is freed.
LEMMA PopenFailsStep ==
    ASSUME IInv, NEW t \in Threads, PopenFails(t) PROVE IInv'
<1>1. /\ TypeOK /\ LockOK /\ FrameOK /\ OwnOK /\ AliveOK /\ ClosedOK /\ EraOK
      /\ HealthOK /\ PendingOK
  BY DEF IInv
<1>2. /\ th[t] \in Frame /\ lock = {t} /\ proc = None
      /\ \A u \in Threads \ {t} : ~HoldsLock(u)
  BY LaunchingAlone DEF PopenFails, At, Launching
<1>3. /\ th' \in [Threads -> Frame] /\ th'[t] = Idle
      /\ \A u \in Threads \ {t} : th'[u] = th[u]
  BY <1>1, IdleFrame DEF TypeOK, PopenFails
<1>4. TypeOK'
  BY <1>1, <1>3 DEF PopenFails, TypeOK, shared, budget, world, counters
<1>5. LockOK' /\ FrameOK'
  BY <1>1, <1>2, <1>3, IdleFrame
     DEF PopenFails, LockOK, FrameOK, HoldsLock, Launching, Handshake, None, TypeOK,
         shared
<1>6. OwnOK' /\ AliveOK'
  BY <1>1, <1>3, IdleFrame DEF PopenFails, At, OwnOK, AliveOK, shared, world
<1>7. ClosedOK' /\ EraOK'
  BY <1>1, <1>2, <1>3, IdleFrame DEF PopenFails, ClosedOK, EraOK, shared, budget
<1>8. HealthOK' /\ PendingOK'
  BY <1>2, <1>3, IdleFrame
     DEF PopenFails, HealthOK, PendingOK, shared, HoldsLock, Launching
<1> QED
  BY <1>4, <1>5, <1>6, <1>7, <1>8 DEF IInv
\* _issue takes a new id, so that no earlier message or answer has it.
LEMMA IssueStep == ASSUME IInv, NEW t \in Threads, Issue(t) PROVE IInv'
<1>1. /\ TypeOK /\ LockOK /\ FrameOK /\ OwnOK /\ AliveOK /\ ClosedOK /\ EraOK
      /\ HealthOK /\ PendingOK
  BY DEF IInv
<1>2. th[t] \in Frame /\ Fits(th[t]) /\ th[t].pc = "issue" /\ th[t].id = None
  BY <1>1 DEF TypeOK, FrameOK, Fits, Issue, At
<1> DEFINE f == [th[t] EXCEPT !.pc = "write", !.id = nextId, !.g = gen]
<1>3. /\ f \in Frame /\ Fits(f) /\ f.pc = "write" /\ f.id = nextId /\ f.g = gen
      /\ f.kind = th[t].kind /\ f.probe = th[t].probe
  BY <1>1, <1>2 DEF TypeOK, Frame, Points, Fits, Quiet, Launching
<1>4. /\ th' \in [Threads -> Frame] /\ th'[t] = f
      /\ \A u \in Threads \ {t} : th'[u] = th[u]
  BY <1>1, <1>3 DEF TypeOK, Issue
<1> HIDE DEF f
<1>5. TypeOK'
  BY <1>1, <1>4 DEF Issue, TypeOK, budget, world, counters
<1>6. LockOK'
  BY <1>1, <1>2, <1>3, <1>4 DEF Issue, LockOK, HoldsLock, Launching
<1>7. FrameOK'
  BY <1>1, <1>3, <1>4 DEF Issue, FrameOK, TypeOK, Frame
<1>8. OwnOK'
  <2>1. \A p \in pending' : p[1] < nextId' /\ (p \in pending \/ p = <<nextId, gen>>)
    BY <1>1 DEF Issue, OwnOK, TypeOK
  <2>2. \A m \in inbox' : m \in inbox /\ m.id < nextId' /\ m.to = m.own
    BY <1>1 DEF Issue, OwnOK, TypeOK, world
  <2>3. \A p \in pending' : \A m \in inbox' : p[1] = m.id => p[2] = m.own
    BY <1>1, <2>1, <2>2 DEF OwnOK, TypeOK
  <2>4. \A u \in Threads \ {t} : th'[u].id < nextId /\ th'[u].id \in Nat
    BY <1>1, <1>4 DEF FrameOK, TypeOK, Frame
  <2>5. \A p \in pending' : \A u \in Threads :
           (th'[u].pc \in {"write", "send"} /\ p[1] = th'[u].id)
              => p[2] = th'[u].g
    BY <1>1, <1>3, <1>4, <2>1, <2>4 DEF OwnOK, TypeOK
  <2>6. \A r \in responses' : <<r.id, r.by>> \in pending'
    BY <1>1 DEF Issue, OwnOK
  <2> QED BY <2>1, <2>2, <2>3, <2>5, <2>6 DEF OwnOK
<1>9. AliveOK' /\ ClosedOK'
  BY <1>1, <1>2, <1>3, <1>4 DEF Issue, AliveOK, ClosedOK, budget, world
<1>10. EraOK' /\ HealthOK'
  BY <1>1, <1>2, <1>3, <1>4 DEF Issue, EraOK, HealthOK, world
<1>11. PendingOK'
  <2>1. ASSUME NEW p \in pending',
               proc' # None \/ \E u \in Threads : th'[u].pc = "popen"
        PROVE  \E u \in Threads : p[1] = th'[u].id \/ p[1] = th'[u].probe
    <3>1. CASE p = <<nextId, gen>>
      BY <1>3, <1>4, <3>1
    <3>2. CASE p \in pending
      <4>1. PICK u \in Threads : p[1] = th[u].id \/ p[1] = th[u].probe
        BY <1>1, <1>2, <1>3, <1>4, <2>1, <3>2 DEF PendingOK, Issue
      <4>2. p[1] # None
        BY <1>1, <3>2 DEF TypeOK, None
      <4> QED BY <1>2, <1>3, <1>4, <4>1, <4>2
    <3> QED BY <2>1, <3>1, <3>2 DEF Issue
  <2> QED BY <2>1 DEF PendingOK
<1> QED
  BY <1>5, <1>6, <1>7, <1>8, <1>9, <1>10, <1>11 DEF IInv
-----------------------------------------------------------------------------
\* The steps of the readers and of the servers.

\* _handle_line stores an answer only under a registration of the same process.
LEMMA HandleLineStep ==
    ASSUME IInv, NEW m \in inbox, NEW ans \in AnswersTo[m.kind],
           HandleLine(m, ans)
    PROVE  IInv'
<1>1. /\ TypeOK /\ LockOK /\ FrameOK /\ OwnOK /\ AliveOK /\ ClosedOK /\ EraOK
      /\ HealthOK /\ PendingOK
  BY DEF IInv
<1>2. \A p \in pending : p[1] = m.id => p = <<m.id, m.to>>
  BY <1>1 DEF OwnOK, TypeOK
<1>3. \A r \in responses' :
         r \in responses \/ /\ r = [id |-> m.id, by |-> m.to, ans |-> ans]
                            /\ <<m.id, m.to>> \in pending
  BY <1>2 DEF HandleLine
<1>4. m.id \in Nat /\ m.to \in Nat /\ m.kind \in DOMAIN AnswersTo
  BY <1>1 DEF TypeOK
<1>5. ans \in UNION {AnswersTo[q] : q \in DOMAIN AnswersTo}
  BY <1>4
<1>6. TypeOK'
  <2>1. responses' \subseteq
          [id : Nat, by : Nat, ans : UNION {AnswersTo[q] : q \in DOMAIN AnswersTo}]
    BY <1>1, <1>3, <1>4, <1>5 DEF TypeOK
  <2> QED
    BY <1>1, <2>1 DEF HandleLine, TypeOK, budget, counters
<1>7. LockOK' /\ FrameOK' /\ AliveOK' /\ ClosedOK' /\ EraOK' /\ HealthOK' /\ PendingOK'
  BY <1>1
     DEF HandleLine, LockOK, HoldsLock, FrameOK, AliveOK, ClosedOK, EraOK, HealthOK,
         PendingOK, budget
<1>8. OwnOK'
  BY <1>1, <1>3 DEF HandleLine, OwnOK
<1> QED
  BY <1>6, <1>7, <1>8 DEF IInv

\* The end of a reader marks the channel only of the current generation.
LEMMA ReaderEndsStep ==
    ASSUME IInv, NEW g \in reading, ReaderEnds(g) PROVE IInv'
<1>1. /\ TypeOK /\ LockOK /\ FrameOK /\ OwnOK /\ AliveOK /\ ClosedOK /\ EraOK
      /\ HealthOK /\ PendingOK
  BY DEF IInv
<1>2. TypeOK'
  BY <1>1 DEF ReaderEnds, MarkBroken, Fails, TypeOK, budget, counters
<1>3. LockOK' /\ FrameOK' /\ AliveOK' /\ ClosedOK' /\ EraOK' /\ PendingOK'
  BY <1>1
     DEF ReaderEnds, LockOK, HoldsLock, FrameOK, AliveOK, ClosedOK, EraOK, PendingOK,
         budget
<1>4. OwnOK'
  BY <1>1 DEF ReaderEnds, OwnOK
<1>5. HealthOK'
  BY <1>1 DEF ReaderEnds, MarkBroken, Fails, HealthOK
<1> QED
  BY <1>2, <1>3, <1>4, <1>5 DEF IInv

\* A server that dies is a failure of its own generation only.
LEMMA ServerDiesStep ==
    ASSUME IInv, NEW g \in alive, ServerDies(g) PROVE IInv'
<1>1. /\ TypeOK /\ LockOK /\ FrameOK /\ OwnOK /\ AliveOK /\ ClosedOK /\ EraOK
      /\ HealthOK /\ PendingOK
  BY DEF IInv
<1>2. TypeOK'
  BY <1>1 DEF ServerDies, Fails, TypeOK, shared, budget, counters
<1>3. LockOK' /\ FrameOK' /\ AliveOK' /\ ClosedOK' /\ EraOK' /\ PendingOK'
  BY <1>1
     DEF ServerDies, LockOK, HoldsLock, FrameOK, AliveOK, ClosedOK, EraOK, PendingOK,
         shared, budget
<1>4. OwnOK' /\ HealthOK'
  BY <1>1 DEF ServerDies, Fails, OwnOK, HealthOK, shared
<1> QED
  BY <1>2, <1>3, <1>4 DEF IInv
-----------------------------------------------------------------------------
\* The steps of a thread that moves on with the process it found.

\* What IInv says of one thread.
LEMMA FrameFacts ==
    ASSUME IInv, NEW t \in Threads
    PROVE  /\ TypeOK /\ th[t] \in Frame /\ Fits(th[t])
           /\ th[t].kind \in Handshake => lock = {t}
           /\ th[t].kind = "initialized" => era # "none"
  BY DEF IInv, TypeOK, FrameOK, LockOK, HoldsLock, EraOK

\* A step that leaves the world alone is Steady.
LEMMA SteadyStep ==
    ASSUME TypeOK, UNCHANGED <<gen, closed, era, nextId, alive, reading, broken,
                               launched, userClosed, restarts>>,
           calls' \in Nat, starts' \in Nat
    PROVE  Steady
  BY DEF TypeOK, Steady

\* A step that sends nothing sends nothing foreign.
LEMMA SilentStep ==
    ASSUME TypeOK, NEW t \in Threads, inbox' = inbox PROVE SendsOwn(t)
  BY DEF TypeOK, SendsOwn

\* The frame in which start or _ensure_running succeeds.
LEMMA ReadyFrame ==
    ASSUME TypeOK, NEW t \in Threads, Ready(t)
    PROVE  \E f \in Frame : /\ th' = [th EXCEPT ![t] = f] /\ Fits(f)
                            /\ f.pc \in {"idle", "call"} /\ f.kind = "none"
                            /\ f.id = None /\ f.probe = None
<1>1. CASE th[t].api = "start"
  BY <1>1, IdleFrame DEF Ready, TypeOK
<1>2. CASE th[t].api # "start"
  <2> DEFINE f == [Idle EXCEPT !.pc = "call", !.api = th[t].api]
  <2>1. f \in Frame /\ Fits(f) /\ f.pc = "call" /\ f.kind = "none"
        /\ f.id = None /\ f.probe = None
    BY AnswerKinds
       DEF Idle, Frame, Points, Kinds, Fits, Quiet, Launching, None, TypeOK
  <2>2. th' = [th EXCEPT ![t] = f]
    BY <1>2 DEF Ready, TypeOK
  <2> QED BY <2>1, <2>2
<1> QED BY <1>1, <1>2

\* A thread that holds nothing returns to its caller.
LEMMA ReturnStep ==
    ASSUME IInv, NEW t \in Threads, th[t].pc \in {"acquire", "call"},
           th' = [th EXCEPT ![t] = Idle],
           UNCHANGED <<shared, budget, nextId, lock, world, counters>>
    PROVE  IInv'
<1>1. TypeOK /\ Fits(th[t]) /\ th[t].id = None /\ th[t].probe = None
  BY FrameFacts DEF Fits, Quiet
<1>2. Move(t, Idle, {}) /\ proc' = proc /\ KeepsOrReleases(t, Idle)
  BY <1>1 DEF Move, KeepsOrReleases, shared
<1>3. CarriesOn(t, Idle, {})
  BY <1>1, IdleFrame DEF CarriesOn, Launching, Handshake
<1>4. Steady /\ SendsOwn(t)
  BY <1>1, SteadyStep, SilentStep DEF shared, budget, world, counters, TypeOK
<1> QED
  BY <1>2, <1>3, <1>4, MoveStep DEF Launching

\* A thread enters the client without the lock.
LEMMA BeginStep ==
    ASSUME IInv, NEW t \in Threads, NEW api \in Apis, Begin(t, api) PROVE IInv'
<1>1. /\ TypeOK /\ Fits(th[t]) /\ th[t].pc = "idle"
      /\ th[t].id = None /\ th[t].probe = None
  BY FrameFacts DEF Begin, At, Fits, Quiet
<1> DEFINE f == [Idle EXCEPT !.pc = "acquire", !.api = api]
<1>2. /\ f \in Frame /\ Fits(f) /\ f.pc = "acquire" /\ f.kind = "none"
      /\ f.id = None /\ f.probe = None
  BY AnswerKinds DEF Idle, Frame, Points, Kinds, Fits, Quiet, Launching, None
<1>3. Move(t, f, {}) /\ proc' = proc /\ lock' = lock /\ inbox' = inbox
  BY <1>1 DEF Begin, Move, shared, world
<1> HIDE DEF f
<1>4. CarriesOn(t, f, {}) /\ KeepsOrReleases(t, f)
  BY <1>1, <1>2, <1>3 DEF CarriesOn, KeepsOrReleases, Launching, Handshake
<1>5. Steady /\ SendsOwn(t)
  <2>1. calls' \in Nat /\ starts' \in Nat
    BY <1>1 DEF Begin, TypeOK
  <2> QED
    BY <1>1, <1>3, <2>1, SteadyStep, SilentStep DEF Begin, shared, budget, world
<1> QED
  BY <1>1, <1>3, <1>4, <1>5, MoveStep DEF Launching

\* _ensure_running of a client with a process changes only the frame.
LEMMA AlreadyRunningStep ==
    ASSUME IInv, NEW t \in Threads, AlreadyRunning(t) PROVE IInv'
<1>1. /\ TypeOK /\ Fits(th[t]) /\ th[t].pc = "acquire"
      /\ th[t].id = None /\ th[t].probe = None
  BY FrameFacts DEF AlreadyRunning, Ensuring, At, Fits, Quiet
<1>2. PICK f \in Frame : /\ th' = [th EXCEPT ![t] = f] /\ Fits(f)
                         /\ f.pc \in {"idle", "call"} /\ f.kind = "none"
                         /\ f.id = None /\ f.probe = None
  BY <1>1, ReadyFrame DEF AlreadyRunning
<1>3. /\ Move(t, f, {}) /\ proc' = proc /\ lock' = lock /\ inbox' = inbox
  BY <1>2 DEF AlreadyRunning, Move, shared, world
<1>4. CarriesOn(t, f, {}) /\ KeepsOrReleases(t, f)
  BY <1>1, <1>2, <1>3 DEF CarriesOn, KeepsOrReleases, Launching, Handshake
<1>5. Steady /\ SendsOwn(t)
  BY <1>1, <1>3, SteadyStep, SilentStep
     DEF AlreadyRunning, shared, budget, world, counters, TypeOK
<1> QED
  BY <1>1, <1>3, <1>4, <1>5, MoveStep DEF Launching

\* _payload reads the era and changes only the frame.
LEMMA PayloadStep == ASSUME IInv, NEW t \in Threads, Payload(t) PROVE IInv'
<1>1. /\ TypeOK /\ th[t] \in Frame /\ Fits(th[t]) /\ th[t].pc = "call"
      /\ th[t].id = None /\ th[t].probe = None
  BY FrameFacts DEF Payload, At, Fits, Quiet
<1> DEFINE f == [th[t] EXCEPT !.pc = "issue", !.kind = "request",
                              !.meta = (era = "modern"), !.pages = @ + 1]
<1>2. /\ f \in Frame /\ Fits(f) /\ f.pc = "issue" /\ f.kind = "request"
      /\ f.id = None /\ f.probe = None
  <2>1. th[t].pages + 1 \in Nat /\ (era = "modern") \in BOOLEAN
    BY <1>1 DEF Frame
  <2> QED
    BY <1>1, <2>1, AnswerKinds DEF Frame, Points, Kinds, Fits, Quiet, Launching
<1>3. Move(t, f, {}) /\ proc' = proc /\ lock' = lock /\ inbox' = inbox
  BY <1>1 DEF Payload, Move, shared, world
<1> HIDE DEF f
<1>4. CarriesOn(t, f, {}) /\ KeepsOrReleases(t, f)
  BY <1>1, <1>2, <1>3 DEF CarriesOn, KeepsOrReleases, Launching, Handshake
<1>5. Steady /\ SendsOwn(t)
  BY <1>1, <1>3, SteadyStep, SilentStep
     DEF Payload, shared, budget, world, counters, TypeOK
<1> QED
  BY <1>1, <1>3, <1>4, <1>5, MoveStep DEF Launching

\* A notification has no id to register.
LEMMA NotifyStep == ASSUME IInv, NEW t \in Threads, Notify(t) PROVE IInv'
<1>1. /\ TypeOK /\ th[t] \in Frame /\ Fits(th[t]) /\ th[t].pc = "notify"
      /\ th[t].id = None
      /\ th[t].kind \in Handshake => lock = {t}
      /\ th[t].kind = "initialized" => era # "none"
  BY FrameFacts DEF Notify, At, Fits
<1> DEFINE f == [th[t] EXCEPT !.pc = "write", !.g = gen]
<1>2. /\ f \in Frame /\ Fits(f) /\ f.pc = "write" /\ f.kind = th[t].kind
      /\ f.id = None /\ f.probe = th[t].probe
  BY <1>1 DEF Frame, Points, Fits, Quiet, Launching, TypeOK
<1>3. Move(t, f, {}) /\ proc' = proc /\ lock' = lock /\ inbox' = inbox /\ era' = era
  BY <1>1 DEF Notify, Move, shared, world
<1> HIDE DEF f
<1>4. CarriesOn(t, f, {}) /\ KeepsOrReleases(t, f)
  BY <1>1, <1>2, <1>3 DEF CarriesOn, KeepsOrReleases, Launching
<1>5. Steady /\ SendsOwn(t)
  BY <1>1, <1>3, SteadyStep, SilentStep
     DEF Notify, shared, budget, world, counters, TypeOK
<1> QED
  BY <1>1, <1>3, <1>4, <1>5, MoveStep DEF Launching

\* A request fetches the pipe of the generation it was registered for.
LEMMA FetchPipeStep == ASSUME IInv, NEW t \in Threads, FetchPipe(t) PROVE IInv'
<1>1. /\ TypeOK /\ th[t] \in Frame /\ Fits(th[t]) /\ th[t].pc = "write"
      /\ th[t].kind \in Handshake => lock = {t}
      /\ th[t].kind = "initialized" => era # "none"
      /\ proc = gen /\ gen = th[t].g
  BY FrameFacts DEF FetchPipe, WriteAllowed, At, TypeOK
<1> DEFINE f == [th[t] EXCEPT !.pc = "send", !.s = proc]
<1>2. /\ f \in Frame /\ Fits(f) /\ f.pc = "send" /\ f.kind = th[t].kind
      /\ f.id = th[t].id /\ f.probe = th[t].probe /\ f.g = th[t].g
  BY <1>1 DEF Frame, Points, Fits, Quiet, Launching, TypeOK
<1>3. Move(t, f, {}) /\ proc' = proc /\ lock' = lock /\ inbox' = inbox /\ era' = era
  BY <1>1 DEF FetchPipe, Move, shared, world
<1> HIDE DEF f
<1>4. CarriesOn(t, f, {}) /\ KeepsOrReleases(t, f)
  BY <1>1, <1>2, <1>3 DEF CarriesOn, KeepsOrReleases, Launching
<1>5. Steady /\ SendsOwn(t)
  BY <1>1, <1>3, SteadyStep, SilentStep
     DEF FetchPipe, shared, budget, world, counters, TypeOK
<1> QED
  BY <1>1, <1>3, <1>4, <1>5, MoveStep DEF Launching
\* A handshake that ends well, and gives the lock back.
LEMMA HandshakeEnds ==
    ASSUME IInv, NEW t \in Threads, NEW ids, Ready(t), Steady, proc' = proc,
           lock' = {}, inbox' = inbox, era' # "none",
           th[t].kind \in Handshake, th[t].pc \notin Launching,
           {th[t].id, th[t].probe} \subseteq {None} \cup ids,
           pending' = {p \in pending : p[1] \notin ids},
           responses' = {r \in responses : r.id \notin ids}
    PROVE  IInv'
<1>1. TypeOK /\ lock = {t}
  BY FrameFacts
<1>2. PICK f \in Frame : /\ th' = [th EXCEPT ![t] = f] /\ Fits(f)
                         /\ f.pc \in {"idle", "call"} /\ f.kind = "none"
                         /\ f.id = None /\ f.probe = None
  BY <1>1, ReadyFrame
<1>3. Move(t, f, ids) /\ SendsOwn(t)
  BY <1>1, <1>2, SilentStep DEF Move
<1>4. CarriesOn(t, f, ids) /\ KeepsOrReleases(t, f)
  BY <1>1, <1>2 DEF CarriesOn, KeepsOrReleases, Launching, Handshake
<1> QED
  BY <1>3, <1>4, MoveStep

\* A message that could not be written.
LEMMA NotWrittenStep ==
    ASSUME IInv, NEW t \in Threads, th[t].pc \in {"write", "send"},
           NotWritten(t), Steady, inbox' = inbox, era' = era
    PROVE  IInv'
<1>1. /\ TypeOK /\ th[t] \in Frame /\ Fits(th[t])
      /\ th[t].kind = "initialized" => era # "none"
  BY FrameFacts
<1>2. CASE th[t].kind = "initialized"
  <2>1. Ready(t) /\ lock' = {} /\ UNCHANGED <<proc, pending, responses>>
    BY <1>2 DEF NotWritten
  <2>2. th[t].id = None /\ th[t].probe = None
    BY <1>1, <1>2 DEF Fits
  <2>3. /\ pending' = {p \in pending : p[1] \notin {}}
        /\ responses' = {r \in responses : r.id \notin {}}
    BY <2>1
  <2> QED
    BY <1>1, <1>2, <2>1, <2>2, <2>3, HandshakeEnds DEF Handshake, Launching
<1>3. CASE th[t].kind = "cancelled"
  <2>1. th' = [th EXCEPT ![t] = Idle] /\ UNCHANGED <<proc, pending, responses, lock>>
    BY <1>3 DEF NotWritten
  <2>2. th[t].id = None /\ th[t].probe = None
    BY <1>1, <1>3 DEF Fits
  <2>3. Move(t, Idle, {}) /\ SendsOwn(t) /\ KeepsOrReleases(t, Idle)
    BY <1>1, <2>1, SilentStep DEF Move, KeepsOrReleases
  <2>4. CarriesOn(t, Idle, {})
    BY <2>2, IdleFrame DEF CarriesOn, Launching, Handshake
  <2> QED
    BY <2>1, <2>3, <2>4, MoveStep DEF Launching
<1>4. CASE th[t].kind \notin {"initialized", "cancelled"}
  <2>1. Forget({th[t].id}) /\ Raise(t) /\ UNCHANGED lock
    BY <1>4 DEF NotWritten
  <2> QED
    BY <2>1, RaiseStep DEF Forget, Launching
<1> QED BY <1>2, <1>3, <1>4

\* A message that may not be written is forgotten, not sent.
LEMMA WriteRejectedStep ==
    ASSUME IInv, NEW t \in Threads, WriteRejected(t) PROVE IInv'
<1>1. TypeOK
  BY DEF IInv
<1>2. Steady /\ inbox' = inbox /\ era' = era
  BY <1>1, SteadyStep DEF WriteRejected, budget, world, counters, TypeOK
<1> QED
  BY <1>2, NotWrittenStep DEF WriteRejected, At

\* A message that waits too long for the write lock is not sent.
LEMMA SendStalledStep ==
    ASSUME IInv, NEW t \in Threads, SendStalled(t) PROVE IInv'
<1>1. TypeOK
  BY DEF IInv
<1>2. Steady /\ inbox' = inbox /\ era' = era
  BY <1>1, SteadyStep DEF SendStalled, budget, world, counters, TypeOK
<1> QED
  BY <1>2, NotWrittenStep DEF SendStalled, At

\* A write that fails marks the channel of its own generation only.
LEMMA SendFailsStep == ASSUME IInv, NEW t \in Threads, SendFails(t) PROVE IInv'
<1>1. TypeOK /\ Fits(th[t])
  BY FrameFacts
<1>2. th[t].s = th[t].g
  BY <1>1 DEF SendFails, At, Fits
<1>3. Steady
  BY <1>1, <1>2
     DEF SendFails, Steady, MarkBroken, Fails, budget, counters, TypeOK
<1> QED
  BY <1>3, NotWrittenStep DEF SendFails, At

\* A request goes to the process whose pipe was fetched.
LEMMA SendStep == ASSUME IInv, NEW t \in Threads, Send(t) PROVE IInv'
<1>1. /\ TypeOK /\ th[t] \in Frame /\ Fits(th[t]) /\ th[t].pc = "send"
      /\ th[t].kind \in Handshake => lock = {t}
      /\ th[t].kind = "initialized" => era # "none"
  BY FrameFacts DEF Send, At
<1>2. Steady /\ UNCHANGED <<proc, pending, responses, era>>
  BY <1>1, SteadyStep DEF Send, shared, budget, counters, TypeOK
<1>3. /\ pending' = {p \in pending : p[1] \notin {}}
      /\ responses' = {r \in responses : r.id \notin {}}
  BY <1>2
<1>4. CASE th[t].kind \in DOMAIN AnswersTo
  <2> DEFINE m == [id |-> th[t].id, kind |-> th[t].kind, own |-> th[t].g,
                   to |-> th[t].s, meta |-> th[t].meta]
             f == [th[t] EXCEPT !.pc = "await", !.s = None]
  <2>1. /\ f \in Frame /\ Fits(f) /\ f.pc = "await" /\ f.kind = th[t].kind
        /\ f.id = th[t].id /\ f.probe = th[t].probe
    BY <1>1 DEF Frame, Points, Fits, Quiet, Launching, None
  <2>2. th' = [th EXCEPT ![t] = f] /\ inbox' = inbox \cup {m} /\ lock' = lock
    BY <1>1, <1>4, AnswerKinds DEF Send
  <2>3. /\ m \in [id : Nat, kind : DOMAIN AnswersTo, own : Nat, to : Nat,
                  meta : BOOLEAN]
        /\ m.id = th[t].id /\ m.own = th[t].g /\ m.to = th[t].s
    BY <1>1, <1>4 DEF Frame
  <2> HIDE DEF f, m
  <2>4. SendsOwn(t)
    BY <1>1, <2>2, <2>3 DEF SendsOwn, TypeOK
  <2>5. Move(t, f, {}) /\ CarriesOn(t, f, {}) /\ KeepsOrReleases(t, f)
    BY <1>1, <1>2, <1>3, <2>1, <2>2 DEF Move, CarriesOn, KeepsOrReleases, Launching
  <2> QED
    BY <1>1, <1>2, <2>4, <2>5, MoveStep DEF Launching
<1>5. CASE th[t].kind = "initialized"
  <2>1. Ready(t) /\ lock' = {} /\ inbox' = inbox
    BY <1>1, <1>5, AnswerKinds DEF Send
  <2>2. th[t].id = None /\ th[t].probe = None
    BY <1>1, <1>5 DEF Fits
  <2> QED
    BY <1>1, <1>2, <1>3, <1>5, <2>1, <2>2, HandshakeEnds DEF Handshake, Launching
<1>6. CASE th[t].kind = "cancelled"
  <2>1. th' = [th EXCEPT ![t] = Idle] /\ lock' = lock /\ inbox' = inbox
    BY <1>1, <1>6, AnswerKinds DEF Send
  <2>2. th[t].id = None /\ th[t].probe = None
    BY <1>1, <1>6 DEF Fits
  <2>3. Move(t, Idle, {}) /\ SendsOwn(t) /\ KeepsOrReleases(t, Idle)
    BY <1>1, <1>3, <2>1, SilentStep DEF Move, KeepsOrReleases
  <2>4. CarriesOn(t, Idle, {})
    BY <2>2, IdleFrame DEF CarriesOn, Launching, Handshake
  <2> QED
    BY <1>1, <1>2, <2>3, <2>4, MoveStep DEF Launching
<1> QED
  BY <1>4, <1>5, <1>6 DEF Send
\* What every answer leaves alone.
LEMMA AnswerFacts ==
    ASSUME IInv, NEW t \in Threads, At(t, "await"),
           era' \in {era, "modern", "legacy"},
           UNCHANGED <<gen, closed, budget, nextId, world, counters>>
    PROVE  /\ TypeOK /\ th[t] \in Frame /\ Fits(th[t]) /\ th[t].pc = "await"
           /\ th[t].pc \notin Launching
           /\ th[t].kind \in Handshake => lock = {t}
           /\ Steady /\ inbox' = inbox /\ SendsOwn(t)
<1>1. /\ TypeOK /\ th[t] \in Frame /\ Fits(th[t]) /\ th[t].pc = "await"
      /\ th[t].kind \in Handshake => lock = {t}
  BY FrameFacts DEF At
<1>2. Steady /\ inbox' = inbox
  BY <1>1 DEF Steady, TypeOK, budget, world, counters
<1> QED
  BY <1>1, <1>2, SilentStep DEF Launching

\* The answer to server/discover sets the era or turns to initialize.
LEMMA ProbeAnsweredStep ==
    ASSUME IInv, NEW t \in Threads, NEW ans, At(t, "await"),
           ProbeAnswered(t, ans),
           UNCHANGED <<gen, closed, budget, nextId, world, counters>>
    PROVE  IInv'
<1>1. /\ TypeOK /\ th[t] \in Frame /\ Fits(th[t]) /\ th[t].pc = "await"
      /\ th[t].pc \notin Launching
      /\ th[t].kind \in Handshake => lock = {t}
      /\ Steady /\ inbox' = inbox /\ SendsOwn(t)
  BY AnswerFacts DEF ProbeAnswered
<1>2. /\ th[t].kind = "probe" /\ th[t].probe = None /\ lock = {t}
      /\ pending' = {p \in pending : p[1] \notin {th[t].id}}
      /\ responses' = {r \in responses : r.id \notin {th[t].id}}
  BY <1>1 DEF ProbeAnswered, Forget, Fits, Handshake
<1>3. CASE /\ ans = "modern" /\ era' = "modern"
           /\ Ready(t) /\ lock' = {} /\ UNCHANGED proc
  BY <1>1, <1>2, <1>3, HandshakeEnds DEF Handshake
<1>4. CASE /\ ans = "unknown" /\ th[t].legacyOk
           /\ Continue(t, "init") /\ UNCHANGED <<era, lock, proc>>
  <2> DEFINE f == [th[t] EXCEPT !.pc = "issue", !.kind = "init", !.id = None,
                                !.g = None]
  <2>1. /\ f \in Frame /\ Fits(f) /\ f.pc = "issue" /\ f.kind = "init"
        /\ f.id = None /\ f.probe = None
    BY <1>1, <1>2, AnswerKinds DEF Frame, Points, Kinds, Fits, Quiet, Launching, None
  <2>2. Move(t, f, {th[t].id})
    BY <1>1, <1>2, <1>4 DEF Continue, Move
  <2> HIDE DEF f
  <2>3. CarriesOn(t, f, {th[t].id}) /\ KeepsOrReleases(t, f)
    BY <1>2, <1>4, <2>1 DEF CarriesOn, KeepsOrReleases, Launching
  <2> QED
    BY <1>1, <1>4, <2>2, <2>3, MoveStep
<1>5. CASE Raise(t) /\ UNCHANGED <<era, lock>>
  BY <1>1, <1>2, <1>5, RaiseStep
<1> QED
  BY <1>3, <1>4, <1>5 DEF ProbeAnswered

\* The answer to initialize sets the era or turns to the late probe.
LEMMA InitAnsweredStep ==
    ASSUME IInv, NEW t \in Threads, NEW ans, At(t, "await"),
           InitAnswered(t, ans),
           UNCHANGED <<gen, closed, budget, nextId, world, counters>>
    PROVE  IInv'
<1>1. /\ TypeOK /\ th[t] \in Frame /\ Fits(th[t]) /\ th[t].pc = "await"
      /\ th[t].pc \notin Launching
      /\ th[t].kind \in Handshake => lock = {t}
      /\ Steady /\ inbox' = inbox /\ SendsOwn(t)
  BY AnswerFacts DEF InitAnswered
<1>2. th[t].kind = "init" /\ lock = {t}
  BY <1>1 DEF InitAnswered, Handshake
<1>3. CASE /\ ans = "ok"
           /\ Forget({th[t].id, th[t].probe})
           /\ era' = "legacy"
           /\ th' = [th EXCEPT ![t] = [Idle EXCEPT !.pc = "notify",
                                  !.api = th[t].api, !.kind = "initialized"]]
           /\ UNCHANGED <<lock, proc>>
  <2> DEFINE f == [Idle EXCEPT !.pc = "notify", !.api = th[t].api,
                               !.kind = "initialized"]
             ids == {th[t].id, th[t].probe}
  <2>1. /\ f \in Frame /\ Fits(f) /\ f.pc = "notify" /\ f.kind = "initialized"
        /\ f.id = None /\ f.probe = None
    BY <1>1, AnswerKinds
       DEF Idle, Frame, Points, Kinds, Fits, Quiet, Launching, None
  <2>2. Move(t, f, ids)
    BY <1>3 DEF Forget, Move
  <2> HIDE DEF f
  <2>3. CarriesOn(t, f, ids) /\ KeepsOrReleases(t, f)
    BY <1>2, <1>3, <2>1 DEF CarriesOn, KeepsOrReleases, Launching
  <2> QED
    BY <1>1, <1>3, <2>2, <2>3, MoveStep
<1>4. CASE /\ ans = "error" /\ th[t].probe # None
           /\ Forget({th[t].id})
           /\ th' = [th EXCEPT ![t].kind = "late", ![t].id = th[t].probe,
                               ![t].probe = None]
           /\ UNCHANGED <<era, lock, proc>>
  <2> DEFINE f == [th[t] EXCEPT !.kind = "late", !.id = th[t].probe,
                                !.probe = None]
  <2>1. /\ f \in Frame /\ Fits(f) /\ f.pc = "await" /\ f.kind = "late"
        /\ f.id = th[t].probe /\ f.probe = None
    BY <1>1, AnswerKinds DEF Frame, Kinds, Fits, Quiet, Launching, None
  <2>2. Move(t, f, {th[t].id})
    BY <1>1, <1>4 DEF Forget, Move
  <2> HIDE DEF f
  <2>3. CarriesOn(t, f, {th[t].id}) /\ KeepsOrReleases(t, f)
    BY <1>2, <1>4, <2>1 DEF CarriesOn, KeepsOrReleases, Launching
  <2> QED
    BY <1>1, <1>4, <2>2, <2>3, MoveStep
<1>5. CASE Forget({th[t].id, th[t].probe}) /\ Raise(t) /\ UNCHANGED <<era, lock>>
  BY <1>1, <1>5, RaiseStep DEF Forget
<1> QED
  BY <1>3, <1>4, <1>5 DEF InitAnswered

\* A late answer to server/discover starts the probe again or ends the handshake.
LEMMA LateAnsweredStep ==
    ASSUME IInv, NEW t \in Threads, NEW ans, At(t, "await"),
           LateAnswered(t, ans),
           UNCHANGED <<gen, closed, budget, nextId, world, counters>>
    PROVE  IInv'
<1>1. /\ TypeOK /\ th[t] \in Frame /\ Fits(th[t]) /\ th[t].pc = "await"
      /\ th[t].pc \notin Launching
      /\ th[t].kind \in Handshake => lock = {t}
      /\ Steady /\ inbox' = inbox /\ SendsOwn(t)
  BY AnswerFacts DEF LateAnswered
<1>2. /\ th[t].kind = "late" /\ th[t].probe = None /\ lock = {t}
      /\ Forget({th[t].id}) /\ UNCHANGED <<era, lock>>
  BY <1>1 DEF LateAnswered, Fits, Handshake
<1>3. CASE IsModernSignal(ans)
  <2> DEFINE f == [th[t] EXCEPT !.pc = "issue", !.kind = "probe", !.id = None,
                                !.g = None, !.legacyOk = FALSE]
  <2>1. /\ f \in Frame /\ Fits(f) /\ f.pc = "issue" /\ f.kind = "probe"
        /\ f.id = None /\ f.probe = None
    BY <1>1, <1>2, AnswerKinds DEF Frame, Points, Kinds, Fits, Quiet, Launching, None
  <2>2. Move(t, f, {th[t].id}) /\ proc' = proc
    BY <1>1, <1>2, <1>3 DEF LateAnswered, Forget, Move
  <2> HIDE DEF f
  <2>3. CarriesOn(t, f, {th[t].id}) /\ KeepsOrReleases(t, f)
    BY <1>2, <2>1 DEF CarriesOn, KeepsOrReleases, Launching
  <2> QED
    BY <1>1, <2>2, <2>3, MoveStep
<1>4. CASE ~IsModernSignal(ans)
  <2>1. Raise(t)
    BY <1>4 DEF LateAnswered
  <2> QED
    BY <1>1, <1>2, <2>1, RaiseStep DEF Forget
<1> QED BY <1>3, <1>4

\* An answered request leaves no registration.
LEMMA RequestAnsweredStep ==
    ASSUME IInv, NEW t \in Threads, At(t, "await"), RequestAnswered(t),
           UNCHANGED <<gen, closed, budget, nextId, world, counters>>
    PROVE  IInv'
<1>1. /\ TypeOK /\ th[t] \in Frame /\ Fits(th[t]) /\ th[t].pc = "await"
      /\ th[t].pc \notin Launching
      /\ th[t].kind \in Handshake => lock = {t}
      /\ Steady /\ inbox' = inbox /\ SendsOwn(t)
  BY AnswerFacts DEF RequestAnswered
<1>2. /\ th[t].probe = None /\ Forget({th[t].id})
      /\ UNCHANGED <<era, lock, proc>>
  BY <1>1 DEF RequestAnswered, Fits
<1>3. CASE th' = [th EXCEPT ![t] = Idle]
  <2>1. Move(t, Idle, {th[t].id}) /\ KeepsOrReleases(t, Idle)
    BY <1>2, <1>3 DEF Move, Forget, KeepsOrReleases
  <2>2. CarriesOn(t, Idle, {th[t].id})
    BY <1>2, IdleFrame DEF CarriesOn, Launching, Handshake
  <2> QED
    BY <1>1, <1>2, <2>1, <2>2, MoveStep
<1>4. CASE th' = [th EXCEPT ![t] = [Idle EXCEPT !.pc = "call", !.api = th[t].api,
                                                !.pages = th[t].pages]]
  <2> DEFINE f == [Idle EXCEPT !.pc = "call", !.api = th[t].api,
                               !.pages = th[t].pages]
  <2>1. /\ f \in Frame /\ Fits(f) /\ f.pc = "call" /\ f.kind = "none"
        /\ f.id = None /\ f.probe = None
    BY <1>1, AnswerKinds
       DEF Idle, Frame, Points, Kinds, Fits, Quiet, Launching, None
  <2>2. Move(t, f, {th[t].id})
    BY <1>2, <1>4 DEF Forget, Move
  <2> HIDE DEF f
  <2>3. CarriesOn(t, f, {th[t].id}) /\ KeepsOrReleases(t, f)
    BY <1>2, <2>1 DEF CarriesOn, KeepsOrReleases, Launching, Handshake
  <2> QED
    BY <1>1, <1>2, <2>2, <2>3, MoveStep
<1> QED
  BY <1>3, <1>4 DEF RequestAnswered

\* Every answer that _await returns is one of the four above.
LEMMA ReceiveStep == ASSUME IInv, NEW t \in Threads, Receive(t) PROVE IInv'
<1>1. /\ At(t, "await")
      /\ UNCHANGED <<gen, closed, budget, nextId, world, counters>>
  BY DEF Receive
<1>2. PICK r \in responses : \/ ProbeAnswered(t, r.ans) \/ InitAnswered(t, r.ans)
                             \/ LateAnswered(t, r.ans) \/ RequestAnswered(t)
  BY DEF Receive
<1> QED
  BY <1>1, <1>2, ProbeAnsweredStep, InitAnsweredStep, LateAnsweredStep,
     RequestAnsweredStep

\* A wait on a lost channel forgets its request.
LEMMA AwaitLostStep == ASSUME IInv, NEW t \in Threads, AwaitLost(t) PROVE IInv'
<1>1. /\ TypeOK /\ th[t].pc \notin Launching /\ Steady /\ inbox' = inbox
  BY AnswerFacts DEF AwaitLost
<1>2. CASE th[t].kind = "late"
  <2>1. PICK none : none = {}
    OBVIOUS
  <2>2. /\ pending' = {p \in pending : p[1] \notin none}
        /\ responses' = {r \in responses : r.id \notin none}
    BY <1>2, <2>1 DEF AwaitLost
  <2>3. Raise(t) /\ UNCHANGED <<lock, inbox>> /\ era' = era
    BY <1>1 DEF AwaitLost
  <2> QED
    BY <1>1, <1>2, <2>2, <2>3, RaiseStep
<1>3. CASE th[t].kind # "late"
  BY <1>1, <1>3, RaiseStep DEF AwaitLost, Forget
<1> QED BY <1>2, <1>3

\* A wait that expires forgets its request, or keeps the probe in the frame.
LEMMA AwaitExpiresStep ==
    ASSUME IInv, NEW t \in Threads, AwaitExpires(t) PROVE IInv'
<1>1. /\ TypeOK /\ th[t] \in Frame /\ Fits(th[t]) /\ th[t].pc = "await"
      /\ th[t].pc \notin Launching
      /\ th[t].kind \in Handshake => lock = {t}
      /\ Steady /\ inbox' = inbox /\ SendsOwn(t)
  BY AnswerFacts DEF AwaitExpires
<1>2. UNCHANGED <<era, lock>>
  BY DEF AwaitExpires
<1>3. CASE /\ th[t].kind = "request"
           /\ Forget({th[t].id})
           /\ th' = [th EXCEPT ![t] = [Idle EXCEPT !.pc = "notify",
                                          !.kind = "cancelled"]]
           /\ UNCHANGED proc
  <2> DEFINE f == [Idle EXCEPT !.pc = "notify", !.kind = "cancelled"]
  <2>1. /\ f \in Frame /\ Fits(f) /\ f.pc = "notify" /\ f.kind = "cancelled"
        /\ f.id = None /\ f.probe = None
    BY AnswerKinds DEF Idle, Frame, Points, Kinds, Apis, Fits, Quiet, Launching, None
  <2>2. Move(t, f, {th[t].id})
    BY <1>3 DEF Forget, Move
  <2>3. th[t].probe = None
    BY <1>1, <1>3 DEF Fits
  <2> HIDE DEF f
  <2>4. CarriesOn(t, f, {th[t].id}) /\ KeepsOrReleases(t, f)
    BY <1>2, <2>1, <2>3 DEF CarriesOn, KeepsOrReleases, Launching, Handshake
  <2> QED
    BY <1>1, <1>3, <2>2, <2>4, MoveStep
<1>4. CASE /\ th[t].kind = "probe" /\ th[t].legacyOk
           /\ th' = [th EXCEPT ![t].pc = "issue", ![t].kind = "init",
                        ![t].probe = th[t].id, ![t].id = None, ![t].g = None]
           /\ UNCHANGED <<pending, responses, proc>>
  <2> DEFINE f == [th[t] EXCEPT !.pc = "issue", !.kind = "init",
                                !.probe = th[t].id, !.id = None, !.g = None]
  <2>1. /\ f \in Frame /\ Fits(f) /\ f.pc = "issue" /\ f.kind = "init"
        /\ f.id = None /\ f.probe = th[t].id
    BY <1>1, AnswerKinds DEF Frame, Points, Kinds, Fits, Quiet, Launching, None
  <2>2. Move(t, f, {})
    BY <1>1, <1>4 DEF Move
  <2>3. th[t].probe = None /\ lock = {t}
    BY <1>1, <1>4 DEF Fits, Handshake
  <2> HIDE DEF f
  <2>4. CarriesOn(t, f, {}) /\ KeepsOrReleases(t, f)
    BY <1>2, <2>1, <2>3 DEF CarriesOn, KeepsOrReleases, Launching
  <2> QED
    BY <1>1, <1>4, <2>2, <2>4, MoveStep
<1>5. CASE Forget({th[t].id, th[t].probe}) /\ Raise(t)
  BY <1>1, <1>2, <1>5, RaiseStep DEF Forget
<1> QED
  BY <1>3, <1>4, <1>5 DEF AwaitExpires
-----------------------------------------------------------------------------
\* A new client satisfies the invariant.
LEMMA InitInv == Init => IInv
<1> SUFFICES ASSUME Init PROVE IInv
  OBVIOUS
<1>1. \A t \in Threads : th[t] = Idle
  BY DEF Init
<1>2. TypeOK
  <2>1. th \in [Threads -> Frame]
    BY IdleFrame DEF Init
  <2>2. /\ gen = 0 /\ restarts = 0 /\ nextId = 1 /\ calls = 0 /\ starts = 0
        /\ proc \in {None, gen} /\ era \in {"none", "modern", "legacy"}
        /\ closed \in BOOLEAN /\ launched \in BOOLEAN /\ userClosed \in BOOLEAN
        /\ broken \in BOOLEAN
    BY Zenon DEF Init
  <2>3. lock \in {{}} \cup {{t} : t \in Threads}
    BY Zenon DEF Init
  <2>4. pending = {} /\ responses = {} /\ inbox = {} /\ alive = {} /\ reading = {}
    BY DEF Init
  <2> QED
    BY <2>1, <2>2, <2>3, <2>4 DEF TypeOK
<1>3. LockOK /\ FrameOK
  BY <1>1, IdleFrame
     DEF Init, LockOK, FrameOK, HoldsLock, Launching, Handshake, None
<1>4. OwnOK /\ AliveOK /\ ClosedOK /\ EraOK /\ HealthOK /\ PendingOK
  BY <1>1, IdleFrame
     DEF Init, OwnOK, AliveOK, ClosedOK, EraOK, HealthOK, PendingOK
<1> QED
  BY <1>2, <1>3, <1>4 DEF IInv

\* Every step of a thread, a reader or a server preserves the invariant.
LEMMA NextInv == IInv /\ [Next]_vars => IInv'
<1> SUFFICES ASSUME IInv, [Next]_vars PROVE IInv'
  OBVIOUS
<1>1. CASE \E t \in Threads, api \in Apis : Begin(t, api)
  BY <1>1, BeginStep
<1>2. ASSUME NEW t \in Threads, ThreadStep(t) PROVE IInv'
  <2>1. CASE Refused(t) \/ OutOfRestarts(t) \/ NoTools(t)
    BY <2>1, ReturnStep DEF Refused, OutOfRestarts, NoTools, Ensuring, At
  <2>2. CASE \/ Launch(t) \/ Close(t) \/ Teardown(t) \/ Spawn(t) \/ Popen(t)
             \/ PopenFails(t)
    BY <2>2, LaunchStep, CloseStep, TeardownStep, SpawnStep, PopenStep, PopenFailsStep
  <2>3. CASE \/ AlreadyRunning(t) \/ Payload(t) \/ Issue(t) \/ Notify(t)
             \/ FetchPipe(t) \/ WriteRejected(t)
    BY <2>3, AlreadyRunningStep, PayloadStep, IssueStep, NotifyStep, FetchPipeStep,
       WriteRejectedStep
  <2>4. CASE \/ Send(t) \/ SendFails(t) \/ SendStalled(t)
             \/ Receive(t) \/ AwaitLost(t) \/ AwaitExpires(t)
    BY <2>4, SendStep, SendFailsStep, SendStalledStep, ReceiveStep, AwaitLostStep,
       AwaitExpiresStep
  <2> QED
    BY <1>2, <2>1, <2>2, <2>3, <2>4 DEF ThreadStep
<1>3. CASE \E m \in inbox : \E ans \in AnswersTo[m.kind] : HandleLine(m, ans)
  BY <1>3, HandleLineStep
<1>4. CASE \E g \in reading : ReaderEnds(g)
  BY <1>4, ReaderEndsStep
<1>5. CASE \E g \in alive : ServerDies(g)
  BY <1>5, ServerDiesStep
<1>6. CASE UNCHANGED vars
  BY <1>6
     DEF vars, shared, budget, world, counters, IInv, TypeOK, LockOK, HoldsLock,
         FrameOK, OwnOK, AliveOK, ClosedOK, EraOK, HealthOK, PendingOK
<1> QED
  BY <1>1, <1>2, <1>3, <1>4, <1>5, <1>6 DEF Next

\* IInv holds in every state of the client.
THEOREM Inductive == Spec => []IInv
  BY InitInv, NextInv, PTL DEF Spec

\* No stored answer comes from another process than the one its request was
\* registered for, for any number of threads and restarts.
THEOREM AnswersOwn == Spec => []AnswersFromOwnProcess
<1>1. IInv => AnswersFromOwnProcess
  BY DEF IInv, OwnOK, AnswersFromOwnProcess
<1> QED BY <1>1, Inductive, PTL

\* No process receives a request that was registered for another one.
THEOREM RequestsOwn == Spec => []RequestsReachOwnProcess
<1>1. IInv => RequestsReachOwnProcess
  BY DEF IInv, OwnOK, RequestsReachOwnProcess
<1> QED BY <1>1, Inductive, PTL

\* Whenever the lifecycle lock is free, only the client's process can run,
\* and after close none.
THEOREM NothingLeaks == Spec => []NoLeakedProcess
<1>1. IInv => NoLeakedProcess
  <2> SUFFICES ASSUME IInv, lock = {}
               PROVE  alive \subseteq {proc} /\ (userClosed => proc = None)
    BY DEF NoLeakedProcess
  <2>1. \A t \in Threads : th[t].pc # "teardown"
    BY DEF IInv, LockOK, HoldsLock, Launching
  <2> QED BY <2>1 DEF IInv, AliveOK, ClosedOK
<1> QED BY <1>1, Inductive, PTL

\* Whenever the lifecycle lock is free, the client's process has an era.
THEOREM Negotiated == Spec => []ReadyMeansNegotiated
<1>1. IInv => ReadyMeansNegotiated
  BY DEF IInv, EraOK, ReadyMeansNegotiated
<1> QED BY <1>1, Inductive, PTL

\* The channel of the client's process is marked closed only after a failure
\* of that process.
THEOREM HealthyUsable == Spec => []HealthyStaysUsable
<1>1. IInv => HealthyStaysUsable
  BY DEF IInv, HealthOK, HealthyStaysUsable
<1> QED BY <1>1, Inductive, PTL

\* Whenever the lifecycle lock is free and the client has a process, every
\* registered request has a thread.
THEOREM NothingStray == Spec => []NoStrayPending
<1>1. IInv => NoStrayPending
  <2> SUFFICES ASSUME IInv, lock = {}, proc # None, NEW p \in pending
               PROVE  \E t \in Threads : th[t].id = p[1]
    BY DEF NoStrayPending
  <2>1. PICK t \in Threads : p[1] = th[t].id \/ p[1] = th[t].probe
    BY DEF IInv, PendingOK
  <2>2. th[t].probe = None
    BY DEF IInv, FrameOK, Fits, LockOK, HoldsLock, Handshake
  <2>3. p[1] # None
    BY DEF IInv, TypeOK, None
  <2> QED BY <2>1, <2>2, <2>3
<1> QED BY <1>1, Inductive, PTL

-----------------------------------------------------------------------------
(* The restart budget.  Every launch is paid for once: by a call of start(), *)
(* by a counted restart, or by being the first; calls of start() that have   *)
(* not had the lock yet, and a launch on its way to its process, are owed    *)
(* one.                                                                      *)

Owed == {t \in Threads : th[t].pc = "acquire" /\ th[t].api = "start"}
Bound(t) == th[t].pc = "spawn" \/ (th[t].pc = "teardown" /\ th[t].api \in Apis \ {"close"})
OnItsWay == IF \E t \in Threads : Bound(t) THEN 1 ELSE 0
First == IF launched THEN 1 ELSE 0

BudgetOK ==
    /\ restarts <= MaxRestarts
    /\ gen + OnItsWay + Cardinality(Owed) <= restarts + starts + First

\* A frame that owes nothing.
Harmless(f) ==
    /\ f.pc \notin {"acquire", "spawn"}
    /\ f.pc = "teardown" => f.api \in {"close", "none"}

Accounts == <<gen, restarts, starts, launched>>

LEMMA OwedFinite == IsFiniteSet(Owed) /\ Cardinality(Owed) \in Nat
  BY FS_Subset, FS_CardinalityType, McpAssumption DEF Owed

\* Only the thread with the lock is on its way to a process.
LEMMA BoundAlone ==
  ASSUME IInv, NEW t \in Threads, NEW u \in Threads, Bound(t), Bound(u) PROVE t = u
  BY DEF IInv, LockOK, HoldsLock, Launching, Bound

\* A step into a harmless frame leaves the accounts in order.
LEMMA HarmlessStep ==
  ASSUME IInv, BudgetOK, NEW t \in Threads, NEW f, Harmless(f),
         th' = [th EXCEPT ![t] = f], UNCHANGED Accounts
  PROVE  BudgetOK'
<1>1. th'[t] = f /\ \A u \in Threads \ {t} : th'[u] = th[u]
  BY DEF IInv, TypeOK
<1>2. Owed' \subseteq Owed
  BY <1>1 DEF Owed, Harmless
<1>3. Cardinality(Owed') \in Nat /\ Cardinality(Owed') <= Cardinality(Owed)
  BY <1>2, OwedFinite, FS_Subset, FS_CardinalityType
<1>4. \A u \in Threads : Bound(u)' => Bound(u)
  BY <1>1 DEF Bound, Harmless, Apis
<1>5. OnItsWay' \in {0, 1} /\ OnItsWay \in {0, 1} /\ OnItsWay' <= OnItsWay
  BY <1>4 DEF OnItsWay
<1>6. First' = First /\ First \in {0, 1}
  BY DEF First, Accounts
<1> QED
  BY <1>3, <1>5, <1>6, OwedFinite DEF BudgetOK, Accounts, IInv, TypeOK

\* Where raising and returning leave a thread.
LEMMA EndsHarmless ==
  ASSUME IInv, NEW t \in Threads, Raise(t) \/ Ready(t) \/ th' = [th EXCEPT ![t] = Idle]
  PROVE  \E f : Harmless(f) /\ th' = [th EXCEPT ![t] = f]
<1> DEFINE back == [Idle EXCEPT !.pc = "teardown", !.s = proc]
           call == [Idle EXCEPT !.pc = "call", !.api = th[t].api]
<1>1. Harmless(Idle) /\ Harmless(back) /\ Harmless(call)
  BY DEF Harmless, Idle
<1>2. CASE Raise(t)
  <2>1. th' = [th EXCEPT ![t] = back] \/ th' = [th EXCEPT ![t] = Idle]
    BY <1>2, Zenon DEF Raise, Detach
  <2> QED BY <1>1, <2>1, Zenon
<1>3. CASE Ready(t)
  <2>1. th' = [th EXCEPT ![t] = IF th[t].api = "start" THEN Idle ELSE call]
    BY <1>3 DEF Ready
  <2> QED BY <1>1, <2>1
<1> QED BY <1>1, <1>2, <1>3, Zenon

LEMMA NotWrittenHarmless ==
  ASSUME IInv, NEW t \in Threads, NotWritten(t)
  PROVE  \E f : Harmless(f) /\ th' = [th EXCEPT ![t] = f]
<1>1. Raise(t) \/ Ready(t) \/ th' = [th EXCEPT ![t] = Idle]
  <2>1. CASE th[t].kind = "initialized" BY <2>1 DEF NotWritten
  <2>2. CASE th[t].kind = "cancelled" BY <2>2 DEF NotWritten
  <2>3. CASE th[t].kind \notin {"initialized", "cancelled"} BY <2>3 DEF NotWritten
  <2> QED BY <2>1, <2>2, <2>3
<1> QED BY <1>1, EndsHarmless

\* The steps of a thread that neither ask for a process nor start one.
LEMMA QuietThreadStep ==
  ASSUME IInv, NEW t \in Threads,
         \/ Refused(t) \/ AlreadyRunning(t) \/ OutOfRestarts(t) \/ Close(t) \/ Popen(t)
         \/ PopenFails(t) \/ NoTools(t) \/ Payload(t) \/ Issue(t) \/ Notify(t)
         \/ FetchPipe(t) \/ WriteRejected(t) \/ Send(t) \/ SendFails(t) \/ SendStalled(t)
         \/ Receive(t) \/ AwaitLost(t) \/ AwaitExpires(t)
  PROVE  (\E f : Harmless(f) /\ th' = [th EXCEPT ![t] = f]) /\ UNCHANGED Accounts
<1> USE DEF Accounts, budget, counters, shared
<1> DEFINE Ends == Raise(t) \/ Ready(t) \/ th' = [th EXCEPT ![t] = Idle]
           Goal == \E f : Harmless(f) /\ th' = [th EXCEPT ![t] = f]
<1>e. Ends => Goal
  BY EndsHarmless
<1>t. th[t] \in Frame
  BY DEF IInv, TypeOK
<1>1. CASE Refused(t) \/ AlreadyRunning(t) \/ OutOfRestarts(t) \/ PopenFails(t) \/ NoTools(t)
  <2>1. Ends
    BY <1>1 DEF Refused, AlreadyRunning, OutOfRestarts, PopenFails, NoTools
  <2> QED BY <1>1, <1>e, <2>1 DEF Refused, AlreadyRunning, OutOfRestarts, PopenFails, NoTools
<1>2. CASE Close(t)
  <2> DEFINE f == [th[t] EXCEPT !.pc = "teardown", !.s = proc]
  <2>1. th' = [th EXCEPT ![t] = f] /\ UNCHANGED Accounts
    BY <1>2 DEF Close, Detach
  <2>2. Harmless(f)
    BY <1>2, <1>t DEF Close, At, Harmless, Frame
  <2> QED BY <2>1, <2>2
<1>3. CASE Popen(t) \/ Payload(t) \/ Issue(t) \/ Notify(t) \/ FetchPipe(t)
  <2> DEFINE popen == [th[t] EXCEPT !.pc = "issue", !.kind = "probe", !.legacyOk = TRUE]
             payload == [th[t] EXCEPT !.pc = "issue", !.kind = "request",
                                      !.meta = (era = "modern"), !.pages = @ + 1]
             issue == [th[t] EXCEPT !.pc = "write", !.id = nextId, !.g = gen]
             notify == [th[t] EXCEPT !.pc = "write", !.g = gen]
             fetch == [th[t] EXCEPT !.pc = "send", !.s = proc]
  <2>1. Harmless(popen) /\ Harmless(payload) /\ Harmless(issue) /\ Harmless(notify) /\ Harmless(fetch)
    BY <1>t DEF Harmless, Frame
  <2>2. \/ th' = [th EXCEPT ![t] = popen] \/ th' = [th EXCEPT ![t] = payload]
        \/ th' = [th EXCEPT ![t] = issue] \/ th' = [th EXCEPT ![t] = notify]
        \/ th' = [th EXCEPT ![t] = fetch]
    BY <1>3 DEF Popen, Payload, Issue, Notify, FetchPipe
  <2>3. UNCHANGED Accounts
    BY <1>3 DEF Popen, Payload, Issue, Notify, FetchPipe
  <2> QED BY <2>1, <2>2, <2>3, Zenon
<1>4. CASE WriteRejected(t) \/ SendFails(t) \/ SendStalled(t)
  BY <1>4, NotWrittenHarmless DEF WriteRejected, SendFails, SendStalled
<1>5. CASE Send(t)
  <2> DEFINE f == [th[t] EXCEPT !.pc = "await", !.s = None]
  <2>1. Harmless(f)
    BY <1>t DEF Harmless, Frame
  <2>2. Ends \/ th' = [th EXCEPT ![t] = f]
    BY <1>5 DEF Send
  <2>3. UNCHANGED Accounts
    BY <1>5 DEF Send
  <2> QED BY <1>e, <2>1, <2>2, <2>3
<1>6. CASE Receive(t)
  <2> DEFINE goOn(kind) == [th[t] EXCEPT !.pc = "issue", !.kind = kind, !.id = None, !.g = None]
             notify == [Idle EXCEPT !.pc = "notify", !.api = th[t].api, !.kind = "initialized"]
             late == [th[t] EXCEPT !.kind = "late", !.id = th[t].probe, !.probe = None]
             again == [th[t] EXCEPT !.pc = "issue", !.kind = "probe", !.id = None, !.g = None,
                                    !.legacyOk = FALSE]
             page == [Idle EXCEPT !.pc = "call", !.api = th[t].api, !.pages = th[t].pages]
  <2>1. th[t].pc = "await" /\ UNCHANGED Accounts
    BY <1>6 DEF Receive, At
  <2>2. Harmless(goOn("init")) /\ Harmless(notify) /\ Harmless(late) /\ Harmless(again) /\ Harmless(page)
    BY <1>t, <2>1 DEF Harmless, Frame, Idle
  <2>3. PICK r \in responses : \/ ProbeAnswered(t, r.ans) \/ InitAnswered(t, r.ans)
                               \/ LateAnswered(t, r.ans) \/ RequestAnswered(t)
    BY <1>6 DEF Receive
  <2>4. CASE ProbeAnswered(t, r.ans)
    <3>1. Ends \/ th' = [th EXCEPT ![t] = goOn("init")]
      BY <2>4 DEF ProbeAnswered, Continue
    <3> QED BY <1>e, <2>1, <2>2, <3>1
  <2>5. CASE InitAnswered(t, r.ans)
    <3>1. Ends \/ th' = [th EXCEPT ![t] = notify] \/ th' = [th EXCEPT ![t] = late]
      BY <2>5 DEF InitAnswered
    <3> QED BY <1>e, <2>1, <2>2, <3>1
  <2>6. CASE LateAnswered(t, r.ans)
    <3>1. Ends \/ th' = [th EXCEPT ![t] = again]
      BY <2>6 DEF LateAnswered
    <3> QED BY <1>e, <2>1, <2>2, <3>1
  <2>7. CASE RequestAnswered(t)
    <3>1. Ends \/ th' = [th EXCEPT ![t] = page]
      BY <2>7 DEF RequestAnswered
    <3> QED BY <1>e, <2>1, <2>2, <3>1
  <2> QED BY <2>3, <2>4, <2>5, <2>6, <2>7
<1>7. CASE AwaitLost(t)
  BY <1>7, <1>e DEF AwaitLost
<1>8. CASE AwaitExpires(t)
  <2> DEFINE cancel == [Idle EXCEPT !.pc = "notify", !.kind = "cancelled"]
             fall == [th[t] EXCEPT !.pc = "issue", !.kind = "init", !.probe = th[t].id, !.id = None,
                                   !.g = None]
  <2>1. Harmless(cancel) /\ Harmless(fall)
    BY <1>t DEF Harmless, Frame, Idle
  <2>2. Ends \/ th' = [th EXCEPT ![t] = cancel] \/ th' = [th EXCEPT ![t] = fall]
    BY <1>8 DEF AwaitExpires
  <2>3. UNCHANGED Accounts
    BY <1>8 DEF AwaitExpires
  <2> QED BY <1>e, <2>1, <2>2, <2>3
<1> QED
  BY <1>1, <1>2, <1>3, <1>4, <1>5, <1>6, <1>7, <1>8

\* A caller that asks for start() is counted with its call.
LEMMA BeginBudget ==
  ASSUME IInv, BudgetOK, NEW t \in Threads, NEW api \in Apis, Begin(t, api) PROVE BudgetOK'
<1> DEFINE f == [Idle EXCEPT !.pc = "acquire", !.api = api]
<1>1. th'[t] = f /\ \A u \in Threads \ {t} : th'[u] = th[u]
  BY DEF Begin, IInv, TypeOK
<1>2. th[t].pc = "idle" /\ f.pc = "acquire" /\ f.api = api
  BY DEF Begin, At, Idle
<1>3. \A u \in Threads : Bound(u)' <=> Bound(u)
  BY <1>1, <1>2 DEF Bound
<1>4. OnItsWay' = OnItsWay /\ OnItsWay \in {0, 1} /\ First' = First /\ First \in {0, 1}
  BY <1>3 DEF OnItsWay, First, Begin, budget
<1>5. CASE api = "start"
  <2> HIDE DEF f
  <2>0. /\ th'[t].pc = "acquire" /\ th'[t].api = "start" /\ th[t].pc # "acquire"
        /\ \A u \in Threads \ {t} : th'[u] = th[u]
    BY <1>1, <1>2, <1>5
  <2>1. Owed' = Owed \cup {t} /\ t \notin Owed
    <3>1. \A u \in Threads : u \in Owed' <=> u \in Owed \cup {t}
      BY <2>0 DEF Owed
    <3>2. Owed' \subseteq Threads /\ Owed \cup {t} \subseteq Threads /\ t \notin Owed
      BY <2>0 DEF Owed
    <3> QED BY <3>1, <3>2, Zenon
  <2>2. Cardinality(Owed') = Cardinality(Owed) + 1
    BY <2>1, OwedFinite, FS_AddElement
  <2> QED
    BY <1>4, <1>5, <2>2, OwedFinite DEF BudgetOK, Begin, shared, budget, IInv, TypeOK
<1>6. CASE api # "start"
  <2>1. Owed' = Owed
    BY <1>1, <1>2, <1>6 DEF Owed
  <2> QED
    BY <1>4, <1>6, <2>1, OwedFinite DEF BudgetOK, Begin, shared, budget, IInv, TypeOK
<1> QED BY <1>5, <1>6

\* A launch pays with its call of start(), a restart, or by being the first.
LEMMA LaunchBudget ==
  ASSUME IInv, BudgetOK, NEW t \in Threads, Launch(t) PROVE BudgetOK'
<1> DEFINE f == [th[t] EXCEPT !.pc = "teardown", !.s = proc]
<1>1. th'[t] = f /\ \A u \in Threads \ {t} : th'[u] = th[u]
  BY DEF Launch, Detach, IInv, TypeOK
<1>2. th[t].pc = "acquire" /\ lock = {} /\ f.pc = "teardown" /\ f.api = th[t].api
  BY DEF Launch, Ensuring, At, IInv, TypeOK, Frame
<1>3. OnItsWay = 0 /\ OnItsWay' \in {0, 1}
  BY <1>2 DEF OnItsWay, Bound, IInv, LockOK, HoldsLock, Launching
<1>4. /\ gen' = gen /\ starts' = starts /\ First' = 1 /\ First \in {0, 1}
      /\ restarts' = IF SpendsRestart(t) THEN restarts + 1 ELSE restarts
      /\ SpendsRestart(t) => restarts < MaxRestarts
  BY DEF Launch, First, counters
<1>5. /\ gen \in Nat /\ starts \in Nat /\ restarts \in Nat /\ MaxRestarts \in Nat
      /\ Cardinality(Owed) \in Nat
  BY OwedFinite, McpAssumption DEF IInv, TypeOK
<1>6. CASE th[t].api = "start"
  <2> HIDE DEF f
  <2>0. /\ th[t].pc = "acquire" /\ th[t].api = "start" /\ th'[t].pc # "acquire"
        /\ \A u \in Threads \ {t} : th'[u] = th[u]
    BY <1>1, <1>2, <1>6
  <2>1. Owed' = Owed \ {t} /\ t \in Owed
    <3>1. \A u \in Threads : u \in Owed' <=> u \in Owed \ {t}
      BY <2>0 DEF Owed
    <3>2. Owed' \subseteq Threads /\ Owed \ {t} \subseteq Threads /\ t \in Owed
      BY <2>0 DEF Owed
    <3> QED BY <3>1, <3>2, Zenon
  <2>2. Cardinality(Owed') = Cardinality(Owed) - 1
    BY <2>1, OwedFinite, FS_RemoveElement
  <2>3. ~SpendsRestart(t)
    BY <1>6 DEF SpendsRestart
  <2> QED BY <1>3, <1>4, <1>5, <2>2, <2>3 DEF BudgetOK
<1>7. CASE th[t].api # "start"
  <2>1. Owed' = Owed
    BY <1>1, <1>2, <1>7 DEF Owed
  <2>2. SpendsRestart(t) <=> First = 1
    BY <1>7 DEF SpendsRestart, First
  <2> QED BY <1>3, <1>4, <1>5, <2>1, <2>2 DEF BudgetOK
<1> QED BY <1>6, <1>7

\* From the teardown a launch goes on to its process, and has it with _spawn.
LEMMA OnwardBudget ==
  ASSUME IInv, BudgetOK, NEW t \in Threads, Teardown(t) \/ Spawn(t) PROVE BudgetOK'
<1>1. \A u \in Threads \ {t} : th'[u] = th[u]
  BY DEF Teardown, Spawn, IInv, TypeOK
<1>2. restarts' = restarts /\ starts' = starts /\ First' = First /\ First \in {0, 1}
  BY DEF Teardown, Spawn, budget, counters, First
<1>3. th'[t].pc \in {"spawn", "idle", "popen"} /\ th[t].pc \in {"teardown", "spawn"}
  BY DEF Teardown, Spawn, At, Idle, IInv, TypeOK, Frame
<1>4. Owed' = Owed
  BY <1>1, <1>3 DEF Owed
<1>5. gen \in Nat /\ starts \in Nat /\ restarts \in Nat /\ Cardinality(Owed) \in Nat
  BY OwedFinite DEF IInv, TypeOK
<1>6. OnItsWay \in {0, 1} /\ OnItsWay' \in {0, 1}
  BY DEF OnItsWay
<1>7. CASE Teardown(t)
  <2>1. \A u \in Threads : Bound(u)' => Bound(u)
    BY <1>1, <1>3, <1>7 DEF Bound, Teardown, At, Idle, IInv, TypeOK, Frame
  <2>2. OnItsWay' <= OnItsWay /\ gen' = gen
    BY <1>7, <2>1 DEF OnItsWay, Teardown
  <2> QED BY <1>2, <1>4, <1>5, <1>6, <2>2 DEF BudgetOK
<1>8. CASE Spawn(t)
  <2>1. th[t].pc = "spawn" /\ th'[t].pc = "popen" /\ gen' = gen + 1
    BY <1>8 DEF Spawn, At, IInv, TypeOK, Frame
  <2>2. \A u \in Threads : ~Bound(u)'
    BY <1>1, <2>1, BoundAlone DEF Bound
  <2>3. OnItsWay = 1 /\ OnItsWay' = 0
    BY <2>1, <2>2 DEF OnItsWay, Bound
  <2> QED BY <1>2, <1>4, <1>5, <2>1, <2>3 DEF BudgetOK
<1> QED BY <1>7, <1>8

LEMMA BudgetStep == IInv /\ BudgetOK /\ [Next]_vars => BudgetOK'
<1> SUFFICES ASSUME IInv, BudgetOK, [Next]_vars PROVE BudgetOK'
  OBVIOUS
<1>1. CASE \E t \in Threads, api \in Apis : Begin(t, api)
  BY <1>1, BeginBudget
<1>2. ASSUME NEW t \in Threads, ThreadStep(t) PROVE BudgetOK'
  <2>1. CASE Launch(t) \/ Teardown(t) \/ Spawn(t)
    BY <2>1, LaunchBudget, OnwardBudget
  <2>2. CASE ~(Launch(t) \/ Teardown(t) \/ Spawn(t))
    BY <1>2, <2>2, QuietThreadStep, HarmlessStep DEF ThreadStep
  <2> QED BY <2>1, <2>2
<1>3. ASSUME \/ \E m \in inbox : \E ans \in AnswersTo[m.kind] : HandleLine(m, ans)
             \/ \E g \in reading : ReaderEnds(g)
             \/ \E g \in alive : ServerDies(g)
             \/ UNCHANGED vars
      PROVE BudgetOK'
  <2>1. UNCHANGED <<th, Accounts>>
    BY <1>3 DEF HandleLine, ReaderEnds, ServerDies, vars, shared, budget, counters, Accounts
  <2>2. UNCHANGED <<Owed, OnItsWay, First>>
    BY <2>1 DEF Owed, OnItsWay, Bound, First, Accounts
  <2> QED BY <2>1, <2>2 DEF BudgetOK, Accounts
<1> QED BY <1>1, <1>2, <1>3 DEF Next

\* Beyond the first, a process is started only for a call of start() or a
\* counted restart, of which there are at most max_restarts, for any number
\* of threads.
THEOREM LaunchesPaid == Spec => []LaunchesBounded
<1>1. Init => BudgetOK
  <2> SUFFICES ASSUME Init PROVE BudgetOK
    OBVIOUS
  <2>1. Owed = {} /\ \A t \in Threads : ~Bound(t)
    BY DEF Init, Owed, Bound, Idle
  <2>2. Cardinality(Owed) = 0 /\ OnItsWay = 0 /\ First = 0
    BY <2>1, FS_EmptySet DEF OnItsWay, First, Init
  <2> QED BY <2>2, McpAssumption DEF BudgetOK, Init
<1>2. IInv /\ BudgetOK => LaunchesBounded
  <2> SUFFICES ASSUME IInv, BudgetOK PROVE LaunchesBounded
    OBVIOUS
  <2>1. OnItsWay \in {0, 1} /\ First \in {0, 1}
    BY DEF OnItsWay, First
  <2> QED BY <2>1, OwedFinite DEF BudgetOK, LaunchesBounded, IInv, TypeOK
<1> QED BY <1>1, <1>2, BudgetStep, Inductive, PTL DEF Spec
=============================================================================
