------------------------------ MODULE McpClient ------------------------------
(***************************************************************************)
(* mcp/client.py: one StdioMcpClient shared by several threads.            *)
(*                                                                         *)
(* The client owns at most one server process.  Every process it spawns    *)
(* gets a generation number, and everything that outlives a process (a     *)
(* request waiting for its answer, a write that has already fetched the    *)
(* pipe, the thread that reads stdout) is told apart by that number.       *)
(* Launching, the handshake that detects the protocol era, and closing     *)
(* hold _lifecycle_lock; requests hold nothing while they build their      *)
(* payload, register, write and wait.                                      *)
(*                                                                         *)
(* A step is what one thread does between two points where another thread  *)
(* can see or change what it uses: the lock, the condition _cond, the      *)
(* fetch of the pipe, the write itself.  Deadlines are not clocks here: a  *)
(* wait may expire whenever its answer has not arrived.  The versions are  *)
(* the ones shipped: one modern version, so -32022 leaves nothing to retry *)
(* with, and at least one legacy version.                                  *)
(***************************************************************************)
EXTENDS Naturals, FiniteSets

CONSTANTS
    Threads,      \* the callers that share the client
    MaxRestarts,  \* max_restarts
    MaxCalls,     \* bound: calls of call_tool, list_tools and close
    MaxStarts,    \* bound: calls of start
    MaxPages      \* _MAX_LIST_PAGES

ASSUME McpAssumption ==
    /\ IsFiniteSet(Threads)
    /\ MaxRestarts \in Nat /\ MaxCalls \in Nat /\ MaxStarts \in Nat
    /\ MaxPages \in Nat \ {0}

VARIABLES
    gen,         \* _generation
    proc,        \* _process: its generation, or None
    closed,      \* _closed_reason is not None
    pending,     \* _pending: pairs <<request id, generation>>
    responses,   \* _responses, with the process that wrote each answer
    era,         \* era
    launched,    \* _launched
    userClosed,  \* _user_closed
    restarts,    \* _restarts
    nextId,      \* _ids
    lock,        \* the thread that holds _lifecycle_lock, as a set
    th,          \* what each thread is doing
    alive,       \* the processes that run
    reading,     \* the processes whose _read_stdout thread runs
    inbox,       \* the requests sent to each process and not answered
    broken,      \* the channel of the current generation really failed
    calls, starts

shared == <<gen, proc, closed, pending, responses, era>>
budget == <<launched, userClosed, restarts>>
world == <<alive, reading, inbox, broken>>
counters == <<calls, starts>>
vars == <<shared, budget, nextId, lock, th, world, counters>>

None == 0

Apis == {"start", "call_tool", "list_tools", "close"}

\* What a process may answer to each kind of request.  For server/discover:
\* a DiscoverResult with a shared version, another sign of a modern server
\* (-32022, or a result with no shared version), a recognised modern error
\* (-32020, -32021), anything else.
AnswersTo ==
    [probe   |-> {"modern", "version", "refused", "unknown"},
     init    |-> {"ok", "bad", "error"},
     request |-> {"done"}]

IsModernSignal(ans) == ans \in {"modern", "version"}

Idle == [pc |-> "idle", api |-> "none", kind |-> "none", id |-> None,
         g |-> None, s |-> None, meta |-> FALSE, probe |-> None,
         legacyOk |-> FALSE, pages |-> 0]

Init ==
    /\ gen = 0 /\ proc = None /\ closed = FALSE
    /\ pending = {} /\ responses = {} /\ era = "none"
    /\ launched = FALSE /\ userClosed = FALSE /\ restarts = 0
    /\ nextId = 1 /\ lock = {} /\ th = [t \in Threads |-> Idle]
    /\ alive = {} /\ reading = {} /\ inbox = {} /\ broken = FALSE
    /\ calls = 0 /\ starts = 0

IsRunning == proc # None /\ proc \in alive /\ ~closed

At(t, pc) == th[t].pc = pc

\* A caller enters the client and asks for _lifecycle_lock.
Begin(t, api) ==
    /\ At(t, "idle")
    /\ IF api = "start" THEN /\ starts < MaxStarts
                             /\ starts' = starts + 1
                             /\ UNCHANGED calls
                        ELSE /\ calls < MaxCalls
                             /\ calls' = calls + 1
                             /\ UNCHANGED starts
    /\ th' = [th EXCEPT ![t] = [Idle EXCEPT !.pc = "acquire", !.api = api]]
    /\ UNCHANGED <<shared, budget, nextId, lock, world>>

\* With the lock: start and _ensure_running, and close.
Ensuring(t) == At(t, "acquire") /\ lock = {} /\ th[t].api # "close"

Refused(t) ==
    /\ Ensuring(t)
    /\ userClosed
    /\ th' = [th EXCEPT ![t] = Idle]
    /\ UNCHANGED <<shared, budget, nextId, lock, world, counters>>

\* What follows a successful start or _ensure_running.
Ready(t) ==
    th' = [th EXCEPT ![t] =
              IF @.api = "start" THEN Idle
              ELSE [Idle EXCEPT !.pc = "call", !.api = th[t].api]]

AlreadyRunning(t) ==
    /\ Ensuring(t)
    /\ ~userClosed /\ IsRunning
    /\ Ready(t)
    /\ UNCHANGED <<shared, budget, nextId, lock, world, counters>>

\* start() never looks at the restart budget.
SpendsRestart_Never(t) == FALSE   \* mutant: restarts are not counted
SpendsRestart(t) == launched /\ th[t].api # "start"

OutOfRestarts(t) ==
    /\ Ensuring(t)
    /\ ~userClosed /\ ~IsRunning
    /\ SpendsRestart(t) /\ restarts >= MaxRestarts
    /\ th' = [th EXCEPT ![t] = Idle]
    /\ UNCHANGED <<shared, budget, nextId, lock, world, counters>>

\* _teardown takes the process out of the client before it stops it.
Detach_Forgets(t, next) ==   \* mutant: only the reference is dropped
    /\ proc' = None
    /\ th' = [th EXCEPT ![t] = [next EXCEPT !.pc = "teardown"]]
Detach(t, next) ==
    /\ proc' = None
    /\ th' = [th EXCEPT ![t] = [next EXCEPT !.pc = "teardown", !.s = proc]]

Launch(t) ==
    /\ Ensuring(t)
    /\ ~userClosed /\ ~IsRunning
    /\ SpendsRestart(t) => restarts < MaxRestarts
    /\ restarts' = IF SpendsRestart(t) THEN restarts + 1 ELSE restarts
    /\ launched' = TRUE
    /\ lock' = {t}
    /\ Detach(t, th[t])
    /\ UNCHANGED <<gen, closed, pending, responses, era, userClosed, nextId,
                   world, counters>>

Close(t) ==
    /\ At(t, "acquire") /\ lock = {} /\ th[t].api = "close"
    /\ userClosed' = TRUE
    /\ lock' = {t}
    /\ Detach(t, th[t])
    /\ UNCHANGED <<gen, closed, pending, responses, era, launched, restarts,
                   nextId, world, counters>>

\* The rest of _teardown: close stdin, stop the process group, give the
\* readers a second to finish (they may need longer), mark the channel
\* closed.  A launch goes on to _spawn; close and a failed handshake return.
Teardown(t) ==
    /\ At(t, "teardown")
    /\ alive' = alive \ {th[t].s}
    /\ closed' = (closed \/ th[t].s # None)
    /\ IF th[t].api \in Apis \ {"close"}
       THEN /\ th' = [th EXCEPT ![t].pc = "spawn", ![t].s = None]
            /\ UNCHANGED lock
       ELSE /\ th' = [th EXCEPT ![t] = Idle]
            /\ lock' = {}
    /\ UNCHANGED <<gen, proc, pending, responses, era, budget, nextId, reading,
                   inbox, broken, counters>>

\* _spawn up to Popen: forget the replaced process and what waits for it.
Spawn_RestartsIds(t) ==   \* mutant: _ids starts again with every process
    /\ At(t, "spawn")
    /\ pending' = {} /\ responses' = {}
    /\ closed' = FALSE /\ gen' = gen + 1 /\ era' = "none"
    /\ th' = [th EXCEPT ![t].pc = "popen"]
    /\ broken' = FALSE
    /\ nextId' = 1
    /\ UNCHANGED <<proc, budget, lock, alive, reading, inbox, counters>>
Spawn(t) ==
    /\ At(t, "spawn")
    /\ pending' = {} /\ responses' = {}
    /\ closed' = FALSE
    /\ gen' = gen + 1
    /\ era' = "none"
    /\ th' = [th EXCEPT ![t].pc = "popen"]
    /\ broken' = FALSE
    /\ UNCHANGED <<proc, budget, nextId, lock, alive, reading, inbox, counters>>

\* Popen and the reader thread; _negotiate starts with the probe.
Popen(t) ==
    /\ At(t, "popen")
    /\ proc' = gen
    /\ alive' = alive \cup {gen}
    /\ reading' = reading \cup {gen}
    /\ th' = [th EXCEPT ![t].pc = "issue", ![t].kind = "probe",
                        ![t].legacyOk = TRUE]
    /\ UNCHANGED <<gen, closed, pending, responses, era, budget, nextId, lock,
                   inbox, broken, counters>>

\* OSError from Popen: there is nothing to tear down.
PopenFails(t) ==
    /\ At(t, "popen")
    /\ th' = [th EXCEPT ![t] = Idle]
    /\ lock' = {}
    /\ UNCHANGED <<shared, budget, nextId, world, counters>>

\* list_tools returns no tools when the server announced none.
NoTools(t) ==
    /\ At(t, "call") /\ th[t].api = "list_tools" /\ th[t].pages = 0
    /\ th' = [th EXCEPT ![t] = Idle]
    /\ UNCHANGED <<shared, budget, nextId, lock, world, counters>>

\* _call builds the payload in the era it sees now, without a lock.
Payload(t) ==
    /\ At(t, "call")
    /\ th' = [th EXCEPT ![t].pc = "issue", ![t].kind = "request",
                        ![t].meta = (era = "modern"),
                        ![t].pages = @ + 1]
    /\ UNCHANGED <<shared, budget, nextId, lock, world, counters>>

\* _issue: a fresh id, registered under the current generation.
Issue(t) ==
    /\ At(t, "issue")
    /\ nextId' = nextId + 1
    /\ pending' = pending \cup {<<nextId, gen>>}
    /\ th' = [th EXCEPT ![t].pc = "write", ![t].id = nextId, ![t].g = gen]
    /\ UNCHANGED <<gen, proc, closed, responses, era, budget, lock, world,
                   counters>>

\* _notify: a message without an id, for the current generation.
Notify(t) ==
    /\ At(t, "notify")
    /\ th' = [th EXCEPT ![t].pc = "write", ![t].g = gen]
    /\ UNCHANGED <<shared, budget, nextId, lock, world, counters>>

Forget_ResponseOnly(ids) ==   \* mutant: the registration stays
    /\ pending' = pending
    /\ responses' = {r \in responses : r.id \notin ids}
Forget(ids) ==
    /\ pending' = {p \in pending : p[1] \notin ids}
    /\ responses' = {r \in responses : r.id \notin ids}

\* An McpError: a request ends, a handshake is torn down by _launch.
Raise_NoTeardown(t) ==   \* mutant: a failed handshake keeps its process
    /\ th' = [th EXCEPT ![t] = IF t \in lock
                               THEN [Idle EXCEPT !.pc = "teardown"] ELSE Idle]
    /\ UNCHANGED proc
Raise(t) ==
    IF t \in lock
    THEN Detach(t, Idle)
    ELSE th' = [th EXCEPT ![t] = Idle] /\ UNCHANGED proc

\* A message that could not be written: a request raises, a notification
\* is best effort.
NotWritten(t) ==
    CASE th[t].kind = "initialized" ->
            Ready(t) /\ lock' = {} /\ UNCHANGED <<proc, pending, responses>>
      [] th[t].kind = "cancelled" ->
            th' = [th EXCEPT ![t] = Idle]
            /\ UNCHANGED <<proc, pending, responses, lock>>
      [] OTHER -> Forget({th[t].id}) /\ Raise(t) /\ UNCHANGED lock

\* _write: compare generations and fetch the pipe in one critical section.
WriteAllowed_AnyGeneration(t) == proc # None   \* mutant: no comparison
WriteAllowed(t) == gen = th[t].g /\ proc # None

FetchPipe(t) ==
    /\ At(t, "write") /\ WriteAllowed(t)
    /\ th' = [th EXCEPT ![t].pc = "send", ![t].s = proc]
    /\ UNCHANGED <<shared, budget, nextId, lock, world, counters>>

\* The process was replaced or is gone, or json.dumps refuses the arguments.
WriteRejected(t) ==
    /\ At(t, "write") /\ (~WriteAllowed(t) \/ th[t].kind = "request")
    /\ NotWritten(t)
    /\ UNCHANGED <<gen, closed, era, budget, nextId, world, counters>>

\* _write_all succeeds: the line is in the pipe that was fetched.
Send(t) ==
    /\ At(t, "send") /\ th[t].s \in alive
    /\ \/ /\ th[t].kind \in DOMAIN AnswersTo
          /\ inbox' = inbox \cup
                {[id |-> th[t].id, kind |-> th[t].kind, own |-> th[t].g,
                  to |-> th[t].s, meta |-> th[t].meta]}
          /\ th' = [th EXCEPT ![t].pc = "await", ![t].s = None]
          /\ UNCHANGED lock
       \/ /\ th[t].kind = "initialized"
          /\ Ready(t) /\ lock' = {}
          /\ UNCHANGED inbox
       \/ /\ th[t].kind = "cancelled"
          /\ th' = [th EXCEPT ![t] = Idle]
          /\ UNCHANGED <<inbox, lock>>
    /\ UNCHANGED <<shared, budget, nextId, alive, reading, broken, counters>>

\* _mark_broken: a failure of a replaced process is ignored.
MarkBroken_AnyGeneration(g) == closed' = TRUE   \* mutant: no comparison
MarkBroken(g) == closed' = (closed \/ g = gen)

\* External: what really happened to the process, whatever the client makes
\* of it.
Fails(g) == broken' = (broken \/ g = gen)

\* The pipe is gone, or stayed full until the deadline.
SendFails(t) ==
    /\ At(t, "send")
    /\ MarkBroken(th[t].g) /\ Fails(th[t].s)
    /\ NotWritten(t)
    /\ UNCHANGED <<gen, era, budget, nextId, alive, reading, inbox, counters>>

\* _write_lock was not free before the deadline: another write is stalled.
SendStalled(t) ==
    /\ At(t, "send")
    /\ \E u \in Threads \ {t} : At(u, "send")
    /\ NotWritten(t)
    /\ UNCHANGED <<gen, closed, era, budget, nextId, world, counters>>

Answered(t) == \E r \in responses : r.id = th[t].id

Continue(t, kind) ==
    th' = [th EXCEPT ![t].pc = "issue", ![t].kind = kind, ![t].id = None,
                     ![t].g = None]

\* _await returns the answer of the probe: adopt the modern era, fall back
\* to initialize, or give up.
ProbeAnswered(t, ans) ==
    /\ th[t].kind = "probe"
    /\ Forget({th[t].id})
    /\ \/ /\ ans = "modern"
          /\ era' = "modern"
          /\ Ready(t) /\ lock' = {} /\ UNCHANGED proc
       \/ /\ ans = "unknown" /\ th[t].legacyOk
          /\ Continue(t, "init")
          /\ UNCHANGED <<era, lock, proc>>
       \/ /\ ans # "modern" /\ ~(ans = "unknown" /\ th[t].legacyOk)
          /\ Raise(t) /\ UNCHANGED <<era, lock>>

\* _initialize_legacy: adopt the legacy era, or ask what became of the probe
\* that timed out, or give up.
InitAnswered(t, ans) ==
    /\ th[t].kind = "init"
    /\ \/ /\ ans = "ok"
          /\ Forget({th[t].id, th[t].probe})
          /\ era' = "legacy"
          /\ th' = [th EXCEPT ![t] = [Idle EXCEPT !.pc = "notify",
                                 !.api = th[t].api, !.kind = "initialized"]]
          /\ UNCHANGED <<lock, proc>>
       \/ /\ ans = "error" /\ th[t].probe # None
          /\ Forget({th[t].id})
          /\ th' = [th EXCEPT ![t].kind = "late", ![t].id = th[t].probe,
                              ![t].probe = None]
          /\ UNCHANGED <<era, lock, proc>>
       \/ /\ ans # "ok" /\ ~(ans = "error" /\ th[t].probe # None)
          /\ Forget({th[t].id, th[t].probe})
          /\ Raise(t) /\ UNCHANGED <<era, lock>>

\* The late probe answer of a slow modern server: negotiate again, without
\* the legacy fallback.
LateAnswered(t, ans) ==
    /\ th[t].kind = "late"
    /\ Forget({th[t].id})
    /\ \/ /\ IsModernSignal(ans)
          /\ th' = [th EXCEPT ![t].pc = "issue", ![t].kind = "probe",
                       ![t].id = None, ![t].g = None, ![t].legacyOk = FALSE]
          /\ UNCHANGED <<era, lock, proc>>
       \/ /\ ~IsModernSignal(ans)
          /\ Raise(t) /\ UNCHANGED <<era, lock>>

\* A tool call returns; list_tools may ask for another page, without
\* checking that the server still runs.
RequestAnswered(t) ==
    /\ th[t].kind = "request"
    /\ Forget({th[t].id})
    /\ \/ th' = [th EXCEPT ![t] = Idle]
       \/ /\ th[t].api = "list_tools" /\ th[t].pages < MaxPages
          /\ th' = [th EXCEPT ![t] = [Idle EXCEPT !.pc = "call",
                                 !.api = th[t].api, !.pages = th[t].pages]]
    /\ UNCHANGED <<era, lock, proc>>

Receive(t) ==
    /\ At(t, "await")
    /\ \E r \in responses :
          /\ r.id = th[t].id
          /\ \/ ProbeAnswered(t, r.ans)
             \/ InitAnswered(t, r.ans)
             \/ LateAnswered(t, r.ans)
             \/ RequestAnswered(t)
    /\ UNCHANGED <<gen, closed, budget, nextId, world, counters>>

\* _await finds that its process was replaced or its channel closed.  The
\* probe a failed initialize leaves registered goes with the process.
Lost(t) == <<th[t].id, gen>> \notin pending \/ closed

AwaitLost(t) ==
    /\ At(t, "await") /\ ~Answered(t) /\ Lost(t)
    /\ IF th[t].kind = "late" THEN UNCHANGED <<pending, responses>>
                              ELSE Forget({th[t].id})
    /\ Raise(t)
    /\ UNCHANGED <<gen, closed, era, budget, nextId, lock, world, counters>>

\* _await gives up when the deadline passed and there is still no answer.
Expired_NotInit(t) ==   \* mutant: initialize is awaited without a deadline
    th[t].kind # "init" /\ ~Answered(t) /\ ~Lost(t)
Expired(t) == ~Answered(t) /\ ~Lost(t)

\* A request is cancelled, a silent probe stays
\* registered while initialize is tried, everything else gives up.
AwaitExpires(t) ==
    /\ At(t, "await") /\ Expired(t)
    /\ \/ /\ th[t].kind = "request"
          /\ Forget({th[t].id})
          /\ th' = [th EXCEPT ![t] = [Idle EXCEPT !.pc = "notify",
                                         !.kind = "cancelled"]]
          /\ UNCHANGED proc
       \/ /\ th[t].kind = "probe" /\ th[t].legacyOk
          /\ th' = [th EXCEPT ![t].pc = "issue", ![t].kind = "init",
                       ![t].probe = th[t].id, ![t].id = None, ![t].g = None]
          /\ UNCHANGED <<pending, responses, proc>>
       \/ /\ th[t].kind # "request"
          /\ ~(th[t].kind = "probe" /\ th[t].legacyOk)
          /\ Forget({th[t].id, th[t].probe})
          /\ Raise(t)
    /\ UNCHANGED <<gen, closed, era, budget, nextId, lock, world, counters>>

\* _read_stdout and _handle_line: an answer to a request that is still
\* registered is kept, whichever reader it comes from; any other is dropped.
HandleLine(m, ans) ==
    /\ m.to \in reading
    /\ inbox' = inbox \ {m}
    /\ responses' =
          IF \E p \in pending : p[1] = m.id
          THEN responses \cup {[id |-> m.id, by |-> m.to, ans |-> ans]}
          ELSE responses
    /\ UNCHANGED <<gen, proc, closed, pending, era, budget, nextId, lock, th,
                   alive, reading, broken, counters>>

\* The end of _read_stdout: EOF, a framing error or an oversized message.
\* A reader that outlives its process does not close the replacement.
ReaderEnds(g) ==
    /\ g \in reading
    /\ reading' = reading \ {g}
    /\ inbox' = {m \in inbox : m.to # g}
    /\ MarkBroken(g) /\ Fails(g)
    /\ UNCHANGED <<gen, proc, pending, responses, era, budget, nextId, lock, th,
                   alive, counters>>

\* External: a server process exits by itself.
ServerDies(g) ==
    /\ g \in alive
    /\ alive' = alive \ {g}
    /\ Fails(g)
    /\ UNCHANGED <<shared, budget, nextId, lock, th, reading, inbox, counters>>

ThreadStep(t) ==
    \/ Refused(t) \/ AlreadyRunning(t) \/ OutOfRestarts(t) \/ Launch(t)
    \/ Close(t) \/ Teardown(t) \/ Spawn(t) \/ Popen(t) \/ PopenFails(t)
    \/ NoTools(t) \/ Payload(t) \/ Issue(t) \/ Notify(t)
    \/ FetchPipe(t) \/ WriteRejected(t)
    \/ Send(t) \/ SendFails(t) \/ SendStalled(t)
    \/ Receive(t) \/ AwaitLost(t) \/ AwaitExpires(t)

Next ==
    \/ \E t \in Threads : (\E api \in Apis : Begin(t, api)) \/ ThreadStep(t)
    \/ \E m \in inbox : \E ans \in AnswersTo[m.kind] : HandleLine(m, ans)
    \/ \E g \in reading : ReaderEnds(g)
    \/ \E g \in alive : ServerDies(g)

Spec == Init /\ [][Next]_vars

\* Every wait of a thread has a deadline, so a thread inside the client
\* keeps taking steps; servers and callers owe nothing.
FairSpec == Spec /\ \A t \in Threads : WF_vars(ThreadStep(t))
-----------------------------------------------------------------------------
Kinds == {"none", "initialized", "cancelled", "late"} \cup DOMAIN AnswersTo

Points == {"idle", "acquire", "teardown", "spawn", "popen", "call", "issue",
           "notify", "write", "send", "await"}

Frame == [pc : Points, api : Apis \cup {"none"}, kind : Kinds, id : Nat,
          g : Nat, s : Nat, meta : BOOLEAN, probe : Nat, legacyOk : BOOLEAN,
          pages : Nat]

TypeOK ==
    /\ gen \in Nat /\ proc \in {None, gen} /\ closed \in BOOLEAN
    /\ pending \subseteq (Nat \ {0}) \X Nat
    /\ responses \subseteq
          [id : Nat, by : Nat, ans : UNION {AnswersTo[k] : k \in DOMAIN AnswersTo}]
    /\ era \in {"none", "modern", "legacy"}
    /\ launched \in BOOLEAN /\ userClosed \in BOOLEAN
    /\ restarts \in Nat /\ nextId \in Nat \ {0}
    /\ lock \in {{}} \cup {{t} : t \in Threads}
    /\ th \in [Threads -> Frame]
    /\ alive \subseteq 1..gen /\ reading \subseteq 1..gen
    /\ inbox \subseteq [id : Nat, kind : DOMAIN AnswersTo, own : Nat, to : Nat,
                        meta : BOOLEAN]
    /\ broken \in BOOLEAN
    /\ calls \in Nat /\ starts \in Nat

\* An answer that waits for its caller was written by the process the request
\* was registered for.  _handle_line does not ask which process a line came
\* from: a reader may outlive a restart, and only ids that are never reused
\* keep its lines from answering a request to the replacement.
AnswersFromOwnProcess ==
    \A r \in responses : <<r.id, r.by>> \in pending

\* A request is only ever received by the process it was registered for, as
\* the docstring of _write promises: the caller of a request to a process
\* that was replaced is told it failed, so the replacement must not run it.
RequestsReachOwnProcess ==
    \A m \in inbox : m.to = m.own

\* While nobody is launching or closing, the only process that can still run
\* is the one the client holds: every launch, failed handshake and close
\* stopped the process it let go of, and after close none is left.
NoLeakedProcess ==
    lock = {} => /\ alive \subseteq {proc}
                 /\ userClosed => proc = None

\* While nobody is launching or closing, a process the client holds has
\* finished its handshake: _launch tears down every handshake that failed.
ReadyMeansNegotiated ==
    (lock = {} /\ proc # None) => era # "none"

\* The client treats the channel of the process it holds as closed only if
\* that process exited or its own pipes failed.  Late failures of an earlier
\* process (its reader reaching EOF, a write that had already fetched its
\* pipe) never spend the restart budget of a healthy replacement.
HealthyStaysUsable ==
    (closed /\ proc # None) => broken

\* While the client holds a negotiated process, every registered request has
\* a thread behind it: timeouts, rejected writes and lost channels forget
\* what they registered, so neither table grows with failed calls.
NoStrayPending ==
    (lock = {} /\ proc # None) =>
        \A p \in pending : \E t \in Threads : th[t].id = p[1]

\* The restart budget: beyond the first launch, a process is spawned only for
\* an explicit start() or a counted restart, of which there are at most
\* max_restarts.
LaunchesBounded ==
    /\ restarts <= MaxRestarts
    /\ gen <= 1 + restarts + starts

\* Every call returns or raises, whatever the server does: no thread waits
\* for ever for an answer, the lock or a restart.
CallsEnd ==
    \A t \in Threads : (th[t].pc # "idle") ~> (th[t].pc = "idle")

\* The module docstring: "Modern requests always repeat the _meta envelope".
\* No process that is detected as modern has been sent a tool request
\* without it.
ModernRequestsCarryEnvelope ==
    era = "modern" =>
        \A m \in inbox : (m.kind = "request" /\ m.to = proc) => m.meta
=============================================================================
