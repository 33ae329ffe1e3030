----------------------------- MODULE Approvals -----------------------------
(***************************************************************************)
(* HitlApprovalGate (approval.py): one JSON file per approval request.     *)
(* Bots file a request and poll it; operators resolve it from processes of *)
(* their own, which share nothing but the file.  Reading the file, opening *)
(* it for writing (which truncates it) and writing the new content are     *)
(* separate steps of one call, and a process may die between them.         *)
(***************************************************************************)
EXTENDS Naturals

CONSTANTS Requests,    \* request identifiers, each fresh from uuid4
          Actors,      \* the processes that call the gate
          None

VARIABLES file,        \* request -> what its file holds
          call,        \* actor -> the call it is in
          answer,      \* actor -> what its last call returned
          resolved     \* history: the <<request, decision>> resolve returned

vars == <<file, call, answer, resolved>>

Pending == "pending"
Decisions == {"approved", "rejected"}

(* A file is absent, empty or cut short (neither parses), or complete.     *)
Contents == {None, "partial", Pending} \union Decisions

Idle == [op |-> "idle"]
Calls == {Idle} \union [op : {"request"}, id : Requests, at : {"write", "fill"}]
                \union [op : {"resolve"}, id : Requests, decision : Decisions,
                        at : {"read", "write", "fill"}]

TypeOK ==
  /\ file \in [Requests -> Contents]
  /\ call \in [Actors -> Calls]
  /\ answer \in [Actors -> Contents \union {"error"}]
  /\ resolved \subseteq Requests \X Decisions

Init ==
  /\ file = [r \in Requests |-> None]
  /\ call = [a \in Actors |-> Idle]
  /\ answer = [a \in Actors |-> None]
  /\ resolved = {}

-----------------------------------------------------------------------------
(* _read: the status, or the error of a missing or unparsable file.        *)
Read(r) == IF file[r] \in {Pending} \union Decisions THEN file[r] ELSE "error"

(* The identifier is a new uuid: no file and no call has it.               *)
Request(a, r) ==
  /\ call[a] = Idle
  /\ file[r] = None
  /\ \A b \in Actors : call[b] # Idle => call[b].id # r
  /\ call' = [call EXCEPT ![a] = [op |-> "request", id |-> r, at |-> "write"]]
  /\ UNCHANGED <<file, answer, resolved>>

(* An operator knows the identifier once the bot has begun to file it.     *)
Resolve(a, r, d) ==
  /\ call[a] = Idle
  /\ file[r] # None
  /\ call' = [call EXCEPT ![a] = [op |-> "resolve", id |-> r, decision |-> d,
                                  at |-> "read"]]
  /\ UNCHANGED <<file, answer, resolved>>

(* resolve reads the file and goes on only if the request is pending.      *)
CheckPending(a) ==
  /\ call[a] # Idle
  /\ call[a].at = "read"
  /\ LET status == Read(call[a].id)
     IN  IF status = Pending
         THEN /\ call' = [call EXCEPT ![a].at = "write"]
              /\ UNCHANGED answer
         ELSE /\ call' = [call EXCEPT ![a] = Idle]
              /\ answer' = [answer EXCEPT ![a] = "error"]
  /\ UNCHANGED <<file, resolved>>

(* _write: write_text opens the file, which truncates it ...               *)
WriteOpen(a) ==
  /\ call[a] # Idle
  /\ call[a].at = "write"
  /\ file' = [file EXCEPT ![call[a].id] = "partial"]
  /\ call' = [call EXCEPT ![a].at = "fill"]
  /\ UNCHANGED <<answer, resolved>>

(* ... and then fills it; the call returns the request it wrote.           *)
WriteFill(a) ==
  /\ call[a] # Idle
  /\ call[a].at = "fill"
  /\ LET c == call[a]
         status == IF c.op = "request" THEN Pending ELSE c.decision
     IN  /\ file' = [file EXCEPT ![c.id] = status]
         /\ answer' = [answer EXCEPT ![a] = status]
         /\ resolved' = IF c.op = "request" THEN resolved
                        ELSE resolved \union {<<c.id, status>>}
  /\ call' = [call EXCEPT ![a] = Idle]

Poll(a, r) ==
  /\ call[a] = Idle
  /\ file[r] # None
  /\ answer' = [answer EXCEPT ![a] = Read(r)]
  /\ UNCHANGED <<file, call, resolved>>

(* The process of a call dies: a file it had truncated stays cut short.    *)
Crash(a) ==
  /\ call[a] # Idle
  /\ call' = [call EXCEPT ![a] = Idle]
  /\ UNCHANGED <<file, answer, resolved>>

Next ==
  \E a \in Actors :
     \/ CheckPending(a) \/ WriteOpen(a) \/ WriteFill(a) \/ Crash(a)
     \/ \E r \in Requests :
           \/ Request(a, r) \/ Poll(a, r)
           \/ \E d \in Decisions : Resolve(a, r, d)

Spec == Init /\ [][Next]_vars

-----------------------------------------------------------------------------
(* HITL_APPROVAL_GATE_GUIDE.md:51, "already-resolved requests cannot       *)
(* flip": once resolve has returned one decision for a request, no resolve *)
(* returns the other.  Two operators that both read the file while it was  *)
(* pending both succeed (resolve, approval.py:127-137), so it fails.       *)
ResolvedOnce ==
  \A r \in Requests : ~ \A d \in Decisions : <<r, d>> \in resolved
=============================================================================
