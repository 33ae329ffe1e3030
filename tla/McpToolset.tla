------------------------------ MODULE McpToolset ------------------------------
(***************************************************************************)
(* A command of the CLI that uses MCP servers: run, resume or mcp-tools    *)
(* with --mcp-config.  The configuration is parsed, the servers are        *)
(* started and asked for their tools one after the other, the tools that   *)
(* allow and deny lists leave are registered, the run executes with them,  *)
(* and the servers are closed again.  Any server may fail to start, and    *)
(* the user may interrupt the command while it waits.                      *)
(*                                                                         *)
(* A tool is registered as mcp__<server>__<tool>: a pair of both names.    *)
(***************************************************************************)
EXTENDS Integers, Sequences, FiniteSets

CONSTANTS
  Tools,      \* names a server may report
  BadName,    \* a name that does not match the naming rule
  ServerCount,
  None

VARIABLES
  setup,     \* the command, the configuration, how the run to resume finished
  toolset,   \* _clients, _tools and the statuses of the toolset
  progress,  \* pc of the command, the server that is next, the exit code
  running    \* the servers whose process runs, with what they listed

toolsetVars == <<setup, toolset, progress, running>>

Servers == 1..ServerCount

\* _finished_run_outcome: a run that was cancelled counts as failed.
Outcomes == {"none", "succeeded", "failed"}

\* What an entry of mcpServers is to the parser and to the toolset.
EntryKinds == {"stdio", "disabled", "http", "invalid"}
EntryTypes == [kind : EntryKinds, allowed : {None} \cup SUBSET Tools, denied : SUBSET Tools]
Listings == {<<>>} \cup {<<t, u>> : t \in Tools, u \in Tools \cup {BadName}}

ToolsetConstantsOK == ServerCount \in Nat /\ BadName \notin Tools /\ None \notin Listings /\ None # 0

Init ==
  /\ setup \in [command : {"run", "resume", "mcp-tools"}, entries : [Servers -> EntryTypes],
                finished : Outcomes]
  /\ setup.finished # "none" => setup.command = "resume"
  /\ \A i \in Servers : setup.entries[i].kind # "stdio" =>
       setup.entries[i].allowed = None /\ setup.entries[i].denied = {}
  /\ toolset = [clients |-> <<>>, tools |-> {}, failed |-> {},
                hidden |-> {}, skipped |-> {}]
  /\ progress = [pc |-> "begin", next |-> 1, exit |-> None]
  /\ running = [i \in Servers |-> None]

Goto(pc) == progress' = [progress EXCEPT !.pc = pc]
Exit(code) == progress' = [progress EXCEPT !.pc = "ended", !.exit = code]

-----------------------------------------------------------------------------
(* The configuration *)

\* mutant: the allow list overrides the deny list
Exposes_AllowWins(e, t) == IF e.allowed # None /\ t \in e.allowed THEN TRUE
                           ELSE t \notin e.denied /\ e.allowed = None
Exposes(e, t) == t \notin e.denied /\ (e.allowed = None \/ t \in e.allowed)

\* load_mcp_config: one invalid entry fails the command; an entry of another
\* transport is left out with a warning.
LoadConfig ==
  /\ progress.pc = "begin" /\ setup.finished = "none"
  /\ IF \E i \in Servers : setup.entries[i].kind = "invalid" THEN Exit(2) ELSE Goto("starting")
  /\ UNCHANGED <<setup, toolset, running>>

\* resume reports a finished run, and how it ended, before anything is started.
ReportFinished ==
  /\ progress.pc = "begin" /\ setup.finished # "none"
  /\ Exit(IF setup.finished = "succeeded" THEN 0 ELSE 2)
  /\ UNCHANGED <<setup, toolset, running>>

-----------------------------------------------------------------------------
(* start *)

Starting(i) == progress.pc = "starting" /\ progress.next = i
Advance == progress' = [progress EXCEPT !.next = @ + 1]

Skip(i) ==
  /\ Starting(i) /\ setup.entries[i].kind \in {"disabled", "http"}
  /\ Advance
  /\ UNCHANGED <<setup, toolset, running>>

\* _register: what becomes of the n-th tool the server listed.
Fate(i, listing, n) ==
  IF listing[n] = BadName THEN "skipped"
  ELSE IF ~Exposes(setup.entries[i], listing[n]) THEN "hidden"
  ELSE IF \E m \in 1..(n - 1) : listing[m] = listing[n] THEN "skipped"
  ELSE "exposed"

WithFate(i, listing, fate) ==
  {[server |-> i, tool |-> listing[n]] : n \in {m \in DOMAIN listing : Fate(i, listing, m) = fate}}

\* The server starts and lists its tools; its client is kept.
StartServer(i, listing) ==
  /\ Starting(i) /\ setup.entries[i].kind = "stdio"
  /\ running' = [running EXCEPT ![i] = listing]
  /\ toolset' = [toolset EXCEPT !.clients = Append(@, i),
                                !.tools = @ \cup WithFate(i, listing, "exposed"),
                                !.hidden = @ \cup WithFate(i, listing, "hidden"),
                                !.skipped = @ \cup WithFate(i, listing, "skipped")]
  /\ Advance
  /\ UNCHANGED setup

\* mutant: the process of a server that cannot list its tools is left alone
AfterFailure_Left(i) == [running EXCEPT ![i] = <<>>]
AfterFailure(i) == running

\* start or list_tools raises McpError: the client is closed and the server
\* recorded as failed.
FailServer(i) ==
  /\ Starting(i) /\ setup.entries[i].kind = "stdio"
  /\ running' = AfterFailure(i)
  /\ toolset' = [toolset EXCEPT !.failed = @ \cup {i}]
  /\ Advance
  /\ UNCHANGED setup

\* Ctrl-C while a server starts: its client is closed, and the caller of start
\* closes the others.
InterruptStart(i) ==
  /\ Starting(i) /\ setup.entries[i].kind = "stdio"
  /\ progress' = [progress EXCEPT !.pc = "closing", !.exit = 130]
  /\ UNCHANGED <<setup, toolset, running>>

-----------------------------------------------------------------------------
(* The command *)

\* start returned.  run and resume do not start with a failed server;
\* mcp-tools prints what there is.
Started ==
  /\ progress.pc = "starting" /\ progress.next > ServerCount
  /\ progress' = CASE setup.command = "mcp-tools" ->
                        [progress EXCEPT !.pc = "closing", !.exit = IF toolset.failed = {} THEN 0 ELSE 1]
                   [] setup.command # "mcp-tools" /\ toolset.failed # {} ->
                        [progress EXCEPT !.pc = "closing", !.exit = 2]
                   [] OTHER -> [progress EXCEPT !.pc = "running"]
  /\ UNCHANGED <<setup, toolset, running>>

\* build_runtime_tools: the run may use the policy's tools and these.
RuntimeTools == toolset.tools

\* The run ends, is interrupted or raises: the exit stack closes the toolset.
EndRun(code) ==
  /\ progress.pc = "running"
  /\ progress' = [progress EXCEPT !.pc = "closing", !.exit = code]
  /\ UNCHANGED <<setup, toolset, running>>

\* close: the client started last goes first.
CloseNext ==
  /\ progress.pc = "closing" /\ toolset.clients # <<>>
  /\ LET n == Len(toolset.clients) IN
       /\ toolset' = [toolset EXCEPT !.clients = SubSeq(@, 1, n - 1)]
       /\ running' = [running EXCEPT ![toolset.clients[n]] = None]
  /\ UNCHANGED <<setup, progress>>

Closed ==
  /\ progress.pc = "closing" /\ toolset.clients = <<>>
  /\ Goto("ended")
  /\ UNCHANGED <<setup, toolset, running>>

Terminated == progress.pc = "ended" /\ UNCHANGED toolsetVars

Next ==
  \/ LoadConfig \/ ReportFinished
  \/ \E i \in Servers :
       \/ Skip(i) \/ FailServer(i) \/ InterruptStart(i)
       \/ \E listing \in Listings : StartServer(i, listing)
  \/ Started
  \/ \E code \in {0, 2, 130} : EndRun(code)
  \/ CloseNext \/ Closed \/ Terminated

Spec == Init /\ [][Next]_toolsetVars

-----------------------------------------------------------------------------
(* Properties *)

\* A run executes with every configured stdio server up and with exactly the
\* tools they listed and the lists expose; a tool that is denied, of a disabled
\* server, or of no valid name is never among them.
RunSeesConfiguredTools ==
  progress.pc = "running" =>
    /\ \A i \in Servers : setup.entries[i].kind = "stdio" <=> running[i] # None
    /\ RuntimeTools =
         {p \in [server : Servers, tool : Tools] :
            /\ running[p.server] # None
            /\ \E n \in DOMAIN running[p.server] : running[p.server][n] = p.tool
            /\ p.tool \notin setup.entries[p.server].denied
            /\ setup.entries[p.server].allowed # None => p.tool \in setup.entries[p.server].allowed}

\* However the command ends (a finished run, a bad configuration, a server
\* that fails, an interrupt while a later one starts), no server it started is
\* left running, and it ends with 0 only when every server started.
NoServerOutlivesCommand ==
  progress.pc = "ended" =>
    /\ \A i \in Servers : running[i] = None
    /\ progress.exit = 0 => toolset.failed = {}
=============================================================================
