-------------------------------- MODULE Ledgers --------------------------------
(***************************************************************************)
(* The in-memory ledgers that multi-bot sessions are charged to: tool call *)
(* quotas, turn and token budgets, turn fairness, fan-in barriers, tool    *)
(* permissions, sticky bots, duplicate results, claims of exclusive roles, *)
(* critic verdicts, votes, and the step planner.  One object of one of the *)
(* classes is used by its callers, in any order, and the operations it     *)
(* accepted are kept.                                                      *)
(*                                                                         *)
(* A row is what a ledger keeps for one owner (a session, a barrier, a     *)
(* role, a review, for permissions and votes a bot), by item (a tool, a    *)
(* bot, a kind of tokens, a fingerprint, a verdict, an answer): the value  *)
(* of dict.get(..., 0), and 1 for the members of a set.                    *)
(***************************************************************************)
EXTENDS Integers, Sequences, FiniteSets, FiniteSetsExt

CONSTANTS
  Owners, Items, Turn,  \* Turn is the one item of the turn budget
  MaxCount,             \* max_calls, max_turns; hard_limit of the tokens; required
  SoftLimit,            \* soft_limit of the tokens
  MaxSkew,              \* max_skew of the fairness scheduler
  MaxSteps, MaxTokens,  \* what plan is called with
  MaxOps,               \* bound on the operations
  None

VARIABLES
  kind,     \* the class of the object, its mode, its default, what plan estimates
  counts,   \* the rows
  plan,     \* _remaining_tokens and _remaining_steps of the planner
  log       \* the operations the object accepted

ledgerVars == <<kind, counts, plan, log>>

Classes == {"quota", "turns", "tokens", "fairness", "barrier", "permission", "sticky",
            "deduper", "roles", "critic", "votes", "planner"}
Empty == [x \in Items |-> 0]

\* What the constructors accept, and plan; callers name finitely many owners and items.
LedgerConstantsOK ==
  /\ IsFiniteSet(Owners) /\ IsFiniteSet(Items) /\ Turn \in Items /\ None \notin Items
  /\ MaxCount \in Nat \ {0} /\ SoftLimit \in 1..MaxCount /\ MaxSkew \in Nat
  /\ MaxSteps \in Nat \ {0} /\ MaxTokens \in Nat \ {0}

Init ==
  /\ kind \in [class : Classes, hard : BOOLEAN, defaultDeny : BOOLEAN, estimate : 1..(MaxTokens + 1)]
  /\ kind.class # "permission" => kind.defaultDeny
  /\ kind.class # "planner" => kind.estimate = 1
  /\ counts = [o \in Owners |-> Empty]
  /\ plan = [tokens |-> 0, steps |-> 0]
  /\ log = <<>>

\* The object accepts an operation on item x of owner o; n is its amount.
Log(op, o, x, n) ==
  /\ Len(log) < MaxOps
  /\ log' = Append(log, [op |-> op, owner |-> o, item |-> x, n |-> n])
  /\ UNCHANGED kind

Charge(o, x, n) == counts' = [counts EXCEPT ![o][x] = @ + n] /\ UNCHANGED plan
Clear(o, xs) ==
  counts' = [counts EXCEPT ![o] = [x \in Items |-> IF x \in xs THEN 0 ELSE @[x]]] /\ UNCHANGED plan

-----------------------------------------------------------------------------
(* Tool call quota and turn budget *)

\* mutant: the last call over the cap is still recorded
Exhausted_Late(n) == n > MaxCount
Exhausted(n) == n >= MaxCount

\* In hard mode record raises when the quota is exhausted.
RecordCall(o, x) ==
  /\ kind.class = "quota"
  /\ kind.hard => ~Exhausted(counts[o][x])
  /\ Charge(o, x, 1) /\ Log("add", o, x, 1)

ResetCalls(o, x) ==
  /\ kind.class = "quota"
  /\ Clear(o, {x}) /\ Log("clear", o, x, 0)

RecordTurn(o) ==
  /\ kind.class = "turns"
  /\ kind.hard => ~Exhausted(counts[o][Turn])
  /\ Charge(o, Turn, 1) /\ Log("add", o, Turn, 1)

\* reset without a tool, and reset of the other ledgers, clears the row.
ClearRow(o, class) ==
  /\ kind.class = class
  /\ Clear(o, Items) /\ Log("clear_all", o, None, 0)

ResetAllCalls(o) == ClearRow(o, "quota")
ResetTurns(o) == ClearRow(o, "turns")
ResetTokens(o) == ClearRow(o, "tokens")
ResetFairness(o) == ClearRow(o, "fairness")
ResetBarrier(o) == ClearRow(o, "barrier")
ResetResults(o) == ClearRow(o, "deduper")
ResetRole(o) == ClearRow(o, "roles")

-----------------------------------------------------------------------------
(* Session tokens: prompt and completion are two items *)

SumOver(f, S) == MapThenSumSet(LAMBDA x : f[x], S)
Total(row) == SumOver(row, Items)

RecordTokens(o, used) ==
  /\ kind.class = "tokens"
  /\ counts' = [counts EXCEPT ![o] = [x \in Items |-> @[x] + used[x]]] /\ UNCHANGED plan
  /\ Log("add", o, None, Total(used))

\* mutant: the hard band begins past the limit
TokenStatus_Late(total) ==
  IF total > MaxCount THEN "hard" ELSE IF total >= SoftLimit THEN "soft" ELSE "ok"
TokenStatus(total) ==
  IF total >= MaxCount THEN "hard" ELSE IF total >= SoftLimit THEN "soft" ELSE "ok"

-----------------------------------------------------------------------------
(* Turn fairness among the bots of a session *)

\* _would_allow: x is at most max_skew turns ahead of the least served of the
\* eligible bots, before its turn.
WouldAllow(row, x, eligible) == \A y \in eligible : row[x] <= row[y] + MaxSkew

\* record; the caller names the eligible bots anew with every turn.
RecordBotTurn(o, x) ==
  /\ kind.class = "fairness"
  /\ \E eligible \in SUBSET Items :
       x \in eligible /\ (kind.hard => WouldAllow(counts[o], x, eligible))
  /\ Charge(o, x, 1) /\ Log("add", o, x, 1)

-----------------------------------------------------------------------------
(* Fan-in barrier, duplicate results *)

Arrive(o, x) ==
  /\ kind.class = "barrier"
  /\ counts' = [counts EXCEPT ![o][x] = 1] /\ UNCHANGED plan
  /\ Log("add", o, x, 1)

\* mutant: the barrier waits for one bot more than required
Released_Late(row) == Cardinality({x \in Items : row[x] > 0}) > MaxCount
Released(row) == Cardinality({x \in Items : row[x] > 0}) >= MaxCount

\* mutant: what was seen is looked up by owner
Observe_ByOwner(o, x) ==
  /\ kind.class = "deduper"
  /\ Charge(o, x, 1)
  /\ Log(IF counts[o] = Empty THEN "accept" ELSE "duplicate", o, x, 1)
\* observe; the deduper accepts a result it has not seen.
Observe(o, x) ==
  /\ kind.class = "deduper"
  /\ Charge(o, x, 1)
  /\ Log(IF counts[o][x] = 0 THEN "accept" ELSE "duplicate", o, x, 1)

-----------------------------------------------------------------------------
(* Tool permissions and sticky bots *)

GrantTool(o, x) ==
  /\ kind.class = "permission"
  /\ counts' = [counts EXCEPT ![o][x] = 1] /\ UNCHANGED plan
  /\ Log("grant", o, x, 0)

\* mutant: the row of a bot goes with the first grant revoked
Revoked_Row(row, x) == Empty
Revoked(row, x) == [row EXCEPT ![x] = 0]

\* revoke of a grant; without one it changes nothing.
RevokeTool(o, x) ==
  /\ kind.class = "permission" /\ counts[o][x] > 0
  /\ counts' = [counts EXCEPT ![o] = Revoked(@, x)] /\ UNCHANGED plan
  /\ Log("revoke", o, x, 0)

\* mutant: the default applies beside other grants of the bot
Allowed_Beside(row, x) == row[x] > 0 \/ ~kind.defaultDeny
\* check; an empty row is no row, for revoke deletes it.
Allowed(row, x) == row[x] > 0 \/ (~kind.defaultDeny /\ row = Empty)

\* mutant: the bot that was pinned before stays pinned
Bind_Beside(o, x) ==
  /\ kind.class = "sticky"
  /\ counts' = [counts EXCEPT ![o][x] = 1] /\ UNCHANGED plan
  /\ Log("bind", o, x, 0)
\* set overwrites the bot the session is pinned to.
Bind(o, x) ==
  /\ kind.class = "sticky"
  /\ counts' = [counts EXCEPT ![o] = [Empty EXCEPT ![x] = 1]] /\ UNCHANGED plan
  /\ Log("bind", o, x, 0)

Unbind(o) == ClearRow(o, "sticky")

-----------------------------------------------------------------------------
(* Exclusive roles, critic verdicts, votes *)

\* claim records the bot, also in hard mode, where the answer may deny it.
ClaimRole(o, x) ==
  /\ kind.class = "roles"
  /\ counts' = [counts EXCEPT ![o][x] = 1] /\ UNCHANGED plan
  /\ Log("grant", o, x, 0)

ReleaseRole(o, x) ==
  /\ kind.class = "roles" /\ counts[o][x] > 0
  /\ counts' = [counts EXCEPT ![o][x] = 0] /\ UNCHANGED plan
  /\ Log("revoke", o, x, 0)

\* mutant: a conflict needs three claims
Conflict_Late(row) == Cardinality({x \in Items : row[x] > 0}) > 2
Conflict(row) == Cardinality({x \in Items : row[x] > 0}) > 1

\* mutant: a review can be decided again
DecideReview_Again(o, x) ==
  /\ kind.class = "critic"
  /\ counts' = [counts EXCEPT ![o] = [Empty EXCEPT ![x] = 1]] /\ UNCHANGED plan
  /\ Log("bind", o, x, 0)
\* decide raises for a review that has a verdict.
DecideReview(o, x) ==
  /\ kind.class = "critic" /\ counts[o] = Empty
  /\ counts' = [counts EXCEPT ![o][x] = 1] /\ UNCHANGED plan
  /\ Log("bind", o, x, 0)

\* mutant: the earlier vote of the bot counts as well
AddVote_Beside(o, x) ==
  /\ kind.class = "votes"
  /\ counts' = [counts EXCEPT ![o][x] = 1] /\ UNCHANGED plan
  /\ Log("bind", o, x, 0)
\* add_vote records or replaces the answer of a bot.
AddVote(o, x) ==
  /\ kind.class = "votes"
  /\ counts' = [counts EXCEPT ![o] = [Empty EXCEPT ![x] = 1]] /\ UNCHANGED plan
  /\ Log("bind", o, x, 0)

\* clear drops the votes of all bots.
ClearVotes ==
  /\ kind.class = "votes"
  /\ Len(log) < MaxOps
  /\ counts' = [o \in Owners |-> Empty]
  /\ log' = <<>>
  /\ UNCHANGED <<kind, plan>>

\* aggregate, in majority mode (hard) or plurality mode.
Tally(x) == Cardinality({o \in Owners : counts[o][x] = 1})
Voters == Cardinality({o \in Owners : counts[o] # Empty})
Leaders == {x \in Items : Tally(x) > 0 /\ \A y \in Items : Tally(y) <= Tally(x)}
Winner ==
  IF Cardinality(Leaders) # 1 THEN None
  ELSE LET x == CHOOSE x \in Leaders : TRUE IN
       IF kind.hard /\ Tally(x) * 2 <= Voters THEN None ELSE x

-----------------------------------------------------------------------------
(* The budgeted step planner *)

\* mutant: the estimate rounds the steps up
ByTokens_Up(estimate) == (MaxTokens + estimate - 1) \div estimate
ByTokens(estimate) == MaxTokens \div estimate

MakePlan ==
  /\ kind.class = "planner"
  /\ plan' = [tokens |-> MaxTokens,
              steps |-> IF ByTokens(kind.estimate) < MaxSteps THEN ByTokens(kind.estimate)
                                                              ELSE MaxSteps]
  /\ Log("plan", None, None, 0)
  /\ UNCHANGED counts

\* reserve raises without a step or with too few tokens.
Reserve(n) ==
  /\ kind.class = "planner"
  /\ plan.steps >= 1 /\ n <= plan.tokens
  /\ plan' = [tokens |-> plan.tokens - n, steps |-> plan.steps - 1]
  /\ Log("reserve", None, None, n)
  /\ UNCHANGED counts

\* check, status, recommend, get and grants_for only read.
Read == UNCHANGED ledgerVars

Next ==
  \/ \E o \in Owners :
       \/ \E x \in Items :
            \/ RecordCall(o, x) \/ ResetCalls(o, x) \/ RecordBotTurn(o, x)
            \/ Arrive(o, x) \/ Observe(o, x)
            \/ GrantTool(o, x) \/ RevokeTool(o, x) \/ Bind(o, x)
            \/ ClaimRole(o, x) \/ ReleaseRole(o, x) \/ DecideReview(o, x) \/ AddVote(o, x)
       \/ \E used \in [Items -> 0..1] : RecordTokens(o, used)
       \/ RecordTurn(o) \/ Unbind(o)
       \/ ResetAllCalls(o) \/ ResetTurns(o) \/ ResetTokens(o) \/ ResetFairness(o)
       \/ ResetBarrier(o) \/ ResetResults(o) \/ ResetRole(o)
  \/ ClearVotes \/ MakePlan
  \/ \E n \in 0..MaxTokens : Reserve(n)
  \/ Read

Spec == Init /\ [][Next]_ledgerVars

-----------------------------------------------------------------------------
(* Properties *)

\* What the log says: the operations on item x of owner o that no later reset
\* cleared, and the amount they add up to.
Drops(e, o, x) == e.owner = o /\ (e.op = "clear_all" \/ (e.op = "clear" /\ e.item = x))
Standing(o, x) ==
  {i \in DOMAIN log :
     /\ log[i].owner = o /\ log[i].item = x /\ log[i].op \notin {"clear", "clear_all"}
     /\ \A j \in (i + 1)..Len(log) : ~Drops(log[j], o, x)}
Amounts == [i \in DOMAIN log |-> log[i].n]
Recorded(o, x) == SumOver(Amounts, Standing(o, x))

\* A grant of x to o that was not revoked or reset since; a pin of o to x that none followed.
Ends(e, o, x) == e.owner = o /\ (e.op = "clear_all" \/ (e.op = "revoke" /\ e.item = x))
Granted(o, x) ==
  \E i \in DOMAIN log :
    /\ log[i].op = "grant" /\ log[i].owner = o /\ log[i].item = x
    /\ \A j \in (i + 1)..Len(log) : ~Ends(log[j], o, x)
Pinned(o, x) ==
  \E i \in Standing(o, x) : \A j \in (i + 1)..Len(log) : log[j].owner # o

AmountsAnswer(o, x) ==
  /\ kind.class \in {"quota", "turns"} /\ kind.hard => Recorded(o, x) <= MaxCount
  /\ kind.class \in {"quota", "turns", "fairness", "deduper"} => counts[o][x] = Recorded(o, x)
  /\ kind.class = "tokens" =>
       (TokenStatus(Total(counts[o])) = "hard" <=> Recorded(o, None) >= MaxCount)
  /\ kind.class = "barrier" =>
       (Released(counts[o]) <=> Cardinality({y \in Items : Standing(o, y) # {}}) >= MaxCount)
  /\ kind.class = "deduper" =>
       Cardinality({i \in Standing(o, x) : log[i].op = "accept"}) = IF Standing(o, x) = {} THEN 0 ELSE 1
GrantsAnswer(o, x) ==
  /\ kind.class = "permission" =>
       /\ Granted(o, x) => Allowed(counts[o], x)
       /\ ~Granted(o, x) /\ (kind.defaultDeny \/ \E y \in Items : Granted(o, y))
            => ~Allowed(counts[o], x)
  /\ kind.class = "roles" =>
       (Conflict(counts[o]) <=> \E y, z \in Items : y # z /\ Granted(o, y) /\ Granted(o, z))
PinsAnswer(o, x) ==
  /\ kind.class \in {"sticky", "votes"} => (counts[o][x] = 1 <=> Pinned(o, x))
  /\ kind.class = "critic" => Cardinality({i \in DOMAIN log : log[i].owner = o}) <= 1
  /\ kind.class = "votes" /\ kind.hard =>
       (Winner = x <=> 2 * Cardinality({v \in Owners : Pinned(v, x)})
                         > Cardinality({v \in Owners : \E y \in Items : Pinned(v, y)}))
PlanAnswers ==
  kind.class = "planner" =>
    \/ plan.tokens >= plan.steps * kind.estimate
    \/ \E i \in DOMAIN log : log[i].op = "reserve" /\ log[i].n > kind.estimate

\* Every answer follows from the operations the object accepted, in whatever
\* order callers recorded and reset: hard caps hold between two resets, token
\* bands grade all that was recorded, a barrier opens on distinct bots, a
\* result is accepted once, a granted tool is allowed until its grant is revoked
\* and denied while it is not granted and any other tool is, a role conflicts as
\* long as two claims stand, a review keeps its verdict, and the last votes
\* decide.  Nothing is said of a bot without a grant where default_deny is
\* False.  The steps that plan allowed fit: as long as no step reserved more
\* than the estimate, tokens never run out before steps do.
LedgersAreTheirLog ==
  /\ \A o \in Owners, x \in Items : AmountsAnswer(o, x) /\ GrantsAnswer(o, x) /\ PinsAnswer(o, x)
  /\ PlanAnswers
=============================================================================
