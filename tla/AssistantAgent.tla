--------------------------- MODULE AssistantAgent ---------------------------
(***************************************************************************)
(* The life of the assistant's agent (assistant/mod.rs, assistant/agent.rs):*)
(* a child process that is started on first use, replaced, signed in to,    *)
(* ended with the app, and that may die at any moment.                      *)
(*                                                                         *)
(* Tasks are the commands of the window that run at the same time. A start  *)
(* holds the starting mutex from beginning to end; running is locked only   *)
(* to look at or swap the agent. Each agent has a reader of its own, which   *)
(* ends what the agent was asked when its output closes.                    *)
(*                                                                         *)
(* Abstracted: the kind of agent is whether a start asks for the one that   *)
(* runs; the MCP server, started and stopped with the agent, is not a state *)
(* of its own; a status is Ready or any of the others, which the code does  *)
(* not tell apart; the lines of the log shown during a start are left out.  *)
(***************************************************************************)
EXTENDS Naturals

CONSTANTS
  Tasks,         \* commands under way at the same time
  Agents,        \* the child processes that starts may launch, one each
  NoTask,        \* nobody holds the starting mutex
  NoAgent,       \* running is None
  MaxCalls       \* bound: commands called

ASSUME NoTaskAssumption == NoTask \notin Tasks
ASSUME NoAgentAssumption == NoAgent \notin Agents
ASSUME MaxCallsAssumption == MaxCalls \in Nat

VARIABLES
  task,       \* where each command stands
  starting,   \* who holds the starting mutex
  running,    \* the agent in use
  shutdowns,  \* the counter of shutdowns
  calls,      \* commands called so far
  status,     \* the last status told: Ready or another
  proc,       \* each child process: "none", "up", "dead", or "ended" by a shutdown
  reader,     \* the task that reads each agent
  shutting,   \* each agent's shutting_down flag
  pending,    \* whom each agent still has to answer
  exited      \* the app's process is gone

vars == <<task, starting, running, shutdowns, calls, status, proc, reader, shutting, pending, exited>>

Goals == {"start", "restart", "exit", "login", "turn"}
Asking == {"asks", "checked", "inserted", "waits"}
Killing == {"killing", "reaping"}
Places == {"out", "ending", "idling", "queued", "looking", "preparing",
           "settling", "undone"} \cup Asking \cup Killing
Statuses == {"ready", "other"}

\* A command that is not under way.
Out == [at |-> "out", goal |-> "start", agent |-> NoAgent, then |-> "out", seen |-> 0, reply |-> "none"]

Init ==
  /\ task = [t \in Tasks |-> Out]
  /\ starting = NoTask
  /\ running = NoAgent
  /\ shutdowns = 0
  /\ calls = 0
  /\ status = "other"
  /\ proc = [a \in Agents |-> "none"]
  /\ reader = [a \in Agents |-> "none"]
  /\ shutting = [a \in Agents |-> FALSE]
  /\ pending = [a \in Agents |-> {}]
  /\ exited = FALSE

\* agent_left has begun: the stopped flag of the connection.
Stopped(a) == reader[a] \in {"left", "drained", "telling", "gone"}
At(t, place) == ~exited /\ task[t].at = place
Put(t, command) == task' = [task EXCEPT ![t] = command]
Go(t, place) == Put(t, [task[t] EXCEPT !.at = place])
Leave(t) == Put(t, Out)
\* A start ends: its guard of the starting mutex is dropped.
Release(t) == Leave(t) /\ starting' = NoTask
Agentless == <<proc, reader, shutting, pending>>

\* A new command, as long as the app has not asked to exit.
Call(t, command) ==
  /\ At(t, "out") /\ calls < MaxCalls /\ \A u \in Tasks : task[u].goal # "exit"
  /\ calls' = calls + 1
  /\ Put(t, command)

CallStart(t) ==
  /\ Call(t, [Out EXCEPT !.at = "queued"])
  /\ UNCHANGED <<starting, running, shutdowns, status, exited, Agentless>>

\* shutdown, on its own when the app exits or as the first half of restart: it counts first.
CallShutdown(t, goal) ==
  /\ Call(t, [Out EXCEPT !.at = "ending", !.goal = goal])
  /\ shutdowns' = shutdowns + 1
  /\ UNCHANGED <<starting, running, status, exited, Agentless>>

\* What a shutdown is followed by: the start of a restart, or the end of the process.
AfterShutdown(t) ==
  /\ exited' = (task[t].goal = "exit")
  /\ Put(t, IF task[t].goal = "restart" THEN [Out EXCEPT !.at = "queued", !.goal = "restart"] ELSE Out)

ShutdownTakes(t) ==
  /\ At(t, "ending") /\ running # NoAgent
  /\ running' = NoAgent
  /\ Put(t, [task[t] EXCEPT !.at = "killing", !.agent = running, !.then = "idling"])
  /\ UNCHANGED <<starting, shutdowns, calls, status, exited, Agentless>>

ShutdownFindsNone(t) ==
  /\ At(t, "ending") /\ running = NoAgent
  /\ AfterShutdown(t)
  /\ UNCHANGED <<starting, running, shutdowns, calls, status, Agentless>>

ShutdownTells(t) ==
  /\ At(t, "idling")
  /\ status' = "other"
  /\ AfterShutdown(t)
  /\ UNCHANGED <<starting, running, shutdowns, calls, Agentless>>

\* Mutant: the process is killed without the flag.
KillUnflagged(t) == At(t, "killing") /\ Go(t, "reaping") /\ UNCHANGED <<starting, running, shutdowns, calls, status, exited, Agentless>>

\* AgentHandle::shutdown raises the flag before it kills the process and what it started.
Flag(t) ==
  /\ At(t, "killing")
  /\ shutting' = [shutting EXCEPT ![task[t].agent] = TRUE]
  /\ Go(t, "reaping")
  /\ UNCHANGED <<starting, running, shutdowns, calls, status, proc, reader, pending, exited>>

Reap(t) ==
  /\ At(t, "reaping")
  /\ proc' = [proc EXCEPT ![task[t].agent] = IF @ = "up" THEN "ended" ELSE @]
  /\ Put(t, [task[t] EXCEPT !.at = task[t].then, !.then = "out", !.agent = NoAgent])
  /\ UNCHANGED <<starting, running, shutdowns, calls, status, reader, shutting, pending, exited>>

\* Mutant: two starts at a time.
StartAnyway(t) ==
  /\ At(t, "queued")
  /\ starting' = t
  /\ Put(t, [task[t] EXCEPT !.at = "looking", !.seen = shutdowns])
  /\ UNCHANGED <<running, shutdowns, calls, status, exited, Agentless>>

StartLocks(t) ==
  /\ At(t, "queued") /\ starting = NoTask
  /\ starting' = t
  /\ Put(t, [task[t] EXCEPT !.at = "looking", !.seen = shutdowns])
  /\ UNCHANGED <<running, shutdowns, calls, status, exited, Agentless>>

\* The agent that runs is of the kind asked for, and Ready.
StartKeeps(t) ==
  /\ At(t, "looking") /\ running # NoAgent /\ status = "ready"
  /\ Release(t)
  /\ UNCHANGED <<running, shutdowns, calls, status, exited, Agentless>>

\* It is another kind, or not Ready: the start takes it away first.
StartReplaces(t) ==
  /\ At(t, "looking") /\ running # NoAgent
  /\ running' = NoAgent
  /\ Put(t, [task[t] EXCEPT !.at = "killing", !.agent = running, !.then = "preparing"])
  /\ UNCHANGED <<starting, shutdowns, calls, status, exited, Agentless>>

StartFindsNone(t) ==
  /\ At(t, "looking") /\ running = NoAgent
  /\ Go(t, "preparing")
  /\ UNCHANGED <<starting, running, shutdowns, calls, status, exited, Agentless>>

\* No Node, no profile, no folder, no tool server, or no process.
PrepareFails(t) ==
  /\ At(t, "preparing")
  /\ status' = "other"
  /\ Release(t)
  /\ UNCHANGED <<running, shutdowns, calls, exited, Agentless>>

Launch(t, a) ==
  /\ At(t, "preparing") /\ proc[a] = "none"
  /\ status' = "other"
  /\ proc' = [proc EXCEPT ![a] = "up"]
  /\ reader' = [reader EXCEPT ![a] = "reading"]
  /\ Put(t, [task[t] EXCEPT !.at = "asks", !.agent = a])
  /\ UNCHANGED <<starting, running, shutdowns, calls, shutting, pending, exited>>

\* authenticate and prompt keep the agent that runs when they look, whatever becomes of it.
CallAgent(t, goal) ==
  /\ running # NoAgent
  /\ goal = "turn" => status = "ready"
  /\ Call(t, [Out EXCEPT !.at = "asks", !.goal = goal, !.agent = running])
  /\ UNCHANGED <<starting, running, shutdowns, status, exited, Agentless>>

\* Shared::request: a first look at the flag, the insert, a second look, the write.
Check(t) ==
  /\ At(t, "asks")
  /\ Put(t, [task[t] EXCEPT !.at = IF Stopped(task[t].agent) THEN "waits" ELSE "checked",
                          !.reply = IF Stopped(task[t].agent) THEN "stopped" ELSE "none"])
  /\ UNCHANGED <<starting, running, shutdowns, calls, status, exited, Agentless>>

Insert(t) ==
  /\ At(t, "checked")
  /\ pending' = [pending EXCEPT ![task[t].agent] = @ \cup {t}]
  /\ Go(t, "inserted")
  /\ UNCHANGED <<starting, running, shutdowns, calls, status, proc, reader, shutting, exited>>

\* Mutant: no second look at the flag.
WriteAnyway(t, fails) ==
  /\ At(t, "inserted") /\ (fails => proc[task[t].agent] # "up")
  /\ Put(t, [task[t] EXCEPT !.at = "waits", !.reply = IF fails THEN "stopped" ELSE @])
  /\ pending' = IF fails THEN [pending EXCEPT ![task[t].agent] = @ \ {t}] ELSE pending
  /\ UNCHANGED <<starting, running, shutdowns, calls, status, proc, reader, shutting, exited>>

\* A write to an agent that is gone fails, unless something it started still holds the pipe.
Write(t, fails) ==
  /\ At(t, "inserted") /\ (fails => proc[task[t].agent] # "up")
  /\ LET gone == Stopped(task[t].agent) \/ fails
     IN /\ Put(t, [task[t] EXCEPT !.at = "waits", !.reply = IF gone THEN "stopped" ELSE @])
        /\ pending' = IF gone THEN [pending EXCEPT ![task[t].agent] = @ \ {t}] ELSE pending
  /\ UNCHANGED <<starting, running, shutdowns, calls, status, proc, reader, shutting, exited>>

\* The reader passes on an answer; the agent may have died since it gave it. A "no" refuses a login or
\* asks for a sign-in; to the handshake it is GreetFails.
Answer(a, t, reply) ==
  /\ reply = "no" => task[t].goal \in {"login", "turn"}
  /\ ~exited /\ reader[a] = "reading" /\ t \in pending[a] /\ task[t].at = "waits"
  /\ pending' = [pending EXCEPT ![a] = @ \ {t}]
  /\ Put(t, [task[t] EXCEPT !.reply = reply])
  /\ UNCHANGED <<starting, running, shutdowns, calls, status, proc, reader, shutting, exited>>

\* The handshake is over: answered by an agent that will do, or failed, unfit or timed out, which
\* kills it. The flag is not raised then.
Greeted(t) ==
  /\ At(t, "waits") /\ task[t].goal \in {"start", "restart"} /\ task[t].reply = "ok"
  /\ Go(t, "settling")
  /\ UNCHANGED <<starting, running, shutdowns, calls, status, exited, Agentless>>

\* Mutant: the agent whose handshake failed is not killed.
GreetForgets(t) ==
  /\ At(t, "waits") /\ task[t].goal \in {"start", "restart"}
  /\ pending' = [pending EXCEPT ![task[t].agent] = @ \ {t}]
  /\ status' = "other"
  /\ Release(t)
  /\ UNCHANGED <<running, shutdowns, calls, proc, reader, shutting, exited>>

GreetFails(t) ==
  /\ At(t, "waits") /\ task[t].goal \in {"start", "restart"}
  /\ proc' = [proc EXCEPT ![task[t].agent] = IF @ = "up" THEN "dead" ELSE @]
  /\ pending' = [pending EXCEPT ![task[t].agent] = @ \ {t}]
  /\ status' = "other"
  /\ Release(t)
  /\ UNCHANGED <<running, shutdowns, calls, reader, shutting, exited>>

\* Mutant: a start doesn't look at the shutdowns.
SettleAnyway(t) ==
  /\ At(t, "settling")
  /\ running' = task[t].agent
  /\ status' = "ready"
  /\ Release(t)
  /\ UNCHANGED <<shutdowns, calls, exited, Agentless>>

StartSettles(t) ==
  /\ At(t, "settling") /\ shutdowns = task[t].seen
  /\ running' = task[t].agent
  /\ status' = "ready"
  /\ Release(t)
  /\ UNCHANGED <<shutdowns, calls, exited, Agentless>>

\* A shutdown asked since the start began: the new agent goes at once.
StartOvertaken(t) ==
  /\ At(t, "settling") /\ shutdowns # task[t].seen
  /\ Put(t, [task[t] EXCEPT !.at = "killing", !.then = "undone"])
  /\ UNCHANGED <<starting, running, shutdowns, calls, status, exited, Agentless>>

StartUndone(t) ==
  /\ At(t, "undone")
  /\ status' = "other"
  /\ Release(t)
  /\ UNCHANGED <<running, shutdowns, calls, exited, Agentless>>

\* What authenticate and prompt make of the answer.
Answered(t) ==
  /\ At(t, "waits") /\ task[t].goal \in {"login", "turn"} /\ task[t].reply # "none"
  /\ status' = IF task[t].goal = "login" /\ task[t].reply = "ok" THEN "ready"
               ELSE IF task[t].goal = "turn" /\ task[t].reply = "no" THEN "other" ELSE status
  /\ Leave(t)
  /\ UNCHANGED <<starting, running, shutdowns, calls, exited, Agentless>>

\* The agent crashes, or notices that the app is gone.
Die(a) ==
  /\ proc[a] = "up"
  /\ proc' = [proc EXCEPT ![a] = "dead"]
  /\ UNCHANGED <<task, starting, running, shutdowns, calls, status, reader, shutting, pending, exited>>

ReaderMoves(a, from, to) ==
  /\ ~exited /\ reader[a] = from
  /\ reader' = [reader EXCEPT ![a] = to]
  /\ UNCHANGED <<starting, running, shutdowns, calls, proc, shutting, exited>>

\* agent_left, step by step.
ReaderLeaves(a) ==
  /\ proc[a] # "up" /\ ReaderMoves(a, "reading", "left")
  /\ UNCHANGED <<task, status, pending>>

\* Mutant: what was pending is dropped unanswered.
ReaderForgets(a) ==
  /\ ReaderMoves(a, "left", "drained")
  /\ pending' = [pending EXCEPT ![a] = {}]
  /\ UNCHANGED <<task, status>>

ReaderDrains(a) ==
  /\ ReaderMoves(a, "left", "drained")
  /\ task' = [t \in Tasks |-> IF t \in pending[a] THEN [task[t] EXCEPT !.reply = "stopped"] ELSE task[t]]
  /\ pending' = [pending EXCEPT ![a] = {}]
  /\ UNCHANGED status

ReaderLooks(a) ==
  /\ ReaderMoves(a, "drained", IF shutting[a] THEN "gone" ELSE "telling")
  /\ UNCHANGED <<task, status, pending>>

ReaderTells(a) ==
  /\ ReaderMoves(a, "telling", "gone")
  /\ status' = "other"
  /\ UNCHANGED <<task, pending>>

\* What a command that is under way does by itself.
Step(t) ==
  \/ ShutdownTakes(t) \/ ShutdownFindsNone(t) \/ ShutdownTells(t) \/ Flag(t) \/ Reap(t)
  \/ StartLocks(t) \/ StartKeeps(t) \/ StartReplaces(t) \/ StartFindsNone(t)
  \/ PrepareFails(t) \/ (\E a \in Agents : Launch(t, a))
  \/ Check(t) \/ Insert(t) \/ (\E fails \in BOOLEAN : Write(t, fails))
  \/ Greeted(t) \/ GreetFails(t) \/ StartSettles(t) \/ StartOvertaken(t)
  \/ StartUndone(t) \/ Answered(t)

ReaderStep(a) == ReaderLeaves(a) \/ ReaderDrains(a) \/ ReaderLooks(a) \/ ReaderTells(a)

AgentStep(a) ==
  \/ Die(a)
  \/ \E t \in Tasks, reply \in {"ok", "no"} : Answer(a, t, reply)
  \/ ReaderStep(a)

Next ==
  \/ \E t \in Tasks : CallStart(t) \/ Step(t)
  \/ \E t \in Tasks, goal \in {"restart", "exit"} : CallShutdown(t, goal)
  \/ \E t \in Tasks, goal \in {"login", "turn"} : CallAgent(t, goal)
  \/ \E a \in Agents : AgentStep(a)

\* The runtime runs every task that can go on; commands are bounded, so that the mutex of starts, first
\* come first served in the code, needs no more than that. The handshake has a timeout (GreetFails);
\* the agents owe no answer.
Fairness ==
  /\ \A t \in Tasks : WF_vars(Step(t))
  /\ \A a \in Agents : WF_vars(ReaderStep(a))

Spec == Init /\ [][Next]_vars
FairSpec == Spec /\ Fairness
-----------------------------------------------------------------------------
Commands == [at : Places, goal : Goals, agent : Agents \cup {NoAgent}, then : {"out", "idling", "preparing", "undone"},
             seen : 0..MaxCalls, reply : {"none", "ok", "no", "stopped"}]

TypeOK ==
  /\ task \in [Tasks -> Commands]
  /\ starting \in Tasks \cup {NoTask}
  /\ running \in Agents \cup {NoAgent}
  /\ shutdowns \in 0..MaxCalls
  /\ calls \in 0..MaxCalls
  /\ status \in Statuses
  /\ proc \in [Agents -> {"none", "up", "dead", "ended"}]
  /\ reader \in [Agents -> {"none", "reading", "left", "drained", "telling", "gone"}]
  /\ shutting \in [Agents -> BOOLEAN]
  /\ pending \in [Agents -> SUBSET Tasks]
  /\ exited \in BOOLEAN

\* Where a start has the mutex, and where a command has an agent that is its own to end or hand over.
Started(t) ==
  \/ task[t].at \in {"looking", "preparing", "settling", "undone"}
  \/ task[t].goal \in {"start", "restart"} /\ task[t].at \in Asking
  \/ task[t].at \in Killing /\ task[t].then \in {"preparing", "undone"}
Owns(t) ==
  \/ task[t].goal \in {"start", "restart"} /\ task[t].at \in Asking
  \/ task[t].at \in {"settling"} \cup Killing
\* Agents coming up.
Coming == {task[t].agent : t \in {u \in Tasks : Owns(u) /\ task[u].at \notin Killing}}

\* No process is forgotten (start, shutdown): one that lives is the agent in use, or some command
\* still has it and will hand it over or end it.
NoStrayAgent ==
  \A a \in Agents : proc[a] = "up" => running = a \/ \E t \in Tasks : Owns(t) /\ task[t].agent = a

\* The app never has two agents (start's mutex and its take of the old one): while one comes up,
\* none is in use, and no two come up at a time.
OneAgent ==
  /\ Coming # {} => running = NoAgent
  /\ \A a, b \in Coming : a = b

\* A request is never left behind by an agent that is gone (the second look of Shared::request):
\* once the reader has drained what was pending, whoever waits has its answer.
NobodyWaitsForTheGone ==
  \A t \in Tasks : task[t].at = "waits" /\ reader[task[t].agent] \in {"drained", "telling", "gone"} => task[t].reply # "none"

\* An agent that DBunny ends is not told of as one that stopped (AgentHandle::shutdown's flag).
EndsSilently == \A a \in Agents : reader[a] = "telling" => proc[a] # "ended"

\* A start that a shutdown overtook (the count it saw is not the count) never puts its agent in use.
OvertakenIsNotUsed ==
  [][\A t \in Tasks : Owns(t) /\ Started(t) /\ task[t].seen # shutdowns => running' # task[t].agent]_vars

\* What the exit handler says: the agent goes when the app does.
AgentGoesWithTheApp == exited => \A a \in Agents : proc[a] # "up"

\* Every command comes to an end, whatever the agent does (the handshake's timeout, the drain of
\* agent_left, the mutex of starts): only a login or a turn may wait, for an agent that lives.
CommandsEnd ==
  \A t \in Tasks : task[t].at # "out" ~>
    \/ task[t].at = "out" \/ exited
    \/ task[t].at = "waits" /\ task[t].goal \in {"login", "turn"} /\ proc[task[t].agent] = "up"
-----------------------------------------------------------------------------
\* The mutex is where the start is, and a start that went on has taken what ran.
StartInv ==
  /\ shutdowns <= calls
  /\ \A t \in Tasks : Started(t) <=> starting = t
  /\ \A t \in Tasks : Started(t) \/ task[t].at = "queued" => task[t].goal \in {"start", "restart"}
  /\ \A t \in Tasks : starting = t /\ task[t].at # "looking" => running = NoAgent

\* An agent has one owner at most, and the one in use has none.
OwnInv ==
  /\ running # NoAgent => proc[running] # "none"
  /\ \A t \in Tasks : Owns(t) => task[t].agent \in Agents /\ task[t].agent # running /\ proc[task[t].agent] # "none"
  /\ \A t, u \in Tasks : Owns(t) /\ Owns(u) /\ task[t].agent = task[u].agent => t = u

\* Whom an agent owes an answer; after its reader drained, only requests that will look again.
AskInv ==
  /\ \A t \in Tasks : task[t].at \in Asking => task[t].agent \in Agents /\ proc[task[t].agent] # "none"
  /\ \A t \in Tasks : task[t].at = "checked" => task[t].reply = "none"
  /\ \A t \in Tasks : task[t].at = "inserted" => t \in pending[task[t].agent] \/ Stopped(task[t].agent)
  /\ \A t \in Tasks : task[t].at = "waits" /\ task[t].reply = "none" => t \in pending[task[t].agent]
  /\ \A a \in Agents : \A t \in pending[a] :
        /\ task[t].agent = a /\ task[t].at \in {"inserted", "waits"} /\ task[t].reply = "none"
        /\ reader[a] \in {"drained", "telling", "gone"} => task[t].at = "inserted"

\* A reader leaves when its agent is gone, and the flag is up before an agent is ended.
ReaderInv ==
  /\ \A a \in Agents : reader[a] = "none" <=> proc[a] = "none"
  /\ \A a \in Agents : Stopped(a) => proc[a] # "up"
  /\ \A a \in Agents : proc[a] = "ended" => shutting[a]
  /\ \A t \in Tasks : task[t].at = "reaping" => shutting[task[t].agent]

IInv == TypeOK /\ StartInv /\ OwnInv /\ AskInv /\ ReaderInv /\ NoStrayAgent /\ EndsSilently
=============================================================================
