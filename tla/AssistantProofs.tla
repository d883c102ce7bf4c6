-------------------------- MODULE AssistantProofs --------------------------
(***************************************************************************)
(* Proofs about the assistant: AssistantAgent, for every set of commands    *)
(* and agents, and AssistantTools, for every set of calls, conversations    *)
(* and sessions.  The two share nothing; what they do to each other is an   *)
(* action of the one that it is done to.                                   *)
(***************************************************************************)
EXTENDS AssistantAgent, AssistantTools, TLAPS

---------------------------------------------------------------------------
(* The agent: each part of the inductive invariant has a lemma with one step *)
(* per action; the theorems follow from the whole.                          *)

\* Every step keeps the types.
LEMMA TypeStep ==
    ASSUME IInv, [Next]_vars
    PROVE  TypeOK'
<1> USE NoTaskAssumption, NoAgentAssumption, MaxCallsAssumption
    DEF IInv, TypeOK, StartInv, OwnInv, AskInv, Owns, vars, Agentless, Asking, Killing, Goals, Places, Statuses
<1>1. ASSUME NEW t \in Tasks, CallStart(t) PROVE TypeOK'
  <2>a. task[t] \in Commands /\ Out \in Commands
    BY DEF Commands, Out
  <2>b. [Out EXCEPT !.at = "queued"] \in Commands
    BY <2>a, <1>1 DEF Commands, Out, CallStart, Call, At, Put
  <2>1. task' \in [Tasks -> Commands]
    BY <2>a, <2>b, <1>1 DEF CallStart, Call, At, Put
  <2>2. /\ starting' \in Tasks \cup {NoTask} /\ running' \in Agents \cup {NoAgent}
        /\ shutdowns' \in 0..MaxCalls /\ calls' \in 0..MaxCalls
    BY <1>1 DEF Commands, CallStart, Call, At, Put
  <2>3. status' \in Statuses /\ exited' \in BOOLEAN
    BY <1>1 DEF CallStart, Call, At, Put
  <2>4. /\ pending' \in [Agents -> SUBSET Tasks]
        /\ proc' \in [Agents -> {"none", "up", "dead", "ended"}]
        /\ reader' \in [Agents -> {"none", "reading", "left", "drained", "telling", "gone"}]
        /\ shutting' \in [Agents -> BOOLEAN]
    BY <1>1 DEF Commands, CallStart, Call, At, Put
  <2> QED
    BY <2>1, <2>2, <2>3, <2>4
<1>2. ASSUME NEW t \in Tasks, NEW goal \in {"restart", "exit"}, CallShutdown(t, goal) PROVE TypeOK'
  <2>a. task[t] \in Commands /\ Out \in Commands
    BY DEF Commands, Out
  <2>b. [Out EXCEPT !.at = "ending", !.goal = goal] \in Commands
    BY <2>a, <1>2 DEF Commands, Out, CallShutdown, Call, At, Put
  <2>1. task' \in [Tasks -> Commands]
    BY <2>a, <2>b, <1>2 DEF CallShutdown, Call, At, Put
  <2>2. /\ starting' \in Tasks \cup {NoTask} /\ running' \in Agents \cup {NoAgent}
        /\ shutdowns' \in 0..MaxCalls /\ calls' \in 0..MaxCalls
    BY <1>2 DEF Commands, CallShutdown, Call, At, Put
  <2>3. status' \in Statuses /\ exited' \in BOOLEAN
    BY <1>2 DEF CallShutdown, Call, At, Put
  <2>4. /\ pending' \in [Agents -> SUBSET Tasks]
        /\ proc' \in [Agents -> {"none", "up", "dead", "ended"}]
        /\ reader' \in [Agents -> {"none", "reading", "left", "drained", "telling", "gone"}]
        /\ shutting' \in [Agents -> BOOLEAN]
    BY <1>2 DEF Commands, CallShutdown, Call, At, Put
  <2> QED
    BY <2>1, <2>2, <2>3, <2>4
<1>3. ASSUME NEW t \in Tasks, NEW goal \in {"login", "turn"}, CallAgent(t, goal) PROVE TypeOK'
  <2>a. task[t] \in Commands /\ Out \in Commands
    BY DEF Commands, Out
  <2>b. [Out EXCEPT !.at = "asks", !.goal = goal, !.agent = running] \in Commands
    BY <2>a, <1>3 DEF Commands, Out, CallAgent, Call, At, Put
  <2>1. task' \in [Tasks -> Commands]
    BY <2>a, <2>b, <1>3 DEF CallAgent, Call, At, Put
  <2>2. /\ starting' \in Tasks \cup {NoTask} /\ running' \in Agents \cup {NoAgent}
        /\ shutdowns' \in 0..MaxCalls /\ calls' \in 0..MaxCalls
    BY <1>3 DEF Commands, CallAgent, Call, At, Put
  <2>3. status' \in Statuses /\ exited' \in BOOLEAN
    BY <1>3 DEF CallAgent, Call, At, Put
  <2>4. /\ pending' \in [Agents -> SUBSET Tasks]
        /\ proc' \in [Agents -> {"none", "up", "dead", "ended"}]
        /\ reader' \in [Agents -> {"none", "reading", "left", "drained", "telling", "gone"}]
        /\ shutting' \in [Agents -> BOOLEAN]
    BY <1>3 DEF Commands, CallAgent, Call, At, Put
  <2> QED
    BY <2>1, <2>2, <2>3, <2>4
<1>4. ASSUME NEW t \in Tasks, ShutdownTakes(t) PROVE TypeOK'
  <2>a. task[t] \in Commands /\ Out \in Commands
    BY DEF Commands, Out
  <2>b. [task[t] EXCEPT !.at = "killing", !.agent = running, !.then = "idling"] \in Commands
    BY <2>a, <1>4 DEF Commands, Out, ShutdownTakes, At, Put
  <2>1. task' \in [Tasks -> Commands]
    BY <2>a, <2>b, <1>4 DEF ShutdownTakes, At, Put
  <2>2. /\ starting' \in Tasks \cup {NoTask} /\ running' \in Agents \cup {NoAgent}
        /\ shutdowns' \in 0..MaxCalls /\ calls' \in 0..MaxCalls
    BY <1>4 DEF Commands, ShutdownTakes, At, Put
  <2>3. status' \in Statuses /\ exited' \in BOOLEAN
    BY <1>4 DEF ShutdownTakes, At, Put
  <2>4. /\ pending' \in [Agents -> SUBSET Tasks]
        /\ proc' \in [Agents -> {"none", "up", "dead", "ended"}]
        /\ reader' \in [Agents -> {"none", "reading", "left", "drained", "telling", "gone"}]
        /\ shutting' \in [Agents -> BOOLEAN]
    BY <1>4 DEF Commands, ShutdownTakes, At, Put
  <2> QED
    BY <2>1, <2>2, <2>3, <2>4
<1>5. ASSUME NEW t \in Tasks, ShutdownFindsNone(t) PROVE TypeOK'
  <2>a. task[t] \in Commands /\ Out \in Commands
    BY DEF Commands, Out
  <2>c. [Out EXCEPT !.at = "queued", !.goal = "restart"] \in Commands
    BY <2>a, <1>5 DEF Commands, Out, ShutdownFindsNone, AfterShutdown, At, Put
  <2>1. task' \in [Tasks -> Commands]
    BY <2>a, <2>c, <1>5 DEF ShutdownFindsNone, AfterShutdown, At, Put
  <2>2. /\ starting' \in Tasks \cup {NoTask} /\ running' \in Agents \cup {NoAgent}
        /\ shutdowns' \in 0..MaxCalls /\ calls' \in 0..MaxCalls
    BY <1>5 DEF Commands, ShutdownFindsNone, AfterShutdown, At, Put
  <2>3. status' \in Statuses /\ exited' \in BOOLEAN
    BY <1>5 DEF ShutdownFindsNone, AfterShutdown, At, Put
  <2>4. /\ pending' \in [Agents -> SUBSET Tasks]
        /\ proc' \in [Agents -> {"none", "up", "dead", "ended"}]
        /\ reader' \in [Agents -> {"none", "reading", "left", "drained", "telling", "gone"}]
        /\ shutting' \in [Agents -> BOOLEAN]
    BY <1>5 DEF Commands, ShutdownFindsNone, AfterShutdown, At, Put
  <2> QED
    BY <2>1, <2>2, <2>3, <2>4
<1>6. ASSUME NEW t \in Tasks, ShutdownTells(t) PROVE TypeOK'
  <2>a. task[t] \in Commands /\ Out \in Commands
    BY DEF Commands, Out
  <2>c. [Out EXCEPT !.at = "queued", !.goal = "restart"] \in Commands
    BY <2>a, <1>6 DEF Commands, Out, ShutdownTells, AfterShutdown, At, Put
  <2>1. task' \in [Tasks -> Commands]
    BY <2>a, <2>c, <1>6 DEF ShutdownTells, AfterShutdown, At, Put
  <2>2. /\ starting' \in Tasks \cup {NoTask} /\ running' \in Agents \cup {NoAgent}
        /\ shutdowns' \in 0..MaxCalls /\ calls' \in 0..MaxCalls
    BY <1>6 DEF Commands, ShutdownTells, AfterShutdown, At, Put
  <2>3. status' \in Statuses /\ exited' \in BOOLEAN
    BY <1>6 DEF ShutdownTells, AfterShutdown, At, Put
  <2>4. /\ pending' \in [Agents -> SUBSET Tasks]
        /\ proc' \in [Agents -> {"none", "up", "dead", "ended"}]
        /\ reader' \in [Agents -> {"none", "reading", "left", "drained", "telling", "gone"}]
        /\ shutting' \in [Agents -> BOOLEAN]
    BY <1>6 DEF Commands, ShutdownTells, AfterShutdown, At, Put
  <2> QED
    BY <2>1, <2>2, <2>3, <2>4
<1>7. ASSUME NEW t \in Tasks, Flag(t) PROVE TypeOK'
  <2>a. task[t] \in Commands /\ Out \in Commands
    BY DEF Commands, Out
  <2>b. [task[t] EXCEPT !.at = "reaping"] \in Commands
    BY <2>a, <1>7 DEF Commands, Out, Flag, At, Go, Put
  <2>1. task' \in [Tasks -> Commands]
    BY <2>a, <2>b, <1>7 DEF Flag, At, Go, Put
  <2>2. /\ starting' \in Tasks \cup {NoTask} /\ running' \in Agents \cup {NoAgent}
        /\ shutdowns' \in 0..MaxCalls /\ calls' \in 0..MaxCalls
    BY <1>7 DEF Commands, Flag, At, Go, Put
  <2>3. status' \in Statuses /\ exited' \in BOOLEAN
    BY <1>7 DEF Flag, At, Go, Put
  <2>4. /\ pending' \in [Agents -> SUBSET Tasks]
        /\ proc' \in [Agents -> {"none", "up", "dead", "ended"}]
        /\ reader' \in [Agents -> {"none", "reading", "left", "drained", "telling", "gone"}]
        /\ shutting' \in [Agents -> BOOLEAN]
    BY <1>7 DEF Commands, Flag, At, Go, Put
  <2> QED
    BY <2>1, <2>2, <2>3, <2>4
<1>8. ASSUME NEW t \in Tasks, Reap(t) PROVE TypeOK'
  <2>a. task[t] \in Commands /\ Out \in Commands
    BY DEF Commands, Out
  <2>b. [task[t] EXCEPT !.at = task[t].then, !.then = "out", !.agent = NoAgent] \in Commands
    BY <2>a, <1>8 DEF Commands, Out, Reap, At, Put
  <2>1. task' \in [Tasks -> Commands]
    BY <2>a, <2>b, <1>8 DEF Reap, At, Put
  <2>2. /\ starting' \in Tasks \cup {NoTask} /\ running' \in Agents \cup {NoAgent}
        /\ shutdowns' \in 0..MaxCalls /\ calls' \in 0..MaxCalls
    BY <1>8 DEF Commands, Reap, At, Put
  <2>3. status' \in Statuses /\ exited' \in BOOLEAN
    BY <1>8 DEF Reap, At, Put
  <2>4. /\ pending' \in [Agents -> SUBSET Tasks]
        /\ proc' \in [Agents -> {"none", "up", "dead", "ended"}]
        /\ reader' \in [Agents -> {"none", "reading", "left", "drained", "telling", "gone"}]
        /\ shutting' \in [Agents -> BOOLEAN]
    BY <1>8 DEF Commands, Reap, At, Put
  <2> QED
    BY <2>1, <2>2, <2>3, <2>4
<1>9. ASSUME NEW t \in Tasks, StartLocks(t) PROVE TypeOK'
  <2>a. task[t] \in Commands /\ Out \in Commands
    BY DEF Commands, Out
  <2>b. [task[t] EXCEPT !.at = "looking", !.seen = shutdowns] \in Commands
    BY <2>a, <1>9 DEF Commands, Out, StartLocks, At, Put
  <2>1. task' \in [Tasks -> Commands]
    BY <2>a, <2>b, <1>9 DEF StartLocks, At, Put
  <2>2. /\ starting' \in Tasks \cup {NoTask} /\ running' \in Agents \cup {NoAgent}
        /\ shutdowns' \in 0..MaxCalls /\ calls' \in 0..MaxCalls
    BY <1>9 DEF Commands, StartLocks, At, Put
  <2>3. status' \in Statuses /\ exited' \in BOOLEAN
    BY <1>9 DEF StartLocks, At, Put
  <2>4. /\ pending' \in [Agents -> SUBSET Tasks]
        /\ proc' \in [Agents -> {"none", "up", "dead", "ended"}]
        /\ reader' \in [Agents -> {"none", "reading", "left", "drained", "telling", "gone"}]
        /\ shutting' \in [Agents -> BOOLEAN]
    BY <1>9 DEF Commands, StartLocks, At, Put
  <2> QED
    BY <2>1, <2>2, <2>3, <2>4
<1>10. ASSUME NEW t \in Tasks, StartKeeps(t) PROVE TypeOK'
  <2>a. task[t] \in Commands /\ Out \in Commands
    BY DEF Commands, Out
  <2>1. task' \in [Tasks -> Commands]
    BY <2>a, <1>10 DEF StartKeeps, At, Release, Leave, Put
  <2>2. /\ starting' \in Tasks \cup {NoTask} /\ running' \in Agents \cup {NoAgent}
        /\ shutdowns' \in 0..MaxCalls /\ calls' \in 0..MaxCalls
    BY <1>10 DEF Commands, StartKeeps, At, Release, Leave, Put
  <2>3. status' \in Statuses /\ exited' \in BOOLEAN
    BY <1>10 DEF StartKeeps, At, Release, Leave, Put
  <2>4. /\ pending' \in [Agents -> SUBSET Tasks]
        /\ proc' \in [Agents -> {"none", "up", "dead", "ended"}]
        /\ reader' \in [Agents -> {"none", "reading", "left", "drained", "telling", "gone"}]
        /\ shutting' \in [Agents -> BOOLEAN]
    BY <1>10 DEF Commands, StartKeeps, At, Release, Leave, Put
  <2> QED
    BY <2>1, <2>2, <2>3, <2>4
<1>11. ASSUME NEW t \in Tasks, StartReplaces(t) PROVE TypeOK'
  <2>a. task[t] \in Commands /\ Out \in Commands
    BY DEF Commands, Out
  <2>b. [task[t] EXCEPT !.at = "killing", !.agent = running, !.then = "preparing"] \in Commands
    BY <2>a, <1>11 DEF Commands, Out, StartReplaces, At, Put
  <2>1. task' \in [Tasks -> Commands]
    BY <2>a, <2>b, <1>11 DEF StartReplaces, At, Put
  <2>2. /\ starting' \in Tasks \cup {NoTask} /\ running' \in Agents \cup {NoAgent}
        /\ shutdowns' \in 0..MaxCalls /\ calls' \in 0..MaxCalls
    BY <1>11 DEF Commands, StartReplaces, At, Put
  <2>3. status' \in Statuses /\ exited' \in BOOLEAN
    BY <1>11 DEF StartReplaces, At, Put
  <2>4. /\ pending' \in [Agents -> SUBSET Tasks]
        /\ proc' \in [Agents -> {"none", "up", "dead", "ended"}]
        /\ reader' \in [Agents -> {"none", "reading", "left", "drained", "telling", "gone"}]
        /\ shutting' \in [Agents -> BOOLEAN]
    BY <1>11 DEF Commands, StartReplaces, At, Put
  <2> QED
    BY <2>1, <2>2, <2>3, <2>4
<1>12. ASSUME NEW t \in Tasks, StartFindsNone(t) PROVE TypeOK'
  <2>a. task[t] \in Commands /\ Out \in Commands
    BY DEF Commands, Out
  <2>b. [task[t] EXCEPT !.at = "preparing"] \in Commands
    BY <2>a, <1>12 DEF Commands, Out, StartFindsNone, At, Go, Put
  <2>1. task' \in [Tasks -> Commands]
    BY <2>a, <2>b, <1>12 DEF StartFindsNone, At, Go, Put
  <2>2. /\ starting' \in Tasks \cup {NoTask} /\ running' \in Agents \cup {NoAgent}
        /\ shutdowns' \in 0..MaxCalls /\ calls' \in 0..MaxCalls
    BY <1>12 DEF Commands, StartFindsNone, At, Go, Put
  <2>3. status' \in Statuses /\ exited' \in BOOLEAN
    BY <1>12 DEF StartFindsNone, At, Go, Put
  <2>4. /\ pending' \in [Agents -> SUBSET Tasks]
        /\ proc' \in [Agents -> {"none", "up", "dead", "ended"}]
        /\ reader' \in [Agents -> {"none", "reading", "left", "drained", "telling", "gone"}]
        /\ shutting' \in [Agents -> BOOLEAN]
    BY <1>12 DEF Commands, StartFindsNone, At, Go, Put
  <2> QED
    BY <2>1, <2>2, <2>3, <2>4
<1>13. ASSUME NEW t \in Tasks, PrepareFails(t) PROVE TypeOK'
  <2>a. task[t] \in Commands /\ Out \in Commands
    BY DEF Commands, Out
  <2>1. task' \in [Tasks -> Commands]
    BY <2>a, <1>13 DEF PrepareFails, At, Release, Leave, Put
  <2>2. /\ starting' \in Tasks \cup {NoTask} /\ running' \in Agents \cup {NoAgent}
        /\ shutdowns' \in 0..MaxCalls /\ calls' \in 0..MaxCalls
    BY <1>13 DEF Commands, PrepareFails, At, Release, Leave, Put
  <2>3. status' \in Statuses /\ exited' \in BOOLEAN
    BY <1>13 DEF PrepareFails, At, Release, Leave, Put
  <2>4. /\ pending' \in [Agents -> SUBSET Tasks]
        /\ proc' \in [Agents -> {"none", "up", "dead", "ended"}]
        /\ reader' \in [Agents -> {"none", "reading", "left", "drained", "telling", "gone"}]
        /\ shutting' \in [Agents -> BOOLEAN]
    BY <1>13 DEF Commands, PrepareFails, At, Release, Leave, Put
  <2> QED
    BY <2>1, <2>2, <2>3, <2>4
<1>14. ASSUME NEW t \in Tasks, NEW a \in Agents, Launch(t, a) PROVE TypeOK'
  <2>a. task[t] \in Commands /\ Out \in Commands
    BY DEF Commands, Out
  <2>b. [task[t] EXCEPT !.at = "asks", !.agent = a] \in Commands
    BY <2>a, <1>14 DEF Commands, Out, Launch, At, Put
  <2>1. task' \in [Tasks -> Commands]
    BY <2>a, <2>b, <1>14 DEF Launch, At, Put
  <2>2. /\ starting' \in Tasks \cup {NoTask} /\ running' \in Agents \cup {NoAgent}
        /\ shutdowns' \in 0..MaxCalls /\ calls' \in 0..MaxCalls
    BY <1>14 DEF Commands, Launch, At, Put
  <2>3. status' \in Statuses /\ exited' \in BOOLEAN
    BY <1>14 DEF Launch, At, Put
  <2>4. /\ pending' \in [Agents -> SUBSET Tasks]
        /\ proc' \in [Agents -> {"none", "up", "dead", "ended"}]
        /\ reader' \in [Agents -> {"none", "reading", "left", "drained", "telling", "gone"}]
        /\ shutting' \in [Agents -> BOOLEAN]
    BY <1>14 DEF Commands, Launch, At, Put
  <2> QED
    BY <2>1, <2>2, <2>3, <2>4
<1>15. ASSUME NEW t \in Tasks, Check(t) PROVE TypeOK'
  <2>a. task[t] \in Commands /\ Out \in Commands
    BY DEF Commands, Out
  <2>b. [task[t] EXCEPT !.at = IF Stopped(task[t].agent) THEN "waits" ELSE "checked", !.reply = IF Stopped(task[t].agent) THEN "stopped" ELSE "none"] \in Commands
    BY <2>a, <1>15 DEF Commands, Out, Check, At, Put
  <2>1. task' \in [Tasks -> Commands]
    BY <2>a, <2>b, <1>15 DEF Check, At, Put
  <2>2. /\ starting' \in Tasks \cup {NoTask} /\ running' \in Agents \cup {NoAgent}
        /\ shutdowns' \in 0..MaxCalls /\ calls' \in 0..MaxCalls
    BY <1>15 DEF Commands, Check, At, Put
  <2>3. status' \in Statuses /\ exited' \in BOOLEAN
    BY <1>15 DEF Check, At, Put
  <2>4. /\ pending' \in [Agents -> SUBSET Tasks]
        /\ proc' \in [Agents -> {"none", "up", "dead", "ended"}]
        /\ reader' \in [Agents -> {"none", "reading", "left", "drained", "telling", "gone"}]
        /\ shutting' \in [Agents -> BOOLEAN]
    BY <1>15 DEF Commands, Check, At, Put
  <2> QED
    BY <2>1, <2>2, <2>3, <2>4
<1>16. ASSUME NEW t \in Tasks, Insert(t) PROVE TypeOK'
  <2>a. task[t] \in Commands /\ Out \in Commands
    BY DEF Commands, Out
  <2>b. [task[t] EXCEPT !.at = "inserted"] \in Commands
    BY <2>a, <1>16 DEF Commands, Out, Insert, At, Go, Put
  <2>1. task' \in [Tasks -> Commands]
    BY <2>a, <2>b, <1>16 DEF Insert, At, Go, Put
  <2>2. /\ starting' \in Tasks \cup {NoTask} /\ running' \in Agents \cup {NoAgent}
        /\ shutdowns' \in 0..MaxCalls /\ calls' \in 0..MaxCalls
    BY <1>16 DEF Commands, Insert, At, Go, Put
  <2>3. status' \in Statuses /\ exited' \in BOOLEAN
    BY <1>16 DEF Insert, At, Go, Put
  <2>4. /\ pending' \in [Agents -> SUBSET Tasks]
        /\ proc' \in [Agents -> {"none", "up", "dead", "ended"}]
        /\ reader' \in [Agents -> {"none", "reading", "left", "drained", "telling", "gone"}]
        /\ shutting' \in [Agents -> BOOLEAN]
    BY <1>16 DEF Commands, Insert, At, Go, Put
  <2> QED
    BY <2>1, <2>2, <2>3, <2>4
<1>17. ASSUME NEW t \in Tasks, NEW fails \in BOOLEAN, Write(t, fails) PROVE TypeOK'
  <2>a. task[t] \in Commands /\ Out \in Commands
    BY DEF Commands, Out
  <2>b. [task[t] EXCEPT !.at = "waits", !.reply = "stopped"] \in Commands
    BY <2>a, <1>17 DEF Commands, Out, Write, At, Put
  <2>c. [task[t] EXCEPT !.at = "waits", !.reply = task[t].reply] \in Commands
    BY <2>a, <1>17 DEF Commands, Out, Write, At, Put
  <2>1. task' \in [Tasks -> Commands]
    BY <2>a, <2>b, <2>c, <1>17 DEF Write, At, Put
  <2>2. /\ starting' \in Tasks \cup {NoTask} /\ running' \in Agents \cup {NoAgent}
        /\ shutdowns' \in 0..MaxCalls /\ calls' \in 0..MaxCalls
    BY <1>17 DEF Commands, Write, At, Put
  <2>3. status' \in Statuses /\ exited' \in BOOLEAN
    BY <1>17 DEF Write, At, Put
  <2>4. /\ pending' \in [Agents -> SUBSET Tasks]
        /\ proc' \in [Agents -> {"none", "up", "dead", "ended"}]
        /\ reader' \in [Agents -> {"none", "reading", "left", "drained", "telling", "gone"}]
        /\ shutting' \in [Agents -> BOOLEAN]
    BY <1>17 DEF Commands, Write, At, Put
  <2> QED
    BY <2>1, <2>2, <2>3, <2>4
<1>18. ASSUME NEW t \in Tasks, Greeted(t) PROVE TypeOK'
  <2>a. task[t] \in Commands /\ Out \in Commands
    BY DEF Commands, Out
  <2>b. [task[t] EXCEPT !.at = "settling"] \in Commands
    BY <2>a, <1>18 DEF Commands, Out, Greeted, At, Go, Put
  <2>1. task' \in [Tasks -> Commands]
    BY <2>a, <2>b, <1>18 DEF Greeted, At, Go, Put
  <2>2. /\ starting' \in Tasks \cup {NoTask} /\ running' \in Agents \cup {NoAgent}
        /\ shutdowns' \in 0..MaxCalls /\ calls' \in 0..MaxCalls
    BY <1>18 DEF Commands, Greeted, At, Go, Put
  <2>3. status' \in Statuses /\ exited' \in BOOLEAN
    BY <1>18 DEF Greeted, At, Go, Put
  <2>4. /\ pending' \in [Agents -> SUBSET Tasks]
        /\ proc' \in [Agents -> {"none", "up", "dead", "ended"}]
        /\ reader' \in [Agents -> {"none", "reading", "left", "drained", "telling", "gone"}]
        /\ shutting' \in [Agents -> BOOLEAN]
    BY <1>18 DEF Commands, Greeted, At, Go, Put
  <2> QED
    BY <2>1, <2>2, <2>3, <2>4
<1>19. ASSUME NEW t \in Tasks, GreetFails(t) PROVE TypeOK'
  <2>a. task[t] \in Commands /\ Out \in Commands
    BY DEF Commands, Out
  <2>1. task' \in [Tasks -> Commands]
    BY <2>a, <1>19 DEF GreetFails, At, Release, Leave, Put
  <2>2. /\ starting' \in Tasks \cup {NoTask} /\ running' \in Agents \cup {NoAgent}
        /\ shutdowns' \in 0..MaxCalls /\ calls' \in 0..MaxCalls
    BY <1>19 DEF Commands, GreetFails, At, Release, Leave, Put
  <2>3. status' \in Statuses /\ exited' \in BOOLEAN
    BY <1>19 DEF GreetFails, At, Release, Leave, Put
  <2>4. /\ pending' \in [Agents -> SUBSET Tasks]
        /\ proc' \in [Agents -> {"none", "up", "dead", "ended"}]
        /\ reader' \in [Agents -> {"none", "reading", "left", "drained", "telling", "gone"}]
        /\ shutting' \in [Agents -> BOOLEAN]
    BY <1>19 DEF Commands, GreetFails, At, Release, Leave, Put
  <2> QED
    BY <2>1, <2>2, <2>3, <2>4
<1>20. ASSUME NEW t \in Tasks, StartSettles(t) PROVE TypeOK'
  <2>a. task[t] \in Commands /\ Out \in Commands
    BY DEF Commands, Out
  <2>1. task' \in [Tasks -> Commands]
    BY <2>a, <1>20 DEF StartSettles, At, Release, Leave, Put
  <2>2. /\ starting' \in Tasks \cup {NoTask} /\ running' \in Agents \cup {NoAgent}
        /\ shutdowns' \in 0..MaxCalls /\ calls' \in 0..MaxCalls
    BY <1>20 DEF Commands, StartSettles, At, Release, Leave, Put
  <2>3. status' \in Statuses /\ exited' \in BOOLEAN
    BY <1>20 DEF StartSettles, At, Release, Leave, Put
  <2>4. /\ pending' \in [Agents -> SUBSET Tasks]
        /\ proc' \in [Agents -> {"none", "up", "dead", "ended"}]
        /\ reader' \in [Agents -> {"none", "reading", "left", "drained", "telling", "gone"}]
        /\ shutting' \in [Agents -> BOOLEAN]
    BY <1>20 DEF Commands, StartSettles, At, Release, Leave, Put
  <2> QED
    BY <2>1, <2>2, <2>3, <2>4
<1>21. ASSUME NEW t \in Tasks, StartOvertaken(t) PROVE TypeOK'
  <2>a. task[t] \in Commands /\ Out \in Commands
    BY DEF Commands, Out
  <2>b. [task[t] EXCEPT !.at = "killing", !.then = "undone"] \in Commands
    BY <2>a, <1>21 DEF Commands, Out, StartOvertaken, At, Put
  <2>1. task' \in [Tasks -> Commands]
    BY <2>a, <2>b, <1>21 DEF StartOvertaken, At, Put
  <2>2. /\ starting' \in Tasks \cup {NoTask} /\ running' \in Agents \cup {NoAgent}
        /\ shutdowns' \in 0..MaxCalls /\ calls' \in 0..MaxCalls
    BY <1>21 DEF Commands, StartOvertaken, At, Put
  <2>3. status' \in Statuses /\ exited' \in BOOLEAN
    BY <1>21 DEF StartOvertaken, At, Put
  <2>4. /\ pending' \in [Agents -> SUBSET Tasks]
        /\ proc' \in [Agents -> {"none", "up", "dead", "ended"}]
        /\ reader' \in [Agents -> {"none", "reading", "left", "drained", "telling", "gone"}]
        /\ shutting' \in [Agents -> BOOLEAN]
    BY <1>21 DEF Commands, StartOvertaken, At, Put
  <2> QED
    BY <2>1, <2>2, <2>3, <2>4
<1>22. ASSUME NEW t \in Tasks, StartUndone(t) PROVE TypeOK'
  <2>a. task[t] \in Commands /\ Out \in Commands
    BY DEF Commands, Out
  <2>1. task' \in [Tasks -> Commands]
    BY <2>a, <1>22 DEF StartUndone, At, Release, Leave, Put
  <2>2. /\ starting' \in Tasks \cup {NoTask} /\ running' \in Agents \cup {NoAgent}
        /\ shutdowns' \in 0..MaxCalls /\ calls' \in 0..MaxCalls
    BY <1>22 DEF Commands, StartUndone, At, Release, Leave, Put
  <2>3. status' \in Statuses /\ exited' \in BOOLEAN
    BY <1>22 DEF StartUndone, At, Release, Leave, Put
  <2>4. /\ pending' \in [Agents -> SUBSET Tasks]
        /\ proc' \in [Agents -> {"none", "up", "dead", "ended"}]
        /\ reader' \in [Agents -> {"none", "reading", "left", "drained", "telling", "gone"}]
        /\ shutting' \in [Agents -> BOOLEAN]
    BY <1>22 DEF Commands, StartUndone, At, Release, Leave, Put
  <2> QED
    BY <2>1, <2>2, <2>3, <2>4
<1>23. ASSUME NEW t \in Tasks, Answered(t) PROVE TypeOK'
  <2>a. task[t] \in Commands /\ Out \in Commands
    BY DEF Commands, Out
  <2>1. task' \in [Tasks -> Commands]
    BY <2>a, <1>23 DEF Answered, At, Leave, Put
  <2>2. /\ starting' \in Tasks \cup {NoTask} /\ running' \in Agents \cup {NoAgent}
        /\ shutdowns' \in 0..MaxCalls /\ calls' \in 0..MaxCalls
    BY <1>23 DEF Commands, Answered, At, Leave, Put
  <2>3. status' \in Statuses /\ exited' \in BOOLEAN
    BY <1>23 DEF Answered, At, Leave, Put
  <2>4. /\ pending' \in [Agents -> SUBSET Tasks]
        /\ proc' \in [Agents -> {"none", "up", "dead", "ended"}]
        /\ reader' \in [Agents -> {"none", "reading", "left", "drained", "telling", "gone"}]
        /\ shutting' \in [Agents -> BOOLEAN]
    BY <1>23 DEF Commands, Answered, At, Leave, Put
  <2> QED
    BY <2>1, <2>2, <2>3, <2>4
<1>24. ASSUME NEW a \in Agents, Die(a) PROVE TypeOK'
  <2>1. task' \in [Tasks -> Commands]
    BY <1>24 DEF Die, Put
  <2>2. /\ starting' \in Tasks \cup {NoTask} /\ running' \in Agents \cup {NoAgent}
        /\ shutdowns' \in 0..MaxCalls /\ calls' \in 0..MaxCalls
    BY <1>24 DEF Commands, Die, Put
  <2>3. status' \in Statuses /\ exited' \in BOOLEAN
    BY <1>24 DEF Die, Put
  <2>4. /\ pending' \in [Agents -> SUBSET Tasks]
        /\ proc' \in [Agents -> {"none", "up", "dead", "ended"}]
        /\ reader' \in [Agents -> {"none", "reading", "left", "drained", "telling", "gone"}]
        /\ shutting' \in [Agents -> BOOLEAN]
    BY <1>24 DEF Commands, Die, Put
  <2> QED
    BY <2>1, <2>2, <2>3, <2>4
<1>25. ASSUME NEW a \in Agents, NEW t \in Tasks, NEW reply \in {"ok", "no"}, Answer(a, t, reply) PROVE TypeOK'
  <2>a. task[t] \in Commands /\ Out \in Commands
    BY DEF Commands, Out
  <2>b. [task[t] EXCEPT !.reply = reply] \in Commands
    BY <2>a, <1>25 DEF Commands, Out, Answer, Put
  <2>1. task' \in [Tasks -> Commands]
    BY <2>a, <2>b, <1>25 DEF Answer, Put
  <2>2. /\ starting' \in Tasks \cup {NoTask} /\ running' \in Agents \cup {NoAgent}
        /\ shutdowns' \in 0..MaxCalls /\ calls' \in 0..MaxCalls
    BY <1>25 DEF Commands, Answer, Put
  <2>3. status' \in Statuses /\ exited' \in BOOLEAN
    BY <1>25 DEF Answer, Put
  <2>4. /\ pending' \in [Agents -> SUBSET Tasks]
        /\ proc' \in [Agents -> {"none", "up", "dead", "ended"}]
        /\ reader' \in [Agents -> {"none", "reading", "left", "drained", "telling", "gone"}]
        /\ shutting' \in [Agents -> BOOLEAN]
    BY <1>25 DEF Commands, Answer, Put
  <2> QED
    BY <2>1, <2>2, <2>3, <2>4
<1>26. ASSUME NEW a \in Agents, ReaderLeaves(a) PROVE TypeOK'
  <2>1. task' \in [Tasks -> Commands]
    BY <1>26 DEF ReaderLeaves, ReaderMoves, Put
  <2>2. /\ starting' \in Tasks \cup {NoTask} /\ running' \in Agents \cup {NoAgent}
        /\ shutdowns' \in 0..MaxCalls /\ calls' \in 0..MaxCalls
    BY <1>26 DEF Commands, ReaderLeaves, ReaderMoves, Put
  <2>3. status' \in Statuses /\ exited' \in BOOLEAN
    BY <1>26 DEF ReaderLeaves, ReaderMoves, Put
  <2>4. /\ pending' \in [Agents -> SUBSET Tasks]
        /\ proc' \in [Agents -> {"none", "up", "dead", "ended"}]
        /\ reader' \in [Agents -> {"none", "reading", "left", "drained", "telling", "gone"}]
        /\ shutting' \in [Agents -> BOOLEAN]
    BY <1>26 DEF Commands, ReaderLeaves, ReaderMoves, Put
  <2> QED
    BY <2>1, <2>2, <2>3, <2>4
<1>27. ASSUME NEW a \in Agents, ReaderDrains(a) PROVE TypeOK'
  <2>0. \A t \in Tasks : task[t] \in Commands /\ [task[t] EXCEPT !.reply = "stopped"] \in Commands
    BY DEF Commands
  <2>1. task' \in [Tasks -> Commands]
    BY <1>27, <2>0 DEF ReaderDrains, ReaderMoves, Put
  <2>2. /\ starting' \in Tasks \cup {NoTask} /\ running' \in Agents \cup {NoAgent}
        /\ shutdowns' \in 0..MaxCalls /\ calls' \in 0..MaxCalls
    BY <1>27 DEF Commands, ReaderDrains, ReaderMoves, Put
  <2>3. status' \in Statuses /\ exited' \in BOOLEAN
    BY <1>27 DEF ReaderDrains, ReaderMoves, Put
  <2>4. /\ pending' \in [Agents -> SUBSET Tasks]
        /\ proc' \in [Agents -> {"none", "up", "dead", "ended"}]
        /\ reader' \in [Agents -> {"none", "reading", "left", "drained", "telling", "gone"}]
        /\ shutting' \in [Agents -> BOOLEAN]
    BY <1>27 DEF Commands, ReaderDrains, ReaderMoves, Put
  <2> QED
    BY <2>1, <2>2, <2>3, <2>4
<1>28. ASSUME NEW a \in Agents, ReaderLooks(a) PROVE TypeOK'
  <2>1. task' \in [Tasks -> Commands]
    BY <1>28 DEF ReaderLooks, ReaderMoves, Put
  <2>2. /\ starting' \in Tasks \cup {NoTask} /\ running' \in Agents \cup {NoAgent}
        /\ shutdowns' \in 0..MaxCalls /\ calls' \in 0..MaxCalls
    BY <1>28 DEF Commands, ReaderLooks, ReaderMoves, Put
  <2>3. status' \in Statuses /\ exited' \in BOOLEAN
    BY <1>28 DEF ReaderLooks, ReaderMoves, Put
  <2>4. /\ pending' \in [Agents -> SUBSET Tasks]
        /\ proc' \in [Agents -> {"none", "up", "dead", "ended"}]
        /\ reader' \in [Agents -> {"none", "reading", "left", "drained", "telling", "gone"}]
        /\ shutting' \in [Agents -> BOOLEAN]
    BY <1>28 DEF Commands, ReaderLooks, ReaderMoves, Put
  <2> QED
    BY <2>1, <2>2, <2>3, <2>4
<1>29. ASSUME NEW a \in Agents, ReaderTells(a) PROVE TypeOK'
  <2>1. task' \in [Tasks -> Commands]
    BY <1>29 DEF ReaderTells, ReaderMoves, Put
  <2>2. /\ starting' \in Tasks \cup {NoTask} /\ running' \in Agents \cup {NoAgent}
        /\ shutdowns' \in 0..MaxCalls /\ calls' \in 0..MaxCalls
    BY <1>29 DEF Commands, ReaderTells, ReaderMoves, Put
  <2>3. status' \in Statuses /\ exited' \in BOOLEAN
    BY <1>29 DEF ReaderTells, ReaderMoves, Put
  <2>4. /\ pending' \in [Agents -> SUBSET Tasks]
        /\ proc' \in [Agents -> {"none", "up", "dead", "ended"}]
        /\ reader' \in [Agents -> {"none", "reading", "left", "drained", "telling", "gone"}]
        /\ shutting' \in [Agents -> BOOLEAN]
    BY <1>29 DEF Commands, ReaderTells, ReaderMoves, Put
  <2> QED
    BY <2>1, <2>2, <2>3, <2>4
<1>30. CASE UNCHANGED vars
  BY <1>30
<1> HIDE DEF IInv, TypeOK, StartInv, OwnInv, AskInv, Owns, vars, Agentless, Asking, Killing, Goals, Places, Statuses
<1> QED
  BY <1>1, <1>2, <1>3, <1>4, <1>5, <1>6, <1>7, <1>8, <1>9, <1>10, <1>11, <1>12, <1>13, <1>14, <1>15, <1>16, <1>17, <1>18, <1>19, <1>20, <1>21, <1>22, <1>23, <1>24, <1>25, <1>26, <1>27, <1>28, <1>29, <1>30
  DEF Next, Step, AgentStep, ReaderStep

\* The mutex of starts is held where a start is.
LEMMA StartStep ==
    ASSUME IInv, [Next]_vars
    PROVE  StartInv'
<1> USE NoTaskAssumption, NoAgentAssumption, MaxCallsAssumption
    DEF IInv, TypeOK, StartInv, OwnInv, Started, Owns, vars, Agentless, Out, Asking, Killing, Goals, Places, Statuses, Commands
<1>1. ASSUME NEW t \in Tasks, CallStart(t) PROVE StartInv'
  BY <1>1 DEF CallStart, Call, At, Put
<1>2. ASSUME NEW t \in Tasks, NEW goal \in {"restart", "exit"}, CallShutdown(t, goal) PROVE StartInv'
  BY <1>2 DEF CallShutdown, Call, At, Put
<1>3. ASSUME NEW t \in Tasks, NEW goal \in {"login", "turn"}, CallAgent(t, goal) PROVE StartInv'
  BY <1>3 DEF CallAgent, Call, At, Put
<1>4. ASSUME NEW t \in Tasks, ShutdownTakes(t) PROVE StartInv'
  BY <1>4 DEF ShutdownTakes, At, Put
<1>5. ASSUME NEW t \in Tasks, ShutdownFindsNone(t) PROVE StartInv'
  BY <1>5 DEF ShutdownFindsNone, AfterShutdown, At, Put
<1>6. ASSUME NEW t \in Tasks, ShutdownTells(t) PROVE StartInv'
  BY <1>6 DEF ShutdownTells, AfterShutdown, At, Put
<1>7. ASSUME NEW t \in Tasks, Flag(t) PROVE StartInv'
  BY <1>7 DEF Flag, At, Go, Put
<1>8. ASSUME NEW t \in Tasks, Reap(t) PROVE StartInv'
  BY <1>8 DEF Reap, At, Put
<1>9. ASSUME NEW t \in Tasks, StartLocks(t) PROVE StartInv'
  BY <1>9 DEF StartLocks, At, Put
<1>10. ASSUME NEW t \in Tasks, StartKeeps(t) PROVE StartInv'
  BY <1>10 DEF StartKeeps, At, Release, Leave, Put
<1>11. ASSUME NEW t \in Tasks, StartReplaces(t) PROVE StartInv'
  BY <1>11 DEF StartReplaces, At, Put
<1>12. ASSUME NEW t \in Tasks, StartFindsNone(t) PROVE StartInv'
  BY <1>12 DEF StartFindsNone, At, Go, Put
<1>13. ASSUME NEW t \in Tasks, PrepareFails(t) PROVE StartInv'
  BY <1>13 DEF PrepareFails, At, Release, Leave, Put
<1>14. ASSUME NEW t \in Tasks, NEW a \in Agents, Launch(t, a) PROVE StartInv'
  <2>1. task'[t].at = "asks" /\ task'[t].goal = task[t].goal /\ task'[t].then = task[t].then
    BY <1>14 DEF Launch, At, Put
  <2>2. \A u \in Tasks \ {t} : task'[u] = task[u]
    BY <1>14 DEF Launch, At, Put
  <2>3. task[t].at = "preparing" /\ starting' = starting /\ running' = running /\ shutdowns' = shutdowns /\ calls' = calls
    BY <1>14 DEF Launch, At
  <2>4. starting = t /\ running = NoAgent
    BY <2>3
  <2>5. \A u \in Tasks : Started(u)' <=> starting' = u
    <3> TAKE u \in Tasks
    <3>1. CASE u = t
      <4>1. task[t].goal \in {"start", "restart"}
        BY <2>3
      <4> QED
        BY <3>1, <4>1, <2>1, <2>3, <2>4
    <3>2. CASE u # t
      BY <3>2, <2>2, <2>3
    <3> QED
      BY <3>1, <3>2
  <2>6. \A u \in Tasks : (Started(u) \/ task[u].at = "queued")' => task'[u].goal \in {"start", "restart"}
    <3> TAKE u \in Tasks
    <3>1. CASE u = t
      BY <3>1, <2>1, <2>3
    <3>2. CASE u # t
      BY <3>2, <2>2
    <3> QED
      BY <3>1, <3>2
  <2> QED
    BY <2>3, <2>4, <2>5, <2>6
<1>15. ASSUME NEW t \in Tasks, Check(t) PROVE StartInv'
  BY <1>15 DEF Check, At, Put
<1>16. ASSUME NEW t \in Tasks, Insert(t) PROVE StartInv'
  BY <1>16 DEF Insert, At, Go, Put
<1>17. ASSUME NEW t \in Tasks, NEW fails \in BOOLEAN, Write(t, fails) PROVE StartInv'
  BY <1>17 DEF Write, At, Put
<1>18. ASSUME NEW t \in Tasks, Greeted(t) PROVE StartInv'
  BY <1>18 DEF Greeted, At, Go, Put
<1>19. ASSUME NEW t \in Tasks, GreetFails(t) PROVE StartInv'
  BY <1>19 DEF GreetFails, At, Release, Leave, Put
<1>20. ASSUME NEW t \in Tasks, StartSettles(t) PROVE StartInv'
  BY <1>20 DEF StartSettles, At, Release, Leave, Put
<1>21. ASSUME NEW t \in Tasks, StartOvertaken(t) PROVE StartInv'
  BY <1>21 DEF StartOvertaken, At, Put
<1>22. ASSUME NEW t \in Tasks, StartUndone(t) PROVE StartInv'
  BY <1>22 DEF StartUndone, At, Release, Leave, Put
<1>23. ASSUME NEW t \in Tasks, Answered(t) PROVE StartInv'
  BY <1>23 DEF Answered, At, Leave, Put
<1>24. ASSUME NEW a \in Agents, Die(a) PROVE StartInv'
  BY <1>24 DEF Die, Put
<1>25. ASSUME NEW a \in Agents, NEW t \in Tasks, NEW reply \in {"ok", "no"}, Answer(a, t, reply) PROVE StartInv'
  BY <1>25 DEF Answer, Put
<1>26. ASSUME NEW a \in Agents, ReaderLeaves(a) PROVE StartInv'
  BY <1>26 DEF ReaderLeaves, ReaderMoves, Put
<1>27. ASSUME NEW a \in Agents, ReaderDrains(a) PROVE StartInv'
  BY <1>27 DEF ReaderDrains, ReaderMoves, Put
<1>28. ASSUME NEW a \in Agents, ReaderLooks(a) PROVE StartInv'
  BY <1>28 DEF ReaderLooks, ReaderMoves, Put
<1>29. ASSUME NEW a \in Agents, ReaderTells(a) PROVE StartInv'
  BY <1>29 DEF ReaderTells, ReaderMoves, Put
<1>30. CASE UNCHANGED vars
  BY <1>30
<1> HIDE DEF IInv, TypeOK, StartInv, OwnInv, Started, Owns, vars, Agentless, Out, Asking, Killing, Goals, Places, Statuses, Commands
<1> QED
  BY <1>1, <1>2, <1>3, <1>4, <1>5, <1>6, <1>7, <1>8, <1>9, <1>10, <1>11, <1>12, <1>13, <1>14, <1>15, <1>16, <1>17, <1>18, <1>19, <1>20, <1>21, <1>22, <1>23, <1>24, <1>25, <1>26, <1>27, <1>28, <1>29, <1>30
  DEF Next, Step, AgentStep, ReaderStep

\* Agents keep one owner.
LEMMA OwnStep ==
    ASSUME IInv, [Next]_vars
    PROVE  OwnInv'
<1> USE NoTaskAssumption, NoAgentAssumption, MaxCallsAssumption
    DEF IInv, TypeOK, StartInv, OwnInv, Owns, Started, vars, Agentless, Out, Asking, Killing, Goals, Places, Statuses, Commands
<1>1. ASSUME NEW t \in Tasks, CallStart(t) PROVE OwnInv'
  BY <1>1 DEF CallStart, Call, At, Put
<1>2. ASSUME NEW t \in Tasks, NEW goal \in {"restart", "exit"}, CallShutdown(t, goal) PROVE OwnInv'
  BY <1>2 DEF CallShutdown, Call, At, Put
<1>3. ASSUME NEW t \in Tasks, NEW goal \in {"login", "turn"}, CallAgent(t, goal) PROVE OwnInv'
  BY <1>3 DEF CallAgent, Call, At, Put
<1>4. ASSUME NEW t \in Tasks, ShutdownTakes(t) PROVE OwnInv'
  BY <1>4 DEF ShutdownTakes, At, Put
<1>5. ASSUME NEW t \in Tasks, ShutdownFindsNone(t) PROVE OwnInv'
  BY <1>5 DEF ShutdownFindsNone, AfterShutdown, At, Put
<1>6. ASSUME NEW t \in Tasks, ShutdownTells(t) PROVE OwnInv'
  BY <1>6 DEF ShutdownTells, AfterShutdown, At, Put
<1>7. ASSUME NEW t \in Tasks, Flag(t) PROVE OwnInv'
  BY <1>7 DEF Flag, At, Go, Put
<1>8. ASSUME NEW t \in Tasks, Reap(t) PROVE OwnInv'
  BY <1>8 DEF Reap, At, Put
<1>9. ASSUME NEW t \in Tasks, StartLocks(t) PROVE OwnInv'
  BY <1>9 DEF StartLocks, At, Put
<1>10. ASSUME NEW t \in Tasks, StartKeeps(t) PROVE OwnInv'
  BY <1>10 DEF StartKeeps, At, Release, Leave, Put
<1>11. ASSUME NEW t \in Tasks, StartReplaces(t) PROVE OwnInv'
  BY <1>11 DEF StartReplaces, At, Put
<1>12. ASSUME NEW t \in Tasks, StartFindsNone(t) PROVE OwnInv'
  BY <1>12 DEF StartFindsNone, At, Go, Put
<1>13. ASSUME NEW t \in Tasks, PrepareFails(t) PROVE OwnInv'
  BY <1>13 DEF PrepareFails, At, Release, Leave, Put
<1>14. ASSUME NEW t \in Tasks, NEW a \in Agents, Launch(t, a) PROVE OwnInv'
  BY <1>14 DEF Launch, At, Put
<1>15. ASSUME NEW t \in Tasks, Check(t) PROVE OwnInv'
  BY <1>15 DEF Check, At, Put
<1>16. ASSUME NEW t \in Tasks, Insert(t) PROVE OwnInv'
  BY <1>16 DEF Insert, At, Go, Put
<1>17. ASSUME NEW t \in Tasks, NEW fails \in BOOLEAN, Write(t, fails) PROVE OwnInv'
  BY <1>17 DEF Write, At, Put
<1>18. ASSUME NEW t \in Tasks, Greeted(t) PROVE OwnInv'
  BY <1>18 DEF Greeted, At, Go, Put
<1>19. ASSUME NEW t \in Tasks, GreetFails(t) PROVE OwnInv'
  BY <1>19 DEF GreetFails, At, Release, Leave, Put
<1>20. ASSUME NEW t \in Tasks, StartSettles(t) PROVE OwnInv'
  BY <1>20 DEF StartSettles, At, Release, Leave, Put
<1>21. ASSUME NEW t \in Tasks, StartOvertaken(t) PROVE OwnInv'
  BY <1>21 DEF StartOvertaken, At, Put
<1>22. ASSUME NEW t \in Tasks, StartUndone(t) PROVE OwnInv'
  BY <1>22 DEF StartUndone, At, Release, Leave, Put
<1>23. ASSUME NEW t \in Tasks, Answered(t) PROVE OwnInv'
  BY <1>23 DEF Answered, At, Leave, Put
<1>24. ASSUME NEW a \in Agents, Die(a) PROVE OwnInv'
  BY <1>24 DEF Die, Put
<1>25. ASSUME NEW a \in Agents, NEW t \in Tasks, NEW reply \in {"ok", "no"}, Answer(a, t, reply) PROVE OwnInv'
  BY <1>25 DEF Answer, Put
<1>26. ASSUME NEW a \in Agents, ReaderLeaves(a) PROVE OwnInv'
  BY <1>26 DEF ReaderLeaves, ReaderMoves, Put
<1>27. ASSUME NEW a \in Agents, ReaderDrains(a) PROVE OwnInv'
  BY <1>27 DEF ReaderDrains, ReaderMoves, Put
<1>28. ASSUME NEW a \in Agents, ReaderLooks(a) PROVE OwnInv'
  BY <1>28 DEF ReaderLooks, ReaderMoves, Put
<1>29. ASSUME NEW a \in Agents, ReaderTells(a) PROVE OwnInv'
  BY <1>29 DEF ReaderTells, ReaderMoves, Put
<1>30. CASE UNCHANGED vars
  BY <1>30
<1> HIDE DEF IInv, TypeOK, StartInv, OwnInv, Owns, Started, vars, Agentless, Out, Asking, Killing, Goals, Places, Statuses, Commands
<1> QED
  BY <1>1, <1>2, <1>3, <1>4, <1>5, <1>6, <1>7, <1>8, <1>9, <1>10, <1>11, <1>12, <1>13, <1>14, <1>15, <1>16, <1>17, <1>18, <1>19, <1>20, <1>21, <1>22, <1>23, <1>24, <1>25, <1>26, <1>27, <1>28, <1>29, <1>30
  DEF Next, Step, AgentStep, ReaderStep

\* Whom an agent owes an answer, and who will find out by itself that it left (request, agent_left).
LEMMA AskStep ==
    ASSUME IInv, [Next]_vars
    PROVE  AskInv'
<1> USE NoTaskAssumption, NoAgentAssumption, MaxCallsAssumption
    DEF IInv, TypeOK, AskInv, ReaderInv, OwnInv, Owns, Stopped, vars, Agentless, Out, Asking, Killing, Goals, Places, Statuses, Commands
<1>1. ASSUME NEW t \in Tasks, CallStart(t) PROVE AskInv'
  BY <1>1 DEF CallStart, Call, At, Put
<1>2. ASSUME NEW t \in Tasks, NEW goal \in {"restart", "exit"}, CallShutdown(t, goal) PROVE AskInv'
  BY <1>2 DEF CallShutdown, Call, At, Put
<1>3. ASSUME NEW t \in Tasks, NEW goal \in {"login", "turn"}, CallAgent(t, goal) PROVE AskInv'
  BY <1>3 DEF CallAgent, Call, At, Put
<1>4. ASSUME NEW t \in Tasks, ShutdownTakes(t) PROVE AskInv'
  BY <1>4 DEF ShutdownTakes, At, Put
<1>5. ASSUME NEW t \in Tasks, ShutdownFindsNone(t) PROVE AskInv'
  BY <1>5 DEF ShutdownFindsNone, AfterShutdown, At, Put
<1>6. ASSUME NEW t \in Tasks, ShutdownTells(t) PROVE AskInv'
  BY <1>6 DEF ShutdownTells, AfterShutdown, At, Put
<1>7. ASSUME NEW t \in Tasks, Flag(t) PROVE AskInv'
  BY <1>7 DEF Flag, At, Go, Put
<1>8. ASSUME NEW t \in Tasks, Reap(t) PROVE AskInv'
  BY <1>8 DEF Reap, At, Put
<1>9. ASSUME NEW t \in Tasks, StartLocks(t) PROVE AskInv'
  BY <1>9 DEF StartLocks, At, Put
<1>10. ASSUME NEW t \in Tasks, StartKeeps(t) PROVE AskInv'
  BY <1>10 DEF StartKeeps, At, Release, Leave, Put
<1>11. ASSUME NEW t \in Tasks, StartReplaces(t) PROVE AskInv'
  BY <1>11 DEF StartReplaces, At, Put
<1>12. ASSUME NEW t \in Tasks, StartFindsNone(t) PROVE AskInv'
  BY <1>12 DEF StartFindsNone, At, Go, Put
<1>13. ASSUME NEW t \in Tasks, PrepareFails(t) PROVE AskInv'
  BY <1>13 DEF PrepareFails, At, Release, Leave, Put
<1>14. ASSUME NEW t \in Tasks, NEW a \in Agents, Launch(t, a) PROVE AskInv'
  BY <1>14 DEF Launch, At, Put
<1>15. ASSUME NEW t \in Tasks, Check(t) PROVE AskInv'
  BY <1>15 DEF Check, At, Put
<1>16. ASSUME NEW t \in Tasks, Insert(t) PROVE AskInv'
  BY <1>16 DEF Insert, At, Go, Put
<1>17. ASSUME NEW t \in Tasks, NEW fails \in BOOLEAN, Write(t, fails) PROVE AskInv'
  BY <1>17 DEF Write, At, Put
<1>18. ASSUME NEW t \in Tasks, Greeted(t) PROVE AskInv'
  BY <1>18 DEF Greeted, At, Go, Put
<1>19. ASSUME NEW t \in Tasks, GreetFails(t) PROVE AskInv'
  BY <1>19 DEF GreetFails, At, Release, Leave, Put
<1>20. ASSUME NEW t \in Tasks, StartSettles(t) PROVE AskInv'
  BY <1>20 DEF StartSettles, At, Release, Leave, Put
<1>21. ASSUME NEW t \in Tasks, StartOvertaken(t) PROVE AskInv'
  BY <1>21 DEF StartOvertaken, At, Put
<1>22. ASSUME NEW t \in Tasks, StartUndone(t) PROVE AskInv'
  BY <1>22 DEF StartUndone, At, Release, Leave, Put
<1>23. ASSUME NEW t \in Tasks, Answered(t) PROVE AskInv'
  BY <1>23 DEF Answered, At, Leave, Put
<1>24. ASSUME NEW a \in Agents, Die(a) PROVE AskInv'
  BY <1>24 DEF Die, Put
<1>25. ASSUME NEW a \in Agents, NEW t \in Tasks, NEW reply \in {"ok", "no"}, Answer(a, t, reply) PROVE AskInv'
  BY <1>25 DEF Answer, Put
<1>26. ASSUME NEW a \in Agents, ReaderLeaves(a) PROVE AskInv'
  BY <1>26 DEF ReaderLeaves, ReaderMoves, Put
<1>27. ASSUME NEW a \in Agents, ReaderDrains(a) PROVE AskInv'
  BY <1>27 DEF ReaderDrains, ReaderMoves, Put
<1>28. ASSUME NEW a \in Agents, ReaderLooks(a) PROVE AskInv'
  BY <1>28 DEF ReaderLooks, ReaderMoves, Put
<1>29. ASSUME NEW a \in Agents, ReaderTells(a) PROVE AskInv'
  BY <1>29 DEF ReaderTells, ReaderMoves, Put
<1>30. CASE UNCHANGED vars
  BY <1>30
<1> HIDE DEF IInv, TypeOK, AskInv, ReaderInv, OwnInv, Owns, Stopped, vars, Agentless, Out, Asking, Killing, Goals, Places, Statuses, Commands
<1> QED
  BY <1>1, <1>2, <1>3, <1>4, <1>5, <1>6, <1>7, <1>8, <1>9, <1>10, <1>11, <1>12, <1>13, <1>14, <1>15, <1>16, <1>17, <1>18, <1>19, <1>20, <1>21, <1>22, <1>23, <1>24, <1>25, <1>26, <1>27, <1>28, <1>29, <1>30
  DEF Next, Step, AgentStep, ReaderStep

\* A reader leaves a process that is gone, and the flag comes before the kill (AgentHandle::shutdown).
LEMMA ReaderInvStep ==
    ASSUME IInv, [Next]_vars
    PROVE  ReaderInv'
<1> USE NoTaskAssumption, NoAgentAssumption, MaxCallsAssumption
    DEF IInv, TypeOK, AskInv, ReaderInv, OwnInv, Owns, Stopped, vars, Agentless, Out, Asking, Killing, Goals, Places, Statuses, Commands
<1>1. ASSUME NEW t \in Tasks, CallStart(t) PROVE ReaderInv'
  BY <1>1 DEF CallStart, Call, At, Put
<1>2. ASSUME NEW t \in Tasks, NEW goal \in {"restart", "exit"}, CallShutdown(t, goal) PROVE ReaderInv'
  BY <1>2 DEF CallShutdown, Call, At, Put
<1>3. ASSUME NEW t \in Tasks, NEW goal \in {"login", "turn"}, CallAgent(t, goal) PROVE ReaderInv'
  BY <1>3 DEF CallAgent, Call, At, Put
<1>4. ASSUME NEW t \in Tasks, ShutdownTakes(t) PROVE ReaderInv'
  BY <1>4 DEF ShutdownTakes, At, Put
<1>5. ASSUME NEW t \in Tasks, ShutdownFindsNone(t) PROVE ReaderInv'
  BY <1>5 DEF ShutdownFindsNone, AfterShutdown, At, Put
<1>6. ASSUME NEW t \in Tasks, ShutdownTells(t) PROVE ReaderInv'
  BY <1>6 DEF ShutdownTells, AfterShutdown, At, Put
<1>7. ASSUME NEW t \in Tasks, Flag(t) PROVE ReaderInv'
  BY <1>7 DEF Flag, At, Go, Put
<1>8. ASSUME NEW t \in Tasks, Reap(t) PROVE ReaderInv'
  BY <1>8 DEF Reap, At, Put
<1>9. ASSUME NEW t \in Tasks, StartLocks(t) PROVE ReaderInv'
  BY <1>9 DEF StartLocks, At, Put
<1>10. ASSUME NEW t \in Tasks, StartKeeps(t) PROVE ReaderInv'
  BY <1>10 DEF StartKeeps, At, Release, Leave, Put
<1>11. ASSUME NEW t \in Tasks, StartReplaces(t) PROVE ReaderInv'
  BY <1>11 DEF StartReplaces, At, Put
<1>12. ASSUME NEW t \in Tasks, StartFindsNone(t) PROVE ReaderInv'
  BY <1>12 DEF StartFindsNone, At, Go, Put
<1>13. ASSUME NEW t \in Tasks, PrepareFails(t) PROVE ReaderInv'
  BY <1>13 DEF PrepareFails, At, Release, Leave, Put
<1>14. ASSUME NEW t \in Tasks, NEW a \in Agents, Launch(t, a) PROVE ReaderInv'
  BY <1>14 DEF Launch, At, Put
<1>15. ASSUME NEW t \in Tasks, Check(t) PROVE ReaderInv'
  BY <1>15 DEF Check, At, Put
<1>16. ASSUME NEW t \in Tasks, Insert(t) PROVE ReaderInv'
  BY <1>16 DEF Insert, At, Go, Put
<1>17. ASSUME NEW t \in Tasks, NEW fails \in BOOLEAN, Write(t, fails) PROVE ReaderInv'
  BY <1>17 DEF Write, At, Put
<1>18. ASSUME NEW t \in Tasks, Greeted(t) PROVE ReaderInv'
  BY <1>18 DEF Greeted, At, Go, Put
<1>19. ASSUME NEW t \in Tasks, GreetFails(t) PROVE ReaderInv'
  BY <1>19 DEF GreetFails, At, Release, Leave, Put
<1>20. ASSUME NEW t \in Tasks, StartSettles(t) PROVE ReaderInv'
  BY <1>20 DEF StartSettles, At, Release, Leave, Put
<1>21. ASSUME NEW t \in Tasks, StartOvertaken(t) PROVE ReaderInv'
  BY <1>21 DEF StartOvertaken, At, Put
<1>22. ASSUME NEW t \in Tasks, StartUndone(t) PROVE ReaderInv'
  BY <1>22 DEF StartUndone, At, Release, Leave, Put
<1>23. ASSUME NEW t \in Tasks, Answered(t) PROVE ReaderInv'
  BY <1>23 DEF Answered, At, Leave, Put
<1>24. ASSUME NEW a \in Agents, Die(a) PROVE ReaderInv'
  BY <1>24 DEF Die, Put
<1>25. ASSUME NEW a \in Agents, NEW t \in Tasks, NEW reply \in {"ok", "no"}, Answer(a, t, reply) PROVE ReaderInv'
  BY <1>25 DEF Answer, Put
<1>26. ASSUME NEW a \in Agents, ReaderLeaves(a) PROVE ReaderInv'
  BY <1>26 DEF ReaderLeaves, ReaderMoves, Put
<1>27. ASSUME NEW a \in Agents, ReaderDrains(a) PROVE ReaderInv'
  BY <1>27 DEF ReaderDrains, ReaderMoves, Put
<1>28. ASSUME NEW a \in Agents, ReaderLooks(a) PROVE ReaderInv'
  BY <1>28 DEF ReaderLooks, ReaderMoves, Put
<1>29. ASSUME NEW a \in Agents, ReaderTells(a) PROVE ReaderInv'
  BY <1>29 DEF ReaderTells, ReaderMoves, Put
<1>30. CASE UNCHANGED vars
  BY <1>30
<1> HIDE DEF IInv, TypeOK, AskInv, ReaderInv, OwnInv, Owns, Stopped, vars, Agentless, Out, Asking, Killing, Goals, Places, Statuses, Commands
<1> QED
  BY <1>1, <1>2, <1>3, <1>4, <1>5, <1>6, <1>7, <1>8, <1>9, <1>10, <1>11, <1>12, <1>13, <1>14, <1>15, <1>16, <1>17, <1>18, <1>19, <1>20, <1>21, <1>22, <1>23, <1>24, <1>25, <1>26, <1>27, <1>28, <1>29, <1>30
  DEF Next, Step, AgentStep, ReaderStep

\* A living process is in use or has an owner, whichever step is taken.
LEMMA StrayStep ==
    ASSUME IInv, [Next]_vars
    PROVE  NoStrayAgent'
<1> USE NoTaskAssumption, NoAgentAssumption, MaxCallsAssumption
    DEF IInv, TypeOK, OwnInv, AskInv, Owns, NoStrayAgent, vars, Agentless, Out, Asking, Killing, Goals, Places, Statuses, Commands
<1>1. ASSUME NEW t \in Tasks, CallStart(t) PROVE NoStrayAgent'
  BY <1>1 DEF CallStart, Call, At, Put
<1>2. ASSUME NEW t \in Tasks, NEW goal \in {"restart", "exit"}, CallShutdown(t, goal) PROVE NoStrayAgent'
  BY <1>2 DEF CallShutdown, Call, At, Put
<1>3. ASSUME NEW t \in Tasks, NEW goal \in {"login", "turn"}, CallAgent(t, goal) PROVE NoStrayAgent'
  BY <1>3 DEF CallAgent, Call, At, Put
<1>4. ASSUME NEW t \in Tasks, ShutdownTakes(t) PROVE NoStrayAgent'
  BY <1>4 DEF ShutdownTakes, At, Put
<1>5. ASSUME NEW t \in Tasks, ShutdownFindsNone(t) PROVE NoStrayAgent'
  BY <1>5 DEF ShutdownFindsNone, AfterShutdown, At, Put
<1>6. ASSUME NEW t \in Tasks, ShutdownTells(t) PROVE NoStrayAgent'
  BY <1>6 DEF ShutdownTells, AfterShutdown, At, Put
<1>7. ASSUME NEW t \in Tasks, Flag(t) PROVE NoStrayAgent'
  BY <1>7 DEF Flag, At, Go, Put
<1>8. ASSUME NEW t \in Tasks, Reap(t) PROVE NoStrayAgent'
  BY <1>8 DEF Reap, At, Put
<1>9. ASSUME NEW t \in Tasks, StartLocks(t) PROVE NoStrayAgent'
  BY <1>9 DEF StartLocks, At, Put
<1>10. ASSUME NEW t \in Tasks, StartKeeps(t) PROVE NoStrayAgent'
  BY <1>10 DEF StartKeeps, At, Release, Leave, Put
<1>11. ASSUME NEW t \in Tasks, StartReplaces(t) PROVE NoStrayAgent'
  BY <1>11 DEF StartReplaces, At, Put
<1>12. ASSUME NEW t \in Tasks, StartFindsNone(t) PROVE NoStrayAgent'
  BY <1>12 DEF StartFindsNone, At, Go, Put
<1>13. ASSUME NEW t \in Tasks, PrepareFails(t) PROVE NoStrayAgent'
  BY <1>13 DEF PrepareFails, At, Release, Leave, Put
<1>14. ASSUME NEW t \in Tasks, NEW a \in Agents, Launch(t, a) PROVE NoStrayAgent'
  <2>1. task'[t].at = "asks" /\ task'[t].goal = task[t].goal /\ task'[t].agent = a
    BY <1>14 DEF Launch, At, Put
  <2>2. \A u \in Tasks \ {t} : task'[u] = task[u]
    BY <1>14 DEF Launch, At, Put
  <2>3. task[t].at = "preparing" /\ running' = running /\ \A b \in Agents \ {a} : proc'[b] = proc[b]
    BY <1>14 DEF Launch, At
  <2>4. task[t].goal \in {"start", "restart"} /\ ~Owns(t)
    BY <2>3 DEF StartInv, Started
  <2>5. Owns(t)'
    BY <2>1, <2>4
  <2>6. SUFFICES ASSUME NEW b \in Agents, proc'[b] = "up", running' # b
                 PROVE  \E u \in Tasks : Owns(u)' /\ task'[u].agent = b
    BY DEF NoStrayAgent
  <2>7. CASE b = a
    BY <2>1, <2>5, <2>7
  <2>8. CASE b # a
    <3>1. PICK u \in Tasks : Owns(u) /\ task[u].agent = b
      BY <2>3, <2>6, <2>8
    <3>2. u # t
      BY <2>4, <3>1
    <3> QED
      BY <2>2, <3>1, <3>2
  <2> QED
    BY <2>7, <2>8
<1>15. ASSUME NEW t \in Tasks, Check(t) PROVE NoStrayAgent'
  BY <1>15 DEF Check, At, Put
<1>16. ASSUME NEW t \in Tasks, Insert(t) PROVE NoStrayAgent'
  BY <1>16 DEF Insert, At, Go, Put
<1>17. ASSUME NEW t \in Tasks, NEW fails \in BOOLEAN, Write(t, fails) PROVE NoStrayAgent'
  BY <1>17 DEF Write, At, Put
<1>18. ASSUME NEW t \in Tasks, Greeted(t) PROVE NoStrayAgent'
  BY <1>18 DEF Greeted, At, Go, Put
<1>19. ASSUME NEW t \in Tasks, GreetFails(t) PROVE NoStrayAgent'
  BY <1>19 DEF GreetFails, At, Release, Leave, Put
<1>20. ASSUME NEW t \in Tasks, StartSettles(t) PROVE NoStrayAgent'
  <2>1. \A u \in Tasks \ {t} : task'[u] = task[u]
    BY <1>20 DEF StartSettles, At, Put, Release, Leave
  <2>2. task[t].at = "settling" /\ running' = task[t].agent /\ proc' = proc
    BY <1>20 DEF StartSettles, At, Agentless
  <2>3. running = NoAgent
    BY <2>2 DEF StartInv, Started
  <2>4. SUFFICES ASSUME NEW b \in Agents, proc'[b] = "up", running' # b
                 PROVE  \E u \in Tasks : Owns(u)' /\ task'[u].agent = b
    BY DEF NoStrayAgent
  <2>5. PICK u \in Tasks : Owns(u) /\ task[u].agent = b
    BY <2>2, <2>3, <2>4
  <2>6. u # t
    BY <2>2, <2>4, <2>5
  <2> QED
    BY <2>1, <2>5, <2>6
<1>21. ASSUME NEW t \in Tasks, StartOvertaken(t) PROVE NoStrayAgent'
  BY <1>21 DEF StartOvertaken, At, Put
<1>22. ASSUME NEW t \in Tasks, StartUndone(t) PROVE NoStrayAgent'
  BY <1>22 DEF StartUndone, At, Release, Leave, Put
<1>23. ASSUME NEW t \in Tasks, Answered(t) PROVE NoStrayAgent'
  BY <1>23 DEF Answered, At, Leave, Put
<1>24. ASSUME NEW a \in Agents, Die(a) PROVE NoStrayAgent'
  BY <1>24 DEF Die, Put
<1>25. ASSUME NEW a \in Agents, NEW t \in Tasks, NEW reply \in {"ok", "no"}, Answer(a, t, reply) PROVE NoStrayAgent'
  BY <1>25 DEF Answer, Put
<1>26. ASSUME NEW a \in Agents, ReaderLeaves(a) PROVE NoStrayAgent'
  BY <1>26 DEF ReaderLeaves, ReaderMoves, Put
<1>27. ASSUME NEW a \in Agents, ReaderDrains(a) PROVE NoStrayAgent'
  BY <1>27 DEF ReaderDrains, ReaderMoves, Put
<1>28. ASSUME NEW a \in Agents, ReaderLooks(a) PROVE NoStrayAgent'
  BY <1>28 DEF ReaderLooks, ReaderMoves, Put
<1>29. ASSUME NEW a \in Agents, ReaderTells(a) PROVE NoStrayAgent'
  BY <1>29 DEF ReaderTells, ReaderMoves, Put
<1>30. CASE UNCHANGED vars
  BY <1>30
<1> HIDE DEF IInv, TypeOK, OwnInv, AskInv, Owns, NoStrayAgent, vars, Agentless, Out, Asking, Killing, Goals, Places, Statuses, Commands
<1> QED
  BY <1>1, <1>2, <1>3, <1>4, <1>5, <1>6, <1>7, <1>8, <1>9, <1>10, <1>11, <1>12, <1>13, <1>14, <1>15, <1>16, <1>17, <1>18, <1>19, <1>20, <1>21, <1>22, <1>23, <1>24, <1>25, <1>26, <1>27, <1>28, <1>29, <1>30
  DEF Next, Step, AgentStep, ReaderStep

\* A reader that tells of a stop read the agent's flag before, and no ended process lacks it.
LEMMA SilentStep ==
    ASSUME IInv, [Next]_vars
    PROVE  EndsSilently'
<1> USE NoTaskAssumption, NoAgentAssumption, MaxCallsAssumption
    DEF IInv, TypeOK, ReaderInv, EndsSilently, OwnInv, Owns, Stopped, vars, Agentless, Out, Asking, Killing, Goals, Places, Statuses, Commands
<1>1. ASSUME NEW t \in Tasks, CallStart(t) PROVE EndsSilently'
  BY <1>1 DEF CallStart, Call, At, Put
<1>2. ASSUME NEW t \in Tasks, NEW goal \in {"restart", "exit"}, CallShutdown(t, goal) PROVE EndsSilently'
  BY <1>2 DEF CallShutdown, Call, At, Put
<1>3. ASSUME NEW t \in Tasks, NEW goal \in {"login", "turn"}, CallAgent(t, goal) PROVE EndsSilently'
  BY <1>3 DEF CallAgent, Call, At, Put
<1>4. ASSUME NEW t \in Tasks, ShutdownTakes(t) PROVE EndsSilently'
  BY <1>4 DEF ShutdownTakes, At, Put
<1>5. ASSUME NEW t \in Tasks, ShutdownFindsNone(t) PROVE EndsSilently'
  BY <1>5 DEF ShutdownFindsNone, AfterShutdown, At, Put
<1>6. ASSUME NEW t \in Tasks, ShutdownTells(t) PROVE EndsSilently'
  BY <1>6 DEF ShutdownTells, AfterShutdown, At, Put
<1>7. ASSUME NEW t \in Tasks, Flag(t) PROVE EndsSilently'
  BY <1>7 DEF Flag, At, Go, Put
<1>8. ASSUME NEW t \in Tasks, Reap(t) PROVE EndsSilently'
  BY <1>8 DEF Reap, At, Put
<1>9. ASSUME NEW t \in Tasks, StartLocks(t) PROVE EndsSilently'
  BY <1>9 DEF StartLocks, At, Put
<1>10. ASSUME NEW t \in Tasks, StartKeeps(t) PROVE EndsSilently'
  BY <1>10 DEF StartKeeps, At, Release, Leave, Put
<1>11. ASSUME NEW t \in Tasks, StartReplaces(t) PROVE EndsSilently'
  BY <1>11 DEF StartReplaces, At, Put
<1>12. ASSUME NEW t \in Tasks, StartFindsNone(t) PROVE EndsSilently'
  BY <1>12 DEF StartFindsNone, At, Go, Put
<1>13. ASSUME NEW t \in Tasks, PrepareFails(t) PROVE EndsSilently'
  BY <1>13 DEF PrepareFails, At, Release, Leave, Put
<1>14. ASSUME NEW t \in Tasks, NEW a \in Agents, Launch(t, a) PROVE EndsSilently'
  BY <1>14 DEF Launch, At, Put
<1>15. ASSUME NEW t \in Tasks, Check(t) PROVE EndsSilently'
  BY <1>15 DEF Check, At, Put
<1>16. ASSUME NEW t \in Tasks, Insert(t) PROVE EndsSilently'
  BY <1>16 DEF Insert, At, Go, Put
<1>17. ASSUME NEW t \in Tasks, NEW fails \in BOOLEAN, Write(t, fails) PROVE EndsSilently'
  BY <1>17 DEF Write, At, Put
<1>18. ASSUME NEW t \in Tasks, Greeted(t) PROVE EndsSilently'
  BY <1>18 DEF Greeted, At, Go, Put
<1>19. ASSUME NEW t \in Tasks, GreetFails(t) PROVE EndsSilently'
  BY <1>19 DEF GreetFails, At, Release, Leave, Put
<1>20. ASSUME NEW t \in Tasks, StartSettles(t) PROVE EndsSilently'
  BY <1>20 DEF StartSettles, At, Release, Leave, Put
<1>21. ASSUME NEW t \in Tasks, StartOvertaken(t) PROVE EndsSilently'
  BY <1>21 DEF StartOvertaken, At, Put
<1>22. ASSUME NEW t \in Tasks, StartUndone(t) PROVE EndsSilently'
  BY <1>22 DEF StartUndone, At, Release, Leave, Put
<1>23. ASSUME NEW t \in Tasks, Answered(t) PROVE EndsSilently'
  BY <1>23 DEF Answered, At, Leave, Put
<1>24. ASSUME NEW a \in Agents, Die(a) PROVE EndsSilently'
  BY <1>24 DEF Die, Put
<1>25. ASSUME NEW a \in Agents, NEW t \in Tasks, NEW reply \in {"ok", "no"}, Answer(a, t, reply) PROVE EndsSilently'
  BY <1>25 DEF Answer, Put
<1>26. ASSUME NEW a \in Agents, ReaderLeaves(a) PROVE EndsSilently'
  BY <1>26 DEF ReaderLeaves, ReaderMoves, Put
<1>27. ASSUME NEW a \in Agents, ReaderDrains(a) PROVE EndsSilently'
  BY <1>27 DEF ReaderDrains, ReaderMoves, Put
<1>28. ASSUME NEW a \in Agents, ReaderLooks(a) PROVE EndsSilently'
  BY <1>28 DEF ReaderLooks, ReaderMoves, Put
<1>29. ASSUME NEW a \in Agents, ReaderTells(a) PROVE EndsSilently'
  BY <1>29 DEF ReaderTells, ReaderMoves, Put
<1>30. CASE UNCHANGED vars
  BY <1>30
<1> HIDE DEF IInv, TypeOK, ReaderInv, EndsSilently, OwnInv, Owns, Stopped, vars, Agentless, Out, Asking, Killing, Goals, Places, Statuses, Commands
<1> QED
  BY <1>1, <1>2, <1>3, <1>4, <1>5, <1>6, <1>7, <1>8, <1>9, <1>10, <1>11, <1>12, <1>13, <1>14, <1>15, <1>16, <1>17, <1>18, <1>19, <1>20, <1>21, <1>22, <1>23, <1>24, <1>25, <1>26, <1>27, <1>28, <1>29, <1>30
  DEF Next, Step, AgentStep, ReaderStep

\* Only StartSettles puts an agent in use, and it is the start that holds the mutex.
LEMMA OvertakenStep ==
    ASSUME IInv, [Next]_vars
    PROVE  \A u \in Tasks : Owns(u) /\ Started(u) /\ task[u].seen # shutdowns => running' # task[u].agent
<1> USE NoTaskAssumption, NoAgentAssumption, MaxCallsAssumption
    DEF IInv, TypeOK, StartInv, OwnInv, Owns, Started, vars, Agentless, Out, Asking, Killing, Goals, Places, Statuses, Commands
<1>1. ASSUME NEW t \in Tasks, CallStart(t) PROVE \A u \in Tasks : Owns(u) /\ Started(u) /\ task[u].seen # shutdowns => running' # task[u].agent
  BY <1>1 DEF CallStart, Call, At, Put
<1>2. ASSUME NEW t \in Tasks, NEW goal \in {"restart", "exit"}, CallShutdown(t, goal) PROVE \A u \in Tasks : Owns(u) /\ Started(u) /\ task[u].seen # shutdowns => running' # task[u].agent
  BY <1>2 DEF CallShutdown, Call, At, Put
<1>3. ASSUME NEW t \in Tasks, NEW goal \in {"login", "turn"}, CallAgent(t, goal) PROVE \A u \in Tasks : Owns(u) /\ Started(u) /\ task[u].seen # shutdowns => running' # task[u].agent
  BY <1>3 DEF CallAgent, Call, At, Put
<1>4. ASSUME NEW t \in Tasks, ShutdownTakes(t) PROVE \A u \in Tasks : Owns(u) /\ Started(u) /\ task[u].seen # shutdowns => running' # task[u].agent
  BY <1>4 DEF ShutdownTakes, At, Put
<1>5. ASSUME NEW t \in Tasks, ShutdownFindsNone(t) PROVE \A u \in Tasks : Owns(u) /\ Started(u) /\ task[u].seen # shutdowns => running' # task[u].agent
  BY <1>5 DEF ShutdownFindsNone, AfterShutdown, At, Put
<1>6. ASSUME NEW t \in Tasks, ShutdownTells(t) PROVE \A u \in Tasks : Owns(u) /\ Started(u) /\ task[u].seen # shutdowns => running' # task[u].agent
  BY <1>6 DEF ShutdownTells, AfterShutdown, At, Put
<1>7. ASSUME NEW t \in Tasks, Flag(t) PROVE \A u \in Tasks : Owns(u) /\ Started(u) /\ task[u].seen # shutdowns => running' # task[u].agent
  BY <1>7 DEF Flag, At, Go, Put
<1>8. ASSUME NEW t \in Tasks, Reap(t) PROVE \A u \in Tasks : Owns(u) /\ Started(u) /\ task[u].seen # shutdowns => running' # task[u].agent
  BY <1>8 DEF Reap, At, Put
<1>9. ASSUME NEW t \in Tasks, StartLocks(t) PROVE \A u \in Tasks : Owns(u) /\ Started(u) /\ task[u].seen # shutdowns => running' # task[u].agent
  BY <1>9 DEF StartLocks, At, Put
<1>10. ASSUME NEW t \in Tasks, StartKeeps(t) PROVE \A u \in Tasks : Owns(u) /\ Started(u) /\ task[u].seen # shutdowns => running' # task[u].agent
  BY <1>10 DEF StartKeeps, At, Release, Leave, Put
<1>11. ASSUME NEW t \in Tasks, StartReplaces(t) PROVE \A u \in Tasks : Owns(u) /\ Started(u) /\ task[u].seen # shutdowns => running' # task[u].agent
  BY <1>11 DEF StartReplaces, At, Put
<1>12. ASSUME NEW t \in Tasks, StartFindsNone(t) PROVE \A u \in Tasks : Owns(u) /\ Started(u) /\ task[u].seen # shutdowns => running' # task[u].agent
  BY <1>12 DEF StartFindsNone, At, Go, Put
<1>13. ASSUME NEW t \in Tasks, PrepareFails(t) PROVE \A u \in Tasks : Owns(u) /\ Started(u) /\ task[u].seen # shutdowns => running' # task[u].agent
  BY <1>13 DEF PrepareFails, At, Release, Leave, Put
<1>14. ASSUME NEW t \in Tasks, NEW a \in Agents, Launch(t, a) PROVE \A u \in Tasks : Owns(u) /\ Started(u) /\ task[u].seen # shutdowns => running' # task[u].agent
  BY <1>14 DEF Launch, At, Put
<1>15. ASSUME NEW t \in Tasks, Check(t) PROVE \A u \in Tasks : Owns(u) /\ Started(u) /\ task[u].seen # shutdowns => running' # task[u].agent
  BY <1>15 DEF Check, At, Put
<1>16. ASSUME NEW t \in Tasks, Insert(t) PROVE \A u \in Tasks : Owns(u) /\ Started(u) /\ task[u].seen # shutdowns => running' # task[u].agent
  BY <1>16 DEF Insert, At, Go, Put
<1>17. ASSUME NEW t \in Tasks, NEW fails \in BOOLEAN, Write(t, fails) PROVE \A u \in Tasks : Owns(u) /\ Started(u) /\ task[u].seen # shutdowns => running' # task[u].agent
  BY <1>17 DEF Write, At, Put
<1>18. ASSUME NEW t \in Tasks, Greeted(t) PROVE \A u \in Tasks : Owns(u) /\ Started(u) /\ task[u].seen # shutdowns => running' # task[u].agent
  BY <1>18 DEF Greeted, At, Go, Put
<1>19. ASSUME NEW t \in Tasks, GreetFails(t) PROVE \A u \in Tasks : Owns(u) /\ Started(u) /\ task[u].seen # shutdowns => running' # task[u].agent
  BY <1>19 DEF GreetFails, At, Release, Leave, Put
<1>20. ASSUME NEW t \in Tasks, StartSettles(t) PROVE \A u \in Tasks : Owns(u) /\ Started(u) /\ task[u].seen # shutdowns => running' # task[u].agent
  BY <1>20 DEF StartSettles, At, Release, Leave, Put
<1>21. ASSUME NEW t \in Tasks, StartOvertaken(t) PROVE \A u \in Tasks : Owns(u) /\ Started(u) /\ task[u].seen # shutdowns => running' # task[u].agent
  BY <1>21 DEF StartOvertaken, At, Put
<1>22. ASSUME NEW t \in Tasks, StartUndone(t) PROVE \A u \in Tasks : Owns(u) /\ Started(u) /\ task[u].seen # shutdowns => running' # task[u].agent
  BY <1>22 DEF StartUndone, At, Release, Leave, Put
<1>23. ASSUME NEW t \in Tasks, Answered(t) PROVE \A u \in Tasks : Owns(u) /\ Started(u) /\ task[u].seen # shutdowns => running' # task[u].agent
  BY <1>23 DEF Answered, At, Leave, Put
<1>24. ASSUME NEW a \in Agents, Die(a) PROVE \A u \in Tasks : Owns(u) /\ Started(u) /\ task[u].seen # shutdowns => running' # task[u].agent
  BY <1>24 DEF Die, Put
<1>25. ASSUME NEW a \in Agents, NEW t \in Tasks, NEW reply \in {"ok", "no"}, Answer(a, t, reply) PROVE \A u \in Tasks : Owns(u) /\ Started(u) /\ task[u].seen # shutdowns => running' # task[u].agent
  BY <1>25 DEF Answer, Put
<1>26. ASSUME NEW a \in Agents, ReaderLeaves(a) PROVE \A u \in Tasks : Owns(u) /\ Started(u) /\ task[u].seen # shutdowns => running' # task[u].agent
  BY <1>26 DEF ReaderLeaves, ReaderMoves, Put
<1>27. ASSUME NEW a \in Agents, ReaderDrains(a) PROVE \A u \in Tasks : Owns(u) /\ Started(u) /\ task[u].seen # shutdowns => running' # task[u].agent
  BY <1>27 DEF ReaderDrains, ReaderMoves, Put
<1>28. ASSUME NEW a \in Agents, ReaderLooks(a) PROVE \A u \in Tasks : Owns(u) /\ Started(u) /\ task[u].seen # shutdowns => running' # task[u].agent
  BY <1>28 DEF ReaderLooks, ReaderMoves, Put
<1>29. ASSUME NEW a \in Agents, ReaderTells(a) PROVE \A u \in Tasks : Owns(u) /\ Started(u) /\ task[u].seen # shutdowns => running' # task[u].agent
  BY <1>29 DEF ReaderTells, ReaderMoves, Put
<1>30. CASE UNCHANGED vars
  BY <1>30
<1> HIDE DEF IInv, TypeOK, StartInv, OwnInv, Owns, Started, vars, Agentless, Out, Asking, Killing, Goals, Places, Statuses, Commands
<1> QED
  BY <1>1, <1>2, <1>3, <1>4, <1>5, <1>6, <1>7, <1>8, <1>9, <1>10, <1>11, <1>12, <1>13, <1>14, <1>15, <1>16, <1>17, <1>18, <1>19, <1>20, <1>21, <1>22, <1>23, <1>24, <1>25, <1>26, <1>27, <1>28, <1>29, <1>30
  DEF Next, Step, AgentStep, ReaderStep

\* The first state satisfies the invariant.
LEMMA InitInv == Init => IInv
<1> SUFFICES ASSUME Init PROVE IInv
  OBVIOUS
<1> USE NoTaskAssumption, NoAgentAssumption, MaxCallsAssumption
    DEF Init, Out, Owns, Started, Asking, Killing
<1>1. TypeOK
  <2>1. Out \in Commands
    BY DEF Commands, Places, Goals
  <2>2. shutdowns \in 0..MaxCalls /\ calls \in 0..MaxCalls
    OBVIOUS
  <2>5. status \in Statuses /\ starting \in Tasks \cup {NoTask} /\ running \in Agents \cup {NoAgent}
    BY DEF Statuses
  <2>6. exited \in BOOLEAN
    OBVIOUS
  <2>3. /\ proc \in [Agents -> {"none", "up", "dead", "ended"}] /\ shutting \in [Agents -> BOOLEAN]
        /\ reader \in [Agents -> {"none", "reading", "left", "drained", "telling", "gone"}]
        /\ pending \in [Agents -> SUBSET Tasks]
    OBVIOUS
  <2>4. task \in [Tasks -> Commands]
    <3>1. task = [t \in Tasks |-> Out]
      OBVIOUS
    <3> HIDE DEF Out
    <3> QED
      BY <2>1, <3>1
  <2> QED
    BY <2>2, <2>3, <2>4, <2>5, <2>6 DEF TypeOK
<1>2. StartInv /\ OwnInv /\ NoStrayAgent
  BY DEF StartInv, OwnInv, NoStrayAgent
<1>3. AskInv /\ ReaderInv /\ EndsSilently
  BY DEF AskInv, ReaderInv, EndsSilently, Stopped
<1> QED
  BY <1>1, <1>2, <1>3 DEF IInv

\* The inductive invariant: types, the mutex of starts, one owner for each agent, whom agents owe an
\* answer, and what their readers know.
THEOREM Invariance == Spec => []IInv
<1>1. IInv /\ [Next]_vars => IInv'
  BY TypeStep, StartStep, OwnStep, AskStep, ReaderInvStep, StrayStep, SilentStep DEF IInv
<1> QED
  BY <1>1, InitInv, PTL DEF Spec

\* Every variable keeps its type.
THEOREM TypeCorrect == Spec => []TypeOK
<1>1. IInv => TypeOK
  BY DEF IInv
<1> QED
  BY <1>1, Invariance, PTL

\* No agent is forgotten by start, restart, shutdown or a failed handshake: one that lives is in use or
\* has a command that will end it or hand it over.
THEOREM NoAgentIsForgotten == Spec => []NoStrayAgent
<1>1. IInv => NoStrayAgent
  BY DEF IInv
<1> QED
  BY <1>1, Invariance, PTL

\* The mutex of starts and the take of the old agent leave one agent at a time, in use or coming up.
THEOREM OneAgentAtATime == Spec => []OneAgent
<1>1. IInv => OneAgent
  <2> SUFFICES ASSUME IInv PROVE OneAgent
    OBVIOUS
  <2>1. \A t \in Tasks : Owns(t) /\ task[t].at \notin Killing => starting = t /\ running = NoAgent
    BY DEF IInv, StartInv, Started, Owns, Asking, Killing
  <2> QED
    BY <2>1, NoTaskAssumption DEF OneAgent, Coming
<1> QED
  BY <1>1, Invariance, PTL

\* The second look of Shared::request: whoever waits for an agent whose reader has drained what was
\* pending has its answer.
THEOREM NobodyIsLeftWaiting == Spec => []NobodyWaitsForTheGone
<1>1. IInv => NobodyWaitsForTheGone
  <2> SUFFICES ASSUME IInv, NEW t \in Tasks, task[t].at = "waits", task[t].reply = "none",
                      reader[task[t].agent] \in {"drained", "telling", "gone"}
               PROVE  FALSE
    BY DEF NobodyWaitsForTheGone
  <2>1. task[t].agent \in Agents /\ t \in pending[task[t].agent]
    BY DEF IInv, AskInv, Asking
  <2> QED
    BY <2>1 DEF IInv, AskInv
<1> QED
  BY <1>1, Invariance, PTL

\* The flag that a shutdown raises keeps the reader from telling of an agent that stopped.
THEOREM ShutdownIsSilent == Spec => []EndsSilently
<1>1. IInv => EndsSilently
  BY DEF IInv
<1> QED
  BY <1>1, Invariance, PTL

\* A start that a shutdown overtook never puts its agent in use.
THEOREM OvertakenStartIsUndone == Spec => OvertakenIsNotUsed
<1>1. IInv /\ [Next]_vars => [\A t \in Tasks : Owns(t) /\ Started(t) /\ task[t].seen # shutdowns => running' # task[t].agent]_vars
  BY OvertakenStep
<1> QED
  BY <1>1, Invariance, PTL DEF Spec, OvertakenIsNotUsed

---------------------------------------------------------------------------
(* The tools: a query that has to be allowed is run only when the person   *)
(* allowed it, one that was turned down is never run, and what waits when  *)
(* its conversation or the agent goes is turned down by somebody.          *)
(*                                                                         *)
(* An answer is never changed, because only pending calls are answered and *)
(* a pending call has no answer yet (ToolsTypeOK); so what allowed a call   *)
(* when it went ahead still stands when its query runs (AnswerInv).  A call that *)
(* asks in a conversation that is there is pending before anybody can take *)
(* the conversation out, so whoever takes it declines after that           *)
(* (DeclineInv).                                                           *)

\* Every step keeps the types.
LEMMA ToolsTypeStep ==
    ASSUME ToolsInv, [ToolsNext]_toolsVars
    PROVE  ToolsTypeOK'
<1> USE ToolsAssumption
    DEF ToolsAssumption, ToolsInv, ToolsTypeOK, toolsVars, chats, approvals, callVars,
        endings, history, Enders, Items, CallsOf, InTable
<1>1. ASSUME NEW c \in Chats, NEW s \in Sessions, NEW ask \in BOOLEAN, Look(c, s, ask)
      PROVE ToolsTypeOK'
  BY <1>1 DEF Look
<1>2. ASSUME NEW c \in Chats, Create(c) \/ SetupOk(c) \/ SetupFails(c)
      PROVE ToolsTypeOK'
  BY <1>2 DEF Create, SetupOk, SetupFails
<1>3. ASSUME NEW k \in Calls, NEW c \in Chats, Arrive(k, c) PROVE ToolsTypeOK'
  BY <1>3 DEF Arrive
<1>4. ASSUME NEW k \in Calls, FindSession(k) \/ CheckReads(k) PROVE ToolsTypeOK'
  BY <1>4 DEF FindSession, CheckReads, Goto
<1>5. ASSUME NEW k \in Calls, Ask(k) PROVE ToolsTypeOK'
  BY <1>5 DEF Ask, Goto, CallInv
<1>6. ASSUME NEW k \in Calls, Proceed(k) PROVE ToolsTypeOK'
  BY <1>6 DEF Proceed, Goto
<1>7. ASSUME NEW k \in Calls, Query(k) PROVE ToolsTypeOK'
  BY <1>7 DEF Query, Goto
<1>8. ASSUME NEW k \in Calls, NEW d \in {"once", "reads", "decline"}, AnswerCall(k, d)
      PROVE ToolsTypeOK'
  BY <1>8 DEF AnswerCall
<1>9. ASSUME NEW c \in Chats, CancelTurn(c) PROVE ToolsTypeOK'
  BY <1>9 DEF CancelTurn, TurnDown
<1>10. ASSUME NEW c \in Chats, CloseChat(c) PROVE ToolsTypeOK'
  BY <1>10 DEF CloseChat, Ending
<1>11. ASSUME NEW w \in Enders, NEW c \in Chats, Decline(w, c) PROVE ToolsTypeOK'
  BY <1>11 DEF Decline, TurnDown
<1>12. ASSUME NEW s \in Sessions, Disconnect(s) PROVE ToolsTypeOK'
  BY <1>12 DEF Disconnect, Ending
<1>13. ASSUME NEW s \in Sessions, LeaveTable(s) PROVE ToolsTypeOK'
  BY <1>13 DEF LeaveTable
<1>14. ASSUME SignOut PROVE ToolsTypeOK'
  BY <1>14 DEF SignOut, Ending
<1>15. ASSUME NEW c \in Chats, SignOutTakes(c) PROVE ToolsTypeOK'
  BY <1>15 DEF SignOutTakes, DeclineInv
<1>16. ASSUME AgentLeaves PROVE ToolsTypeOK'
  <2>1. leaving' \subseteq Chats
    BY <1>16 DEF AgentLeaves
  <2>2. agentUp' = FALSE /\ ended' \in 0..MaxEndings
    BY <1>16 DEF AgentLeaves, Ending
  <2>3. UNCHANGED <<chats, approvals, callVars, disc, declining, signing, history>>
    BY <1>16 DEF AgentLeaves
  <2> QED
    BY <2>1, <2>2, <2>3
<1>17. ASSUME NEW c \in Chats, LeftDeclines(c) PROVE ToolsTypeOK'
  BY <1>17 DEF LeftDeclines, TurnDown
<1>18. CASE UNCHANGED toolsVars
  BY <1>18
<1> QED
  BY <1>1, <1>2, <1>3, <1>4, <1>5, <1>6, <1>7, <1>8, <1>9, <1>10, <1>11, <1>12, <1>13,
     <1>14, <1>15, <1>16, <1>17, <1>18
  DEF ToolsNext, CallStep, Opening, Person, Declines

\* An answer stays as it was given, and a call stays in its conversation, whose
\* options stay.
Kept ==
    /\ \A k \in Calls : decision[k] # "none" => decision'[k] = decision[k]
    /\ \A k \in Calls : pc[k] # "idle" => chatOf'[k] = chatOf[k] /\ asks'[chatOf[k]] = asks[chatOf[k]]

LEMMA KeptStep ==
    ASSUME ToolsInv, [ToolsNext]_toolsVars
    PROVE  Kept
<1> USE DEF Kept, ToolsInv, ToolsTypeOK, CallInv, toolsVars, chats,
   approvals, callVars, endings, history, CallsOf
<1>1. ASSUME NEW c \in Chats, NEW s \in Sessions, NEW ask \in BOOLEAN, Look(c, s, ask)
      PROVE Kept
  BY <1>1 DEF Look
<1>2. ASSUME NEW c \in Chats, Create(c) \/ SetupOk(c) \/ SetupFails(c)
      PROVE Kept
  BY <1>2 DEF Create, SetupOk, SetupFails
<1>3. ASSUME NEW k \in Calls, NEW c \in Chats, Arrive(k, c) PROVE Kept
  BY <1>3 DEF Arrive
<1>4. ASSUME NEW k \in Calls, FindSession(k) \/ CheckReads(k) \/ Ask(k) \/ Proceed(k) \/ Query(k)
      PROVE Kept
  BY <1>4 DEF FindSession, CheckReads, Ask, Proceed,
     Query, Goto
<1>5. ASSUME NEW k \in Calls, NEW d \in {"once", "reads", "decline"}, AnswerCall(k, d)
      PROVE Kept
  BY <1>5 DEF AnswerCall
<1>6. ASSUME NEW c \in Chats, CancelTurn(c) PROVE Kept
  BY <1>6 DEF CancelTurn, TurnDown
<1>7. ASSUME NEW w \in Enders, NEW c \in Chats, Decline(w, c) PROVE Kept
  BY <1>7 DEF Decline, TurnDown
<1>8. ASSUME NEW c \in Chats, LeftDeclines(c) PROVE Kept
  BY <1>8 DEF LeftDeclines, TurnDown
<1>9. ASSUME NEW c \in Chats, CloseChat(c) \/ SignOutTakes(c) PROVE Kept
  BY <1>9 DEF CloseChat, SignOutTakes
<1>10. ASSUME NEW s \in Sessions, Disconnect(s) \/ LeaveTable(s) PROVE Kept
  BY <1>10 DEF Disconnect, LeaveTable
<1>11. ASSUME SignOut \/ AgentLeaves PROVE Kept
  BY <1>11 DEF SignOut, AgentLeaves
<1>12. CASE UNCHANGED toolsVars
  BY <1>12
<1> QED
  BY <1>1, <1>2, <1>3, <1>4, <1>5, <1>6, <1>7, <1>8, <1>9, <1>10, <1>11, <1>12
  DEF ToolsNext, CallStep, Opening, Person, Declines

\* What the person allowed stays allowed.
LEMMA AllowedStays ==
    ASSUME ToolsInv, [ToolsNext]_toolsVars
    PROVE  /\ \A c \in Chats : ReadsAllowed(c) => ReadsAllowed(c)'
           /\ \A k \in Calls : pc[k] # "idle" /\ Allowed(k) => Allowed(k)'
<1>1. Kept
  BY KeptStep
<1>2. ASSUME NEW c \in Chats, ReadsAllowed(c) PROVE ReadsAllowed(c)'
  <2>1. PICK k \in Calls : chatOf[k] = c /\ decision[k] = "reads"
    BY <1>2 DEF ReadsAllowed
  <2>2. pc[k] # "idle"
    BY <2>1 DEF ToolsInv, CallInv
  <2> QED
    BY <1>1, <2>1, <2>2 DEF Kept, ReadsAllowed
<1>3. ASSUME NEW k \in Calls, pc[k] # "idle", Allowed(k) PROVE Allowed(k)'
  <2>1. chatOf[k] \in Chats
    BY <1>3 DEF ToolsInv, ToolsTypeOK
  <2> QED
    BY <1>1, <1>2, <1>3, <2>1 DEF Kept, Allowed
<1> QED
  BY <1>2, <1>3

\* Every step keeps what is known of the calls.
LEMMA CallInvStep ==
    ASSUME ToolsInv, [ToolsNext]_toolsVars
    PROVE  CallInv'
<1> USE DEF ToolsInv, ToolsTypeOK, CallInv, toolsVars, chats,
   approvals, callVars, endings, history, CallsOf,
   Items
<1>1. ASSUME NEW c \in Chats, NEW s \in Sessions, NEW ask \in BOOLEAN, Look(c, s, ask)
      PROVE CallInv'
  BY <1>1 DEF Look
<1>2. ASSUME NEW c \in Chats, Create(c) \/ SetupOk(c) \/ SetupFails(c)
      PROVE CallInv'
  BY <1>2 DEF Create, SetupOk, SetupFails
<1>3. ASSUME NEW k \in Calls, NEW c \in Chats, Arrive(k, c) PROVE CallInv'
  BY <1>3 DEF Arrive
<1>4. ASSUME NEW k \in Calls, FindSession(k) \/ CheckReads(k) \/ Ask(k) \/ Proceed(k) \/ Query(k)
      PROVE CallInv'
  BY <1>4 DEF FindSession, CheckReads, Ask, Proceed,
     Query, Goto
<1>5. ASSUME NEW k \in Calls, NEW d \in {"once", "reads", "decline"}, AnswerCall(k, d)
      PROVE CallInv'
  BY <1>5 DEF AnswerCall
<1>6. ASSUME NEW c \in Chats, CancelTurn(c) PROVE CallInv'
  BY <1>6 DEF CancelTurn, TurnDown
<1>7. ASSUME NEW w \in Enders, NEW c \in Chats, Decline(w, c) PROVE CallInv'
  BY <1>7 DEF Decline, TurnDown
<1>8. ASSUME NEW c \in Chats, LeftDeclines(c) PROVE CallInv'
  BY <1>8 DEF LeftDeclines, TurnDown
<1>9. ASSUME NEW c \in Chats, CloseChat(c) \/ SignOutTakes(c) PROVE CallInv'
  BY <1>9 DEF CloseChat, SignOutTakes
<1>10. ASSUME NEW s \in Sessions, Disconnect(s) \/ LeaveTable(s)
      PROVE CallInv'
  BY <1>10 DEF Disconnect, LeaveTable
<1>11. ASSUME SignOut \/ AgentLeaves PROVE CallInv'
  BY <1>11 DEF SignOut, AgentLeaves
<1>12. CASE UNCHANGED toolsVars
  BY <1>12
<1> QED
  BY <1>1, <1>2, <1>3, <1>4, <1>5, <1>6, <1>7, <1>8, <1>9, <1>10, <1>11, <1>12
  DEF ToolsNext, CallStep, Opening, Person, Declines

\* Only what was allowed goes ahead or makes the conversation's reads allowed, and
\* what was turned down does not.
GoesAhead ==
    /\ \A k \in Calls : pc'[k] = "query" \/ k \in ran' => pc[k] # "idle" /\ Allowed(k)
    /\ \A c \in Chats : reads'[c] => ReadsAllowed(c)

LEMMA GoesAheadStep ==
    ASSUME ToolsInv, [ToolsNext]_toolsVars
    PROVE  GoesAhead
<1> USE DEF GoesAhead, ToolsInv, ToolsTypeOK, CallInv, AnswerInv,
   Down, toolsVars, chats, approvals, callVars, endings,
   history, CallsOf
<1>1. ASSUME NEW c \in Chats, NEW s \in Sessions, NEW ask \in BOOLEAN, Look(c, s, ask)
      PROVE GoesAhead
  BY <1>1 DEF Look
<1>2. ASSUME NEW c \in Chats, Create(c) \/ SetupOk(c) \/ SetupFails(c)
      PROVE GoesAhead
  BY <1>2 DEF Create, SetupOk, SetupFails
<1>3. ASSUME NEW k \in Calls, NEW c \in Chats, Arrive(k, c) PROVE GoesAhead
  BY <1>3 DEF Arrive
<1>4. ASSUME NEW k \in Calls, FindSession(k) PROVE GoesAhead
  BY <1>4 DEF FindSession, Goto
<1>5. ASSUME NEW k \in Calls, CheckReads(k) PROVE GoesAhead
  BY <1>5 DEF CheckReads, Goto, Allowed
<1>6. ASSUME NEW k \in Calls, Ask(k) PROVE GoesAhead
  BY <1>6 DEF Ask, Goto
<1>7. ASSUME NEW k \in Calls, Proceed(k) PROVE GoesAhead
  BY <1>7 DEF Proceed, Goto, Allowed, ReadsAllowed
<1>8. ASSUME NEW k \in Calls, Query(k) PROVE GoesAhead
  BY <1>8 DEF Query, Goto
<1>9. ASSUME NEW k \in Calls, NEW d \in {"once", "reads", "decline"}, AnswerCall(k, d)
      PROVE GoesAhead
  BY <1>9 DEF AnswerCall
<1>10. ASSUME NEW c \in Chats, CancelTurn(c) PROVE GoesAhead
  BY <1>10 DEF CancelTurn, TurnDown
<1>11. ASSUME NEW w \in Enders, NEW c \in Chats, Decline(w, c) PROVE GoesAhead
  BY <1>11 DEF Decline, TurnDown
<1>12. ASSUME NEW c \in Chats, LeftDeclines(c) PROVE GoesAhead
  BY <1>12 DEF LeftDeclines, TurnDown
<1>13. ASSUME NEW c \in Chats, CloseChat(c) \/ SignOutTakes(c) PROVE GoesAhead
  BY <1>13 DEF CloseChat, SignOutTakes
<1>14. ASSUME NEW s \in Sessions, Disconnect(s) \/ LeaveTable(s) PROVE GoesAhead
  BY <1>14 DEF Disconnect, LeaveTable
<1>15. ASSUME SignOut \/ AgentLeaves PROVE GoesAhead
  BY <1>15 DEF SignOut, AgentLeaves
<1>16. CASE UNCHANGED toolsVars
  BY <1>16
<1> QED
  BY <1>1, <1>2, <1>3, <1>4, <1>5, <1>6, <1>7, <1>8, <1>9, <1>10, <1>11, <1>12, <1>13,
     <1>14, <1>15, <1>16
  DEF ToolsNext, CallStep, Opening, Person, Declines

\* What was turned down stays down.
LEMMA DownStep ==
    ASSUME ToolsInv, [ToolsNext]_toolsVars
    PROVE  Down'
<1> USE DEF Down, ToolsInv, ToolsTypeOK, CallInv, AnswerInv,
   toolsVars, chats, approvals, callVars, endings, history,
   CallsOf
<1>1. ASSUME NEW c \in Chats, NEW s \in Sessions, NEW ask \in BOOLEAN, Look(c, s, ask)
      PROVE Down'
  BY <1>1 DEF Look
<1>2. ASSUME NEW c \in Chats, Create(c) \/ SetupOk(c) \/ SetupFails(c)
      PROVE Down'
  BY <1>2 DEF Create, SetupOk, SetupFails
<1>3. ASSUME NEW k \in Calls, NEW c \in Chats, Arrive(k, c) PROVE Down'
  BY <1>3 DEF Arrive
<1>4. ASSUME NEW k \in Calls, FindSession(k) PROVE Down'
  BY <1>4 DEF FindSession, Goto
<1>5. ASSUME NEW k \in Calls, CheckReads(k) PROVE Down'
  BY <1>5 DEF CheckReads, Goto, Allowed
<1>6. ASSUME NEW k \in Calls, Ask(k) PROVE Down'
  BY <1>6 DEF Ask, Goto
<1>7. ASSUME NEW k \in Calls, Proceed(k) PROVE Down'
  BY <1>7 DEF Proceed, Goto, Allowed, ReadsAllowed
<1>8. ASSUME NEW k \in Calls, Query(k) PROVE Down'
  BY <1>8 DEF Query, Goto
<1>9. ASSUME NEW k \in Calls, NEW d \in {"once", "reads", "decline"}, AnswerCall(k, d)
      PROVE Down'
  BY <1>9 DEF AnswerCall
<1>10. ASSUME NEW c \in Chats, CancelTurn(c) PROVE Down'
  BY <1>10 DEF CancelTurn, TurnDown
<1>11. ASSUME NEW w \in Enders, NEW c \in Chats, Decline(w, c) PROVE Down'
  BY <1>11 DEF Decline, TurnDown
<1>12. ASSUME NEW c \in Chats, LeftDeclines(c) PROVE Down'
  BY <1>12 DEF LeftDeclines, TurnDown
<1>13. ASSUME NEW c \in Chats, CloseChat(c) \/ SignOutTakes(c) PROVE Down'
  BY <1>13 DEF CloseChat, SignOutTakes
<1>14. ASSUME NEW s \in Sessions, Disconnect(s) \/ LeaveTable(s) PROVE Down'
  BY <1>14 DEF Disconnect, LeaveTable
<1>15. ASSUME SignOut \/ AgentLeaves PROVE Down'
  BY <1>15 DEF SignOut, AgentLeaves
<1>16. CASE UNCHANGED toolsVars
  BY <1>16
<1> QED
  BY <1>1, <1>2, <1>3, <1>4, <1>5, <1>6, <1>7, <1>8, <1>9, <1>10, <1>11, <1>12, <1>13,
     <1>14, <1>15, <1>16
  DEF ToolsNext, CallStep, Opening, Person, Declines

\* Every step keeps what is known of the answers.
LEMMA AnswerInvStep ==
    ASSUME ToolsInv, [ToolsNext]_toolsVars
    PROVE  AnswerInv'
<1>1. GoesAhead
  BY GoesAheadStep
<1>2. ASSUME NEW k \in Calls, pc'[k] = "query" \/ k \in ran' PROVE Allowed(k)'
  BY <1>1, <1>2, AllowedStays DEF GoesAhead
<1>3. ASSUME NEW c \in Chats, reads'[c] PROVE ReadsAllowed(c)'
  BY <1>1, <1>3, AllowedStays DEF GoesAhead
<1>4. Down'
  BY DownStep
<1> QED
  BY <1>2, <1>3, <1>4 DEF AnswerInv, Down

\* Every step keeps what is known of who declines.
LEMMA DeclineInvStep ==
    ASSUME ToolsInv, [ToolsNext]_toolsVars
    PROVE  DeclineInv'
<1> USE DEF DeclineInv, ToolsInv, ToolsTypeOK, CallInv, toolsVars,
   chats, approvals, callVars, endings, history,
   CallsOf, Items, Enders
<1>1. ASSUME NEW c \in Chats, NEW s \in Sessions, NEW ask \in BOOLEAN, Look(c, s, ask)
      PROVE DeclineInv'
  BY <1>1 DEF Look
<1>2. ASSUME NEW c \in Chats, Create(c) \/ SetupOk(c) \/ SetupFails(c)
      PROVE DeclineInv'
  BY <1>2 DEF Create, SetupOk, SetupFails
<1>3. ASSUME NEW k \in Calls, NEW c \in Chats, Arrive(k, c) PROVE DeclineInv'
  BY <1>3 DEF Arrive
<1>4. ASSUME NEW k \in Calls, FindSession(k) \/ CheckReads(k) \/ Proceed(k) \/ Query(k)
      PROVE DeclineInv'
  BY <1>4 DEF FindSession, CheckReads, Proceed, Query, Goto
<1>5. ASSUME NEW k \in Calls, Ask(k) PROVE DeclineInv'
  <2>1. UNCHANGED <<chats, endings>>
    BY <1>5 DEF Ask
  <2>2. ASSUME NEW j \in (inTime \cap waiting)'
        PROVE  /\ chatOf'[j] = chatOf[j]
               /\ j \in inTime \cap waiting \/ (agentUp /\ chat[chatOf[j]] \in {"setup", "ready"})
    BY <1>5, <2>2 DEF Ask, Goto
  <2>3. ASSUME NEW j \in (inTime \cap waiting)', chat'[chatOf'[j]] = "gone"
        PROVE  \E w \in Enders : <<w, chatOf'[j]>> \in declining'
    BY <2>1, <2>2, <2>3
  <2>4. ASSUME NEW j \in (inTime \cap waiting)', ~agentUp', chat'[chatOf'[j]] # "gone"
        PROVE  chatOf'[j] \in leaving'
    BY <2>1, <2>2, <2>4
  <2>5. /\ agentUp' => leaving' = {}
        /\ \A c \in Chats : <<"disconnect", c>> \in declining' => chat'[c] = "gone" /\ disc'[sessionOf'[c]] = "ending"
        /\ \A c \in signing' \cup leaving' : chat'[c] # "new"
    BY <2>1
  <2> QED
    BY <2>3, <2>4, <2>5
<1>6. ASSUME NEW k \in Calls, NEW d \in {"once", "reads", "decline"}, AnswerCall(k, d)
      PROVE DeclineInv'
  BY <1>6 DEF AnswerCall
<1>7. ASSUME NEW c \in Chats, CancelTurn(c) PROVE DeclineInv'
  BY <1>7 DEF CancelTurn, TurnDown
<1>8. ASSUME NEW w \in Enders, NEW c \in Chats, Decline(w, c)
      PROVE DeclineInv'
  BY <1>8 DEF Decline, TurnDown
<1>9. ASSUME NEW c \in Chats, LeftDeclines(c) PROVE DeclineInv'
  BY <1>9 DEF LeftDeclines, TurnDown
<1>10. ASSUME NEW c \in Chats, CloseChat(c) PROVE DeclineInv'
  BY <1>10 DEF CloseChat
<1>11. ASSUME NEW c \in Chats, SignOutTakes(c) PROVE DeclineInv'
  BY <1>11 DEF SignOutTakes
<1>12. ASSUME NEW s \in Sessions, Disconnect(s) PROVE DeclineInv'
  BY <1>12 DEF Disconnect
<1>13. ASSUME NEW s \in Sessions, LeaveTable(s) PROVE DeclineInv'
  BY <1>13 DEF LeaveTable
<1>14. ASSUME SignOut PROVE DeclineInv'
  BY <1>14 DEF SignOut
<1>15. ASSUME AgentLeaves PROVE DeclineInv'
  BY <1>15 DEF AgentLeaves
<1>16. CASE UNCHANGED toolsVars
  BY <1>16
<1> HIDE DEF DeclineInv, ToolsInv
<1> QED
  BY <1>1, <1>2, <1>3, <1>4, <1>5, <1>6, <1>7, <1>8, <1>9, <1>10, <1>11, <1>12, <1>13,
     <1>14, <1>15, <1>16
  DEF ToolsNext, CallStep, Opening, Person, Declines

LEMMA ToolsStart == ToolsInit => ToolsInv
  BY ToolsAssumption DEF ToolsAssumption, ToolsInit, ToolsInv, ToolsTypeOK, CallInv, AnswerInv,
     Down, DeclineInv, ReadsAllowed, Enders

\* The inductive invariant holds in every state.
THEOREM ToolsInvariance == ToolsSpec => []ToolsInv
<1>1. ToolsInv /\ [ToolsNext]_toolsVars => ToolsInv'
  BY ToolsTypeStep, CallInvStep, AnswerInvStep, DeclineInvStep DEF ToolsInv
<1> QED
  BY <1>1, ToolsStart, PTL DEF ToolsSpec

\* The variables of the conversations, approvals and calls keep their types.
THEOREM ToolsTypeCorrect == ToolsSpec => []ToolsTypeOK
<1>1. ToolsInv => ToolsTypeOK
  BY DEF ToolsInv
<1> QED
  BY <1>1, ToolsInvariance, PTL

\* No query of a conversation that asks is run unless the person allowed it, and
\* none that was turned down (approve, Approvals).
THEOREM QueriesAreAllowed == ToolsSpec => [](NoQueryUnasked /\ TurnedDownStaysDown)
<1>1. ToolsInv => NoQueryUnasked /\ TurnedDownStaysDown
  BY DEF ToolsInv, ToolsTypeOK, AnswerInv, Down, NoQueryUnasked,
     TurnedDownStaysDown
<1> QED
  BY <1>1, ToolsInvariance, PTL

\* What waits when its conversation or the agent goes is turned down by somebody.
THEOREM WaitingIsDeclined == ToolsSpec => []LeftHasDecliner
<1>1. ToolsInv => LeftHasDecliner
  BY DEF ToolsInv, DeclineInv, LeftHasDecliner, LeftWaiting
<1> QED
  BY <1>1, ToolsInvariance, PTL

\* A session leaves the table after the calls of the conversations it took.
THEOREM ConversationsEndFirst == ToolsSpec => []CallsEndBeforeSession
<1>1. ASSUME ToolsInv, NEW k \in inTime \cap waiting, chat[chatOf[k]] = "gone", ~InTable(sessionOf[chatOf[k]])
      PROVE  \E w \in {"close", "signOut"} : <<w, chatOf[k]>> \in declining
  <2>1. PICK w \in Enders : <<w, chatOf[k]>> \in declining
    BY <1>1 DEF ToolsInv, DeclineInv
  <2>2. chatOf[k] \in Chats
    BY <1>1 DEF ToolsInv, ToolsTypeOK, CallInv
  <2>3. w # "disconnect"
    BY <1>1, <2>1, <2>2 DEF ToolsInv, DeclineInv, InTable
  <2> QED
    BY <2>1, <2>3 DEF Enders
<1>2. ToolsInv => CallsEndBeforeSession
  BY <1>1 DEF CallsEndBeforeSession
<1> QED
  BY <1>2, ToolsInvariance, PTL

=============================================================================
