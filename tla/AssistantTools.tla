--------------------------- MODULE AssistantTools ---------------------------
(***************************************************************************)
(* The conversations with the assistant and the queries its agent asks for *)
(* (assistant/tools.rs, approvals.rs, conversation.rs, mcp.rs): a query     *)
(* waits until the person lets it run or until what it belongs to ends: the *)
(* turn, the conversation, the database session, the sign-in or the agent   *)
(* (assistant/mod.rs, agent.rs, commands/connect.rs).  All of these run on  *)
(* several threads; each action is one critical section or atomic access.  *)
(***************************************************************************)
EXTENDS Naturals

CONSTANTS
    Calls,   \* calls of run_query, or of explain_query with ANALYZE
    Chats,   \* conversations
    Sessions, \* database sessions
    None,      \* no conversation or session yet
    MaxEndings \* bound: closes, disconnects, sign-outs and departures of the agent

ASSUME ToolsAssumption == None \notin Chats \cup Sessions /\ MaxEndings \in Nat

VARIABLES
    \* Conversations.items, and a chat's way in and out of it
    chat,      \* "new", "looked" at its session, "setup", "ready" or "gone"
    sessionOf, \* driver_session
    asks,      \* options.ask_before_queries
    reads,     \* reads_allowed
    \* the calls in Approvals.pending, and the answer sent to a call
    waiting,
    decision,  \* "none", "once", "reads" or "decline"
    \* a call
    pc, chatOf,
    \* what ends things
    disc,      \* disconnect of a session: "open", "ending" or "removed"
    declining, \* chats taken out of items, by whom, and not declined yet
    signing,   \* chats sign_out has yet to take
    agentUp,
    leaving,   \* chats agent_left has yet to decline
    ended,     \* counts what ended
    \* history, for the properties
    turned,    \* calls that were answered "decline"
    inTime,    \* calls that asked while their chat was there and the agent ran
    ran        \* calls whose query was run

chats == <<chat, sessionOf, asks>>
approvals == <<waiting, decision, reads>>
callVars == <<pc, chatOf>>
endings == <<disc, declining, signing, agentUp, leaving, ended>>
history == <<turned, inTime, ran>>
toolsVars == <<chats, approvals, callVars, endings, history>>

Items == {c \in Chats : chat[c] \in {"setup", "ready"}}
InTable(s) == disc[s] \in {"open", "ending"}
CallsOf(c) == {k \in Calls : pc[k] # "idle" /\ chatOf[k] = c}
Enders == {"close", "disconnect", "signOut"}

\* Every variable keeps its type, and a pending approval is of a call that waits
\* unanswered.
ToolsTypeOK ==
    /\ chat \in [Chats -> {"new", "looked", "setup", "ready", "gone"}]
    /\ sessionOf \in [Chats -> Sessions \cup {None}] /\ \A c \in Chats : chat[c] # "new" => sessionOf[c] # None
    /\ asks \in [Chats -> BOOLEAN] /\ reads \in [Chats -> BOOLEAN]
    /\ decision \in [Calls -> {"none", "once", "reads", "decline"}]
    /\ pc \in [Calls -> {"idle", "arrived", "found", "ask", "wait", "query", "done"}]
    /\ chatOf \in [Calls -> Chats \cup {None}] /\ \A k \in Calls : pc[k] # "idle" => chatOf[k] # None
    /\ disc \in [Sessions -> {"open", "ending", "removed"}]
    /\ declining \subseteq Enders \X Chats /\ signing \subseteq Chats /\ leaving \subseteq Chats
    /\ agentUp \in BOOLEAN /\ ended \in 0..MaxEndings
    /\ waiting \subseteq Calls
    /\ \A k \in waiting : pc[k] = "wait" /\ decision[k] = "none"
    /\ turned \subseteq Calls /\ inTime \subseteq Calls /\ ran \subseteq Calls

ToolsInit ==
    /\ chat = [c \in Chats |-> "new"]
    /\ sessionOf = [c \in Chats |-> None] /\ asks = [c \in Chats |-> FALSE]
    /\ reads = [c \in Chats |-> FALSE]
    /\ waiting = {} /\ decision = [k \in Calls |-> "none"]
    /\ pc = [k \in Calls |-> "idle"] /\ chatOf = [k \in Calls |-> None]
    /\ disc = [s \in Sessions |-> "open"]
    /\ declining = {} /\ signing = {} /\ agentUp = TRUE /\ leaving = {} /\ ended = 0
    /\ turned = {} /\ inTime = {} /\ ran = {}

Goto(k, l) == pc' = [pc EXCEPT ![k] = l] /\ UNCHANGED chatOf

---------------------------------------------------------------------------
(* Assistant::open *)

\* The agent runs and the session is in the table.
Look(c, s, ask) ==
    /\ chat[c] = "new" /\ agentUp /\ InTable(s)
    /\ chat' = [chat EXCEPT ![c] = "looked"]
    /\ sessionOf' = [sessionOf EXCEPT ![c] = s]
    /\ asks' = [asks EXCEPT ![c] = ask]
    /\ UNCHANGED <<approvals, callVars, endings, history>>

\* After reading the schema, whatever happened to the session meanwhile.
Create(c) ==
    /\ chat[c] = "looked"
    /\ chat' = [chat EXCEPT ![c] = "setup"]
    /\ UNCHANGED <<sessionOf, asks, approvals, callVars, endings, history>>

\* The agent answers, perhaps after the conversation was taken out.
SetupOk(c) ==
    /\ chat[c] = "setup" /\ agentUp
    /\ chat' = [chat EXCEPT ![c] = "ready"]
    /\ UNCHANGED <<sessionOf, asks, approvals, callVars, endings, history>>

\* Nothing is declined: a conversation that wasn't opened has had no turn.
SetupFails(c) ==
    /\ chat[c] = "setup"
    /\ chat' = [chat EXCEPT ![c] = "gone"]
    /\ UNCHANGED <<sessionOf, asks, approvals, callVars, endings, history>>

---------------------------------------------------------------------------
(* A call: authorize, Tools::call, approve, run_query, explain_query *)

\* The agent sends a token it was given, in a turn of that conversation.
Arrive(k, c) ==
    /\ pc[k] = "idle" /\ agentUp /\ chat[c] = "ready"
    /\ pc' = [pc EXCEPT ![k] = "arrived"]
    /\ chatOf' = [chatOf EXCEPT ![k] = c]
    /\ UNCHANGED <<chats, approvals, endings, history>>

\* No session, a statement that doesn't only read, no reader: an error.
FindSession(k) ==
    /\ pc[k] = "arrived"
    /\ \/ InTable(sessionOf[chatOf[k]]) /\ Goto(k, "found")
       \/ Goto(k, "done")
    /\ UNCHANGED <<chats, approvals, endings, history>>

\* Mutant: reads are allowed in the session, not in the conversation.
CheckReadsInSession(k) ==
    /\ pc[k] = "found"
    /\ LET allowed == \E c \in Chats : sessionOf[c] = sessionOf[chatOf[k]] /\ reads[c]
       IN  Goto(k, IF ~asks[chatOf[k]] \/ allowed THEN "query" ELSE "ask")
    /\ UNCHANGED <<chats, approvals, endings, history>>

CheckReads(k) ==
    /\ pc[k] = "found"
    /\ Goto(k, IF ~asks[chatOf[k]] \/ reads[chatOf[k]] THEN "query" ELSE "ask")
    /\ UNCHANGED <<chats, approvals, endings, history>>

\* Approvals::ask: from here on it can be answered.
Ask(k) ==
    /\ pc[k] = "ask"
    /\ waiting' = waiting \cup {k}
    /\ inTime' = IF agentUp /\ chatOf[k] \in Items THEN inTime \cup {k} ELSE inTime
    /\ Goto(k, "wait")
    /\ UNCHANGED <<chats, decision, reads, endings, turned, ran>>

\* Mutant: a decline gives way to reads allowed meanwhile.
ProceedIfRead(k) ==
    /\ pc[k] = "wait" /\ decision[k] # "none"
    /\ reads' = IF decision[k] = "reads" THEN [reads EXCEPT ![chatOf[k]] = TRUE] ELSE reads
    /\ Goto(k, IF decision[k] = "decline" /\ ~reads[chatOf[k]] THEN "done" ELSE "query")
    /\ UNCHANGED <<chats, waiting, decision, endings, history>>

\* The call gets the answer.
Proceed(k) ==
    /\ pc[k] = "wait" /\ decision[k] # "none"
    /\ reads' = IF decision[k] = "reads" THEN [reads EXCEPT ![chatOf[k]] = TRUE] ELSE reads
    /\ Goto(k, IF decision[k] = "decline" THEN "done" ELSE "query")
    /\ UNCHANGED <<chats, waiting, decision, endings, history>>

\* The query runs, on the driver that was found; its answer is the driver's.
Query(k) ==
    /\ pc[k] = "query"
    /\ ran' = ran \cup {k}
    /\ Goto(k, "done")
    /\ UNCHANGED <<chats, approvals, endings, turned, inTime>>

---------------------------------------------------------------------------
(* Approvals::answer and decline_all *)

AnswerCall(k, d) ==
    /\ k \in waiting
    /\ waiting' = waiting \ {k}
    /\ decision' = [decision EXCEPT ![k] = d]
    /\ turned' = IF d = "decline" THEN turned \cup {k} ELSE turned
    /\ UNCHANGED <<chats, reads, callVars, endings, inTime, ran>>

TurnDown(c) ==
    LET S == waiting \cap CallsOf(c) IN
    /\ waiting' = waiting \ S
    /\ decision' = [k \in Calls |-> IF k \in S THEN "decline" ELSE decision[k]]
    /\ turned' = turned \cup S
    /\ UNCHANGED reads

---------------------------------------------------------------------------
(* What ends a wait *)

Ending == ended < MaxEndings /\ ended' = ended + 1

\* Assistant::cancel: the person stops the turn.
CancelTurn(c) ==
    /\ chat[c] = "ready"
    /\ TurnDown(c)
    /\ UNCHANGED <<chats, callVars, endings, inTime, ran>>

\* Mutant: the conversation is only taken out.
CloseForgets(c) ==
    /\ chat[c] = "ready" /\ Ending
    /\ chat' = [chat EXCEPT ![c] = "gone"]
    /\ UNCHANGED <<sessionOf, asks, approvals, callVars, disc, declining, signing, agentUp, leaving, history>>

\* close_conversation takes the conversation out ...
CloseChat(c) ==
    /\ chat[c] = "ready" /\ Ending
    /\ chat' = [chat EXCEPT ![c] = "gone"]
    /\ declining' = declining \cup {<<"close", c>>}
    /\ UNCHANGED <<sessionOf, asks, approvals, callVars, disc, signing, agentUp, leaving, history>>

\* ... and whoever took it declines what it waits on (stop_turn).
Decline(w, c) ==
    /\ <<w, c>> \in declining
    /\ declining' = declining \ {<<w, c>>}
    /\ TurnDown(c)
    /\ UNCHANGED <<chats, callVars, disc, signing, agentUp, leaving, ended, inTime, ran>>

\* disconnect: the session's conversations are taken out, all at once ...
Disconnect(s) ==
    LET taken == {c \in Items : sessionOf[c] = s} IN
    /\ disc[s] = "open" /\ Ending
    /\ disc' = [disc EXCEPT ![s] = "ending"]
    /\ chat' = [c \in Chats |-> IF c \in taken THEN "gone" ELSE chat[c]]
    /\ declining' = declining \cup {<<"disconnect", c>> : c \in taken}
    /\ UNCHANGED <<sessionOf, asks, approvals, callVars, signing, agentUp, leaving, history>>

\* Mutant: the session leaves without waiting for its conversations.
LeaveTableAtOnce(s) ==
    /\ disc[s] = "ending"
    /\ disc' = [disc EXCEPT ![s] = "removed"]
    /\ UNCHANGED <<chats, approvals, callVars, declining, signing, agentUp, leaving, ended, history>>

\* ... and when they are declined it leaves the table, and its driver closes.
LeaveTable(s) ==
    /\ disc[s] = "ending"
    /\ \A c \in Chats : sessionOf[c] = s => <<"disconnect", c>> \notin declining
    /\ disc' = [disc EXCEPT ![s] = "removed"]
    /\ UNCHANGED <<chats, approvals, callVars, declining, signing, agentUp, leaving, ended, history>>

\* sign_out goes over the conversations there are once the account is gone ...
SignOut ==
    /\ agentUp /\ signing = {} /\ Ending
    /\ signing' = Items
    /\ UNCHANGED <<chats, approvals, callVars, disc, declining, agentUp, leaving, history>>

\* ... and ends each in turn, taken out by somebody else or not.
SignOutTakes(c) ==
    /\ c \in signing /\ \A d \in Chats : <<"signOut", d>> \notin declining
    /\ signing' = signing \ {c}
    /\ chat' = [chat EXCEPT ![c] = "gone"]
    /\ declining' = declining \cup {<<"signOut", c>>}
    /\ UNCHANGED <<sessionOf, asks, approvals, callVars, disc, agentUp, leaving, ended, history>>

\* agent_left: nobody reads the answers any more; what waits in the
\* conversations that are still there is declined.
AgentLeaves ==
    /\ agentUp /\ Ending
    /\ agentUp' = FALSE
    /\ leaving' = Items
    /\ UNCHANGED <<chats, approvals, callVars, disc, declining, signing, history>>

LeftDeclines(c) ==
    /\ c \in leaving
    /\ leaving' = leaving \ {c}
    /\ TurnDown(c)
    /\ UNCHANGED <<chats, callVars, disc, declining, signing, agentUp, ended, inTime, ran>>

---------------------------------------------------------------------------

\* What the backend does on its own.
CallStep(k) == FindSession(k) \/ CheckReads(k) \/ Ask(k) \/ Proceed(k) \/ Query(k)
Declines == \/ \E c \in Chats : LeftDeclines(c) \/ SignOutTakes(c)
            \/ \E w \in Enders, c \in Chats : Decline(w, c)

\* What the person and the agent may do.
Opening(c) == (\E s \in Sessions, ask \in BOOLEAN : Look(c, s, ask)) \/ Create(c) \/ SetupOk(c) \/ SetupFails(c)
Person == \/ \E k \in Calls, d \in {"once", "reads", "decline"} : AnswerCall(k, d)
          \/ \E c \in Chats : CancelTurn(c) \/ CloseChat(c)
          \/ \E s \in Sessions : Disconnect(s)
          \/ SignOut

ToolsNext ==
    \/ \E k \in Calls : CallStep(k) \/ \E c \in Chats : Arrive(k, c)
    \/ \E c \in Chats : Opening(c)
    \/ Person
    \/ Declines
    \/ \E s \in Sessions : LeaveTable(s)
    \/ AgentLeaves

ToolsSpec == ToolsInit /\ [][ToolsNext]_toolsVars

---------------------------------------------------------------------------
(* Properties *)

\* The person allowed reads in a conversation.
ReadsAllowed(c) == \E k \in Calls : chatOf[k] = c /\ decision[k] = "reads"

\* A call may run.
Allowed(k) == ~asks[chatOf[k]] \/ decision[k] = "once" \/ ReadsAllowed(chatOf[k])

\* A conversation that asks before queries runs one only if the person let it run,
\* or allowed reads in that conversation and no other (approve).
NoQueryUnasked ==
    \A k \in ran : Allowed(k)

\* A query that was turned down is never run, whatever the person answers in the
\* same moment (decline_all, answer).
TurnedDownStaysDown == ran \cap turned = {}

\* When a conversation is taken out, by whomever, or the agent leaves, what waited
\* then is answered, or somebody is about to turn it down: no two of them leave it
\* to each other (close_conversation, close_for_session, sign_out, agent_left).
LeftWaiting(k) == k \in inTime \cap waiting /\ (~agentUp \/ chat[chatOf[k]] = "gone")

LeftHasDecliner ==
    \A k \in Calls : LeftWaiting(k) =>
        chatOf[k] \in leaving \/ \E w \in Enders : <<w, chatOf[k]>> \in declining

\* When a session has left the table, no call that waited in a conversation the
\* disconnect took is still waiting ("its conversations end first").
CallsEndBeforeSession ==
    \A k \in inTime \cap waiting : chat[chatOf[k]] = "gone" /\ ~InTable(sessionOf[chatOf[k]]) =>
        \E w \in {"close", "signOut"} : <<w, chatOf[k]>> \in declining


---------------------------------------------------------------------------
(* What the proofs need to be known of every state *)

\* A call was in time, or was answered, only once it asked, and it belongs to a conversation
\* that was opened.
CallInv ==
    /\ \A k \in Calls : pc[k] # "idle" => chat[chatOf[k]] \in {"ready", "gone"}
    /\ \A k \in Calls : k \in inTime \/ decision[k] # "none" => pc[k] \in {"wait", "query", "done"}

\* What was turned down goes nowhere, and what was run is done.
Down ==
    /\ \A k \in turned : decision[k] = "decline" /\ pc[k] \in {"wait", "done"} /\ k \notin ran
    /\ \A k \in ran : pc[k] = "done"

\* What goes ahead was allowed, and what was turned down goes nowhere.
AnswerInv ==
    /\ \A k \in Calls : pc[k] = "query" \/ k \in ran => Allowed(k)
    /\ \A c \in Chats : reads[c] => ReadsAllowed(c)
    /\ Down

\* A conversation that was taken out while a call waits is being declined by whoever
\* took it, before the disconnect goes on; agent_left sees to the others.
DeclineInv ==
    /\ \A k \in inTime \cap waiting : chat[chatOf[k]] = "gone" => \E w \in Enders : <<w, chatOf[k]>> \in declining
    /\ \A k \in inTime \cap waiting : ~agentUp /\ chat[chatOf[k]] # "gone" => chatOf[k] \in leaving
    /\ agentUp => leaving = {}
    /\ \A c \in Chats : <<"disconnect", c>> \in declining => chat[c] = "gone" /\ disc[sessionOf[c]] = "ending"
    /\ \A c \in signing \cup leaving : chat[c] # "new"

\* The inductive invariant: nothing runs that was not allowed, and nothing that
\* waited when its conversation went is left behind.
ToolsInv == ToolsTypeOK /\ CallInv /\ AnswerInv /\ DeclineInv
=============================================================================
