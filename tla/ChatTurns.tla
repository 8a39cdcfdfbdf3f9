----------------------------- MODULE ChatTurns ------------------------------
(***************************************************************************)
(* The assistant of vectors/chat.rs, vectors/chat_orchestrator.rs and      *)
(* api/ai.rs: chat requests that share a session, the tool loop that runs  *)
(* before a reply, the tool calls that wait for the user, and the deletion *)
(* of a session meanwhile.  The session map is locked for each step and    *)
(* released around every call of a model.                                  *)
(***************************************************************************)
EXTENDS Integers, Sequences

CONSTANTS
    Turns,          \* chat requests
    ChatSessions,   \* session ids
    OpenTools,      \* tools that run at once
    GatedTools,     \* tools with requires_confirmation
    MaxHistory,     \* max_history_messages
    MaxRounds,      \* max_tool_iterations
    MaxDeletes,     \* bound: sessions deleted
    Gone            \* a session that is not in the map

ASSUME ChatAssumption ==
    /\ MaxHistory \in Nat \ {0} /\ MaxRounds \in Nat /\ MaxDeletes \in Nat
    /\ OpenTools \cap GatedTools = {}

VARIABLES
    sessions,   \* ChatService.sessions: the messages of each
    turns,      \* where each request is
    pending,    \* AppState.pending_confirmations, by confirmation id
    provider,   \* history: the tool-calling provider: none, one that mints ids, or Ollama
    executed,   \* history: tool calls dispatched, by turn
    answered,   \* history: turns whose parked call the user approved or rejected
    dropped,    \* history: turns whose question the window or a deletion removed
    deletes

chatVars == <<sessions, turns, pending, provider, executed, answered, dropped, deletes>>

-----------------------------------------------------------------------------
Tools == OpenTools \cup GatedTools

Message == [role : {"user", "assistant"}, turn : Turns]

\* A missing session is not one with messages.
ASSUME GoneAssumption == Gone \notin Seq(Message)

\* Turns are their own confirmation ids; Ollama's calls are numbered from zero
\* in each response.
ConfirmationIds == Turns \cup {0}

Parked == [session : ChatSessions, tool : GatedTools, turn : Turns]

NoCall == [session |-> Gone]

ChatPcs == {"idle", "model", "tools", "park", "push", "prompt", "generate", "reply", "done",
            "panicked"}

Quiet == [pc |-> "idle", session |-> Gone, round |-> 0, batch |-> {}]

TurnTo(t, label) == turns' = [turns EXCEPT ![t].pc = label]

Exists(s) == sessions[s] # Gone

Messages(s) == IF Exists(s) THEN sessions[s] ELSE << >>

Questions(q) == {q[i].turn : i \in {k \in DOMAIN q : q[k].role = "user"}}

\* push_message keeps the last messages of the window.
Window(q) == SubSeq(q, IF Len(q) > MaxHistory THEN Len(q) - MaxHistory + 1 ELSE 1, Len(q))

PushMessage(s, role, t) ==
    LET q == Append(Messages(s), [role |-> role, turn |-> t])
    IN  /\ sessions' = [sessions EXCEPT ![s] = Window(q)]
        /\ dropped' = dropped \cup (Questions(q) \ Questions(SubSeq(q, Len(q) - Len(Window(q)) + 1, Len(q))))

\* tc.id, or format!("ollama_{i}") for the one call of the response.
ConfirmationId(t) == IF provider = "ollama" THEN 0 ELSE t

-----------------------------------------------------------------------------
ChatInit ==
    /\ sessions = [s \in ChatSessions |-> Gone]
    /\ turns = [t \in Turns |-> Quiet]
    /\ pending = [i \in ConfirmationIds |-> NoCall]
    /\ provider \in {"none", "minting", "ollama"}
    /\ executed = [t \in Turns |-> {}] /\ answered = {} /\ dropped = {} /\ deletes = 0

\* A chat request without a tool-calling provider: straight to ChatService::chat.
AskPlain(t) ==
    /\ turns[t].pc = "idle" /\ provider = "none"
    /\ \E s \in ChatSessions : turns' = [turns EXCEPT ![t] = [Quiet EXCEPT !.pc = "push", !.session = s]]
    /\ UNCHANGED <<sessions, pending, provider, executed, answered, dropped, deletes>>

\* With one: get_or_create_session, then the tool loop over a copy of the history.
AskOrchestrated(t) ==
    /\ turns[t].pc = "idle" /\ provider # "none"
    /\ \E s \in ChatSessions :
          /\ turns' = [turns EXCEPT ![t] = [Quiet EXCEPT !.pc = "model", !.session = s]]
          /\ sessions' = [sessions EXCEPT ![s] = Messages(s)]
    /\ UNCHANGED <<pending, provider, executed, answered, dropped, deletes>>

\* Mutant: only the first call of the response is looked at.
GatedFirst(B) == IF B \cap OpenTools = {} THEN B ELSE {}

\* The calls of a response that require confirmation; one is enough to stop it.
Gated(B) == B \cap GatedTools

\* The model answers in text, fails, or asks for tool calls.
CallModel(t) ==
    /\ turns[t].pc = "model" /\ turns[t].round < MaxRounds
    /\ \/ TurnTo(t, "push")
       \/ TurnTo(t, "done")
       \/ \E B \in (SUBSET Tools) \ {{}} :
             turns' = [turns EXCEPT ![t].pc = IF Gated(B) = {} THEN "tools" ELSE "park",
                                    ![t].batch = IF Gated(B) = {} THEN B ELSE Gated(B)]
    /\ UNCHANGED <<sessions, pending, provider, executed, answered, dropped, deletes>>

\* The iterations are used up: MaxIterationsReached, and nothing is recorded.
GiveUp(t) ==
    /\ turns[t].pc = "model" /\ turns[t].round = MaxRounds
    /\ TurnTo(t, "done")
    /\ UNCHANGED <<sessions, pending, provider, executed, answered, dropped, deletes>>

NextRound(t) == turns[t].round + 1

\* The executor dispatches one call of the batch; its answer, or its error, goes
\* back to the model.
RunTool(t) ==
    /\ turns[t].pc = "tools"
    /\ \E tool \in turns[t].batch :
          LET left == turns[t].batch \ {tool}
          IN  /\ executed' = [executed EXCEPT ![t] = @ \cup {tool}]
              /\ turns' = [turns EXCEPT ![t].batch = left,
                                        ![t].pc = IF left = {} THEN "model" ELSE "tools",
                                        ![t].round = IF left = {} THEN NextRound(t) ELSE @]
    /\ UNCHANGED <<sessions, pending, provider, answered, dropped, deletes>>

\* The first such call is stored for the confirm endpoint, and the request ends.
ParkCall(t) ==
    /\ turns[t].pc = "park"
    /\ \E tool \in turns[t].batch :
          pending' = [pending EXCEPT ![ConfirmationId(t)] =
                          [session |-> turns[t].session, tool |-> tool, turn |-> t]]
    /\ TurnTo(t, "done")
    /\ UNCHANGED <<sessions, provider, executed, answered, dropped, deletes>>

\* confirm_tool_call removes the entry, approved or rejected; nothing runs it.
Confirm(i) ==
    /\ pending[i] # NoCall
    /\ answered' = answered \cup {pending[i].turn}
    /\ pending' = [pending EXCEPT ![i] = NoCall]
    /\ UNCHANGED <<sessions, turns, provider, executed, dropped, deletes>>

\* ChatService::chat records the question in the session, made when missing.
PushQuestion(t) ==
    /\ turns[t].pc = "push"
    /\ PushMessage(turns[t].session, "user", t)
    /\ TurnTo(t, "prompt")
    /\ UNCHANGED <<pending, provider, executed, answered, deletes>>

\* The prompt is built under a lock of its own: expect("session was just created").
BuildPrompt(t) ==
    /\ turns[t].pc = "prompt"
    /\ TurnTo(t, IF Exists(turns[t].session) THEN "generate" ELSE "panicked")
    /\ UNCHANGED <<sessions, pending, provider, executed, answered, dropped, deletes>>

\* The generation, without a lock; its error leaves the question in the session.
Generate(t) ==
    /\ turns[t].pc = "generate"
    /\ TurnTo(t, "reply") \/ TurnTo(t, "done")
    /\ UNCHANGED <<sessions, pending, provider, executed, answered, dropped, deletes>>

\* The reply is recorded: expect("session exists").
PushReply(t) ==
    /\ turns[t].pc = "reply"
    /\ IF Exists(turns[t].session)
       THEN PushMessage(turns[t].session, "assistant", t) /\ TurnTo(t, "done")
       ELSE TurnTo(t, "panicked") /\ UNCHANGED <<sessions, dropped>>
    /\ UNCHANGED <<pending, provider, executed, answered, deletes>>

\* DELETE /chat/sessions/:id
DeleteSession(s) ==
    /\ Exists(s) /\ deletes < MaxDeletes
    /\ dropped' = dropped \cup Questions(sessions[s])
    /\ sessions' = [sessions EXCEPT ![s] = Gone] /\ deletes' = deletes + 1
    /\ UNCHANGED <<turns, pending, provider, executed, answered>>

TurnStep(t) ==
    \/ CallModel(t) \/ GiveUp(t) \/ RunTool(t) \/ ParkCall(t)
    \/ PushQuestion(t) \/ BuildPrompt(t) \/ Generate(t) \/ PushReply(t)

ChatNext ==
    \/ \E t \in Turns : AskPlain(t) \/ AskOrchestrated(t) \/ TurnStep(t)
    \/ \E i \in ConfirmationIds : Confirm(i)
    \/ \E s \in ChatSessions : DeleteSession(s)

ChatSpec == ChatInit /\ [][ChatNext]_chatVars

\* A request that was begun is polled to its end; the models answer or fail.
ChatFairness == \A t \in Turns : WF_chatVars(TurnStep(t))

ChatFairSpec == ChatSpec /\ ChatFairness

-----------------------------------------------------------------------------
ChatTypeOK ==
    /\ sessions \in [ChatSessions -> Seq(Message) \cup {Gone}]
    /\ \A s \in ChatSessions : Exists(s) => Len(sessions[s]) <= MaxHistory
    /\ turns \in [Turns -> [pc : ChatPcs, session : ChatSessions \cup {Gone}, round : 0..MaxRounds,
                            batch : SUBSET Tools]]
    /\ pending \in [ConfirmationIds -> Parked \cup {NoCall}]
    /\ executed \in [Turns -> SUBSET Tools]
    /\ answered \subseteq Turns /\ dropped \subseteq Turns /\ deletes \in 0..MaxDeletes

\* Requests of one session interleave, but a recorded answer has its question
\* before it, unless the window or a deletion took the question away.
AnswerFollowsQuestion ==
    \A s \in ChatSessions : \A i \in DOMAIN Messages(s) :
        LET m == Messages(s)[i]
        IN  m.role = "assistant" /\ m.turn \notin dropped =>
                \E k \in 1..(i - 1) : Messages(s)[k] = [role |-> "user", turn |-> m.turn]

\* No tool the configuration gates is dispatched by the loop, in whatever
\* company the model asks for it.
NoUnconfirmedTool == \A t \in Turns : executed[t] \cap GatedTools = {}

\* Once the request has told the user of a call that waits, the call can be
\* answered until it was, as long as the ids are the provider's own.
NoConfirmationLost ==
    \A t \in Turns :
        turns[t].pc = "done" /\ Gated(turns[t].batch) # {} /\ provider # "ollama" =>
            t \in answered \/ \E i \in ConfirmationIds : pending[i] # NoCall /\ pending[i].turn = t

TurnOver(t) == turns[t].pc \in {"done", "panicked"}

\* Every request ends, however often the model asks for tools.
TurnsEnd == \A t \in Turns : turns[t].pc # "idle" ~> TurnOver(t)

\* The sessions and the parked calls under requests that interleave.
ChatInv == ChatTypeOK /\ AnswerFollowsQuestion /\ NoUnconfirmedTool /\ NoConfirmationLost
=============================================================================
