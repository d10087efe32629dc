----------------------------- MODULE AiChatTurn -----------------------------
(***************************************************************************)
(* A turn of the AI assistant: the panel of the portal                     *)
(* (frontend/ui/packages/portal/src/components/AiAssistant) sends a        *)
(* message, the backend (AiChatTurnService) streams the answer as events,  *)
(* and the panel keeps the messages it shows in a cache per chat.          *)
(*                                                                         *)
(* JavaScript runs to the next await, so each callback of the panel is one *)
(* action.  On the server every database call is an action; a turn that    *)
(* the panel has left goes on until it notices the cancelled request.      *)
(* Turns are numbered, and stand for the ids of their two messages; a text *)
(* is the number of its deltas.                                            *)
(***************************************************************************)
EXTENDS Naturals, Sequences, SequencesExt

CONSTANTS
  Chat,        \* the ids that chats may get
  History,     \* the chats that exist when the panel is opened
  NoChat,      \* no chat: the welcome screen
  MaxTurns,    \* bound: messages sent from the panel
  MaxDeltas,   \* bound: deltas of an answer
  FaultLimit   \* bound: failed calls, lost connections, deleted chats

ASSUME ChatAssumption ==
  /\ History \subseteq Chat
  /\ NoChat \notin Chat
  /\ MaxTurns \in Nat
  /\ MaxDeltas \in Nat
  /\ FaultLimit \in Nat

Turn == 1 .. MaxTurns
NoTurn == 0

Event == {"start", "delta", "completed", "done", "error"}

\* The rows of a message list.
Row == [role : {"user", "assistant"}, turn : Turn, text : 0 .. MaxDeltas]

VARIABLES
  state,       \* StreamingTurnState, as stateRef holds it
  bootstrap,   \* turnBootstrapRef: the chat of a turn without a batch yet
  turnLock,    \* turnLockRef
  createdChat, \* createdChatThisTurnRef
  controller,  \* abortControllerRef: the turn whose request can be aborted
  aborted,     \* whether that turn's signal is aborted
  active,      \* activeChatId
  submission,  \* the run of submit() that holds the lock
  turns,       \* how many turns have been started
  cache,       \* the messages query of each chat
  load,        \* the request of each messages query
  chats,       \* server: whether each chat exists
  messages,    \* server: the messages of each chat
  server,      \* server: the goroutine of each turn, its chat and its deltas
  wire,        \* the events of each turn that the panel has not read
  connection,  \* the response of each turn
  faults       \* faults so far

panelVars == <<state, bootstrap, turnLock, createdChat, controller, aborted,
               active, submission, turns>>
cacheVars == <<cache, load>>
serverVars == <<messages, server>>
netVars == <<wire, connection>>
vars == <<panelVars, cacheVars, chats, serverVars, netVars, faults>>

-----------------------------------------------------------------------------
(* The turn reducer.                                                        *)

Idle == [status |-> "idle", chat |-> NoChat, message |-> NoTurn, buffer |-> 0]
Pending(c) == [Idle EXCEPT !.status = "pending", !.chat = c]

IsStreamingBusy(s) == s.status # "idle"

\* Mutant: the start of an answer is taken in any state.
ApplyStreamingSseEventM(s, t, event) ==
  CASE event = "start" ->
         [s EXCEPT !.status = "started", !.message = t, !.buffer = 0]
    [] event = "delta" /\ s.status = "started" -> [s EXCEPT !.buffer = @ + 1]
    [] event \in {"completed", "done", "error"} -> Idle
    [] OTHER -> s

\* One event; a turn has one assistant message, which has the turn's number.
ApplyStreamingSseEvent(s, t, event) ==
  CASE event = "start" /\ s.status = "pending" ->
         [s EXCEPT !.status = "started", !.message = t, !.buffer = 0]
    [] event = "delta" /\ s.status = "started" ->
         [s EXCEPT !.buffer = @ + 1]
    [] event \in {"completed", "done", "error"} -> Idle
    [] OTHER -> s

\* The states after the first events of a batch.
SseBatchStates(s, t, batch) ==
  LET after[n \in 0 .. Len(batch)] ==
        IF n = 0 THEN s ELSE ApplyStreamingSseEvent(after[n - 1], t, batch[n])
  IN after

ApplySseBatch(s, t, batch) == SseBatchStates(s, t, batch)[Len(batch)]

\* Mutant: the deltas of the chunk that holds the error are not counted.
StateBeforeErrorM(s, t, batch) == IF Contains(batch, "error") THEN s ELSE Idle

\* The state in which the first error of a batch arrives.
StateBeforeError(s, t, batch) ==
  LET first == SelectInSeq(batch, LAMBDA event : event = "error")
  IN IF first = 0 THEN Idle ELSE SseBatchStates(s, t, batch)[first - 1]

-----------------------------------------------------------------------------
(* The messages queries.                                                    *)

\* A message query without data, and one whose data came from somewhere; data
\* that has been invalidated is stale, until something is written to it.
NoData == [loaded |-> FALSE, stale |-> FALSE, rows |-> {}]
Data(rows) == [loaded |-> TRUE, stale |-> FALSE, rows |-> rows]

NoLoad == [phase |-> "none", rows |-> {}]

UserRow(t) == [role |-> "user", turn |-> t, text |-> 0]
AssistantRow(t, n) == [role |-> "assistant", turn |-> t, text |-> n]

\* A message whose id is in the list already is not added, whatever its text.
PrependMessage(data, row) ==
  Data(IF \E r \in data.rows : r.role = row.role /\ r.turn = row.turn
         THEN data.rows ELSE data.rows \cup {row})

PrependCachedAssistantMessage(data, t, n) ==
  IF n = 0 THEN data ELSE PrependMessage(data, AssistantRow(t, n))

\* Only a started turn of the chat has something to save.
FlushAssistantBuffer(queries, s, c) ==
  IF s.status = "started" /\ s.chat = c
    THEN [queries EXCEPT ![c] = PrependCachedAssistantMessage(@, s.message, s.buffer)]
    ELSE queries

NoSubmission == [phase |-> "none", chat |-> NoChat, route |-> NoChat]

Init ==
  /\ state = Idle
  /\ bootstrap = NoChat
  /\ turnLock = FALSE
  /\ createdChat = FALSE
  /\ controller = NoTurn
  /\ aborted = FALSE
  /\ active = NoChat
  /\ submission = NoSubmission
  /\ turns = 0
  /\ cache = [c \in Chat |-> NoData]
  /\ load = [c \in Chat |-> NoLoad]
  /\ chats = [c \in Chat |-> IF c \in History THEN "exists" ELSE "none"]
  /\ messages = [c \in Chat |-> {}]
  /\ server = [t \in Turn |-> [phase |-> "none", chat |-> NoChat, sent |-> 0]]
  /\ wire = [t \in Turn |-> <<>>]
  /\ connection = [t \in Turn |-> "none"]
  /\ faults = 0

Fault == faults < FaultLimit /\ faults' = faults + 1

-----------------------------------------------------------------------------
(* Sending a message.                                                       *)

\* The synchronous part of a submission once its chat is known: the user's
\* message is shown, and the stream is requested.
BeginTurn(c, route) ==
  LET t == turns + 1
  IN /\ turns' = t
     /\ cache' = [cache EXCEPT ![c] = PrependMessage(@, UserRow(t))]
     /\ bootstrap' = c
     /\ state' = Pending(c)
     /\ controller' = t
     /\ submission' = [phase |-> "reading", chat |-> c, route |-> route]
     /\ server' = [server EXCEPT ![t] = [phase |-> "requested", chat |-> c, sent |-> 0]]
     /\ connection' = [connection EXCEPT ![t] = "open"]
     /\ UNCHANGED <<aborted, load, messages, wire>>

\* The composer offers to send when no answer is streamed; a submission while
\* the lock is held is dropped.
CanSubmit ==
  /\ ~IsStreamingBusy(state)
  /\ ~turnLock
  /\ turns < MaxTurns

SubmitToChat ==
  /\ CanSubmit
  /\ active # NoChat
  /\ turnLock' = TRUE
  /\ createdChat' = FALSE
  /\ BeginTurn(active, active)
  /\ UNCHANGED <<active, chats, faults>>

SubmitFromWelcome ==
  /\ CanSubmit
  /\ active = NoChat
  /\ \E c \in Chat : chats[c] = "none"
  /\ turnLock' = TRUE
  /\ createdChat' = TRUE
  /\ submission' = [NoSubmission EXCEPT !.phase = "creating"]
  /\ UNCHANGED <<state, bootstrap, controller, aborted, active, turns,
                 cacheVars, chats, serverVars, netVars, faults>>

\* createAiChat answers: the panel goes to the new chat, wherever it is by now.
ChatCreated ==
  /\ submission.phase = "creating"
  /\ \E c \in Chat :
       /\ chats[c] = "none"
       /\ chats' = [chats EXCEPT ![c] = "exists"]
       /\ active' = c
       /\ BeginTurn(c, NoChat)
  /\ UNCHANGED <<turnLock, createdChat, faults>>

\* The `finally` of submit and of runStreamTurn.
EndSubmission ==
  /\ createdChat' = FALSE
  /\ turnLock' = FALSE
  /\ submission' = NoSubmission
  /\ IF controller = turns
       THEN controller' = NoTurn /\ aborted' = FALSE
       ELSE UNCHANGED <<controller, aborted>>

\* Mutant: a failed request leaves the lock held.
CreateChatFailsM ==
  /\ submission.phase = "creating"
  /\ Fault
  /\ submission' = NoSubmission
  /\ createdChat' = FALSE
  /\ UNCHANGED <<turnLock, controller, state, bootstrap, aborted, active, turns,
                 cacheVars, chats, serverVars, netVars>>

CreateChatFails ==
  /\ submission.phase = "creating"
  /\ Fault
  /\ EndSubmission
  /\ UNCHANGED <<state, bootstrap, active, turns, cacheVars,
                 chats, serverVars, netVars>>

-----------------------------------------------------------------------------
(* Reading the stream.                                                      *)

Reading == submission.phase = "reading"

\* The turn that a batch belongs to before the reducer has seen it.
RunningState ==
  IF IsStreamingBusy(state) \/ bootstrap = NoChat THEN state ELSE Pending(bootstrap)

CompleteInCache(data, t, batch) ==
  IF Contains(batch, "completed")
    THEN PrependMessage(data, AssistantRow(t, server[t].sent)) ELSE data

\* invalidateQueries finds a query only when there is one.
InvalidateIfDone(data, batch) ==
  IF Contains(batch, "done") THEN [data EXCEPT !.stale = @ \/ data.loaded] ELSE data

\* processStreamBatch: one chunk of the response, with any number of events.
ProcessStreamBatch ==
  LET t == turns
      c == submission.chat
  IN /\ Reading
     /\ \E n \in 1 .. Len(wire[t]) :
          LET batch == SubSeq(wire[t], 1, n)
              broken == StateBeforeError(RunningState, t, batch)
              kept == PrependCachedAssistantMessage(cache[c], t, broken.buffer)
          IN /\ cache' = [cache EXCEPT ![c] =
                            InvalidateIfDone(CompleteInCache(kept, t, batch), batch)]
             /\ state' = ApplySseBatch(state, t, batch)
             /\ wire' = [wire EXCEPT ![t] = SubSeq(@, n + 1, Len(@))]
             /\ createdChat' = (createdChat /\ ~Contains(batch, "done"))
     /\ bootstrap' = NoChat
     /\ UNCHANGED <<turnLock, controller, aborted, active, submission, turns, load,
                    chats, serverVars, connection, faults>>

\* What every end of the stream does: save what has been streamed, then reset.
SettleTurn ==
  /\ cache' = FlushAssistantBuffer(cache, state, submission.chat)
  /\ state' = Idle
  /\ EndSubmission

Hangup ==
  /\ wire' = [wire EXCEPT ![turns] = <<>>]
  /\ connection' = [connection EXCEPT ![turns] = "left"]

\* The response ends; a turn that is busy still has not seen a terminal event.
StreamEnds ==
  /\ Reading
  /\ wire[turns] = <<>>
  /\ connection[turns] = "closed"
  /\ SettleTurn
  /\ Hangup
  /\ UNCHANGED <<bootstrap, active, turns, load, chats,
                 serverVars, faults>>

\* read() or fetch() throws, for a lost connection or an HTTP error.
StreamFails ==
  /\ Reading
  /\ connection[turns] \in {"lost", "httpError"}
  /\ SettleTurn
  /\ Hangup
  /\ UNCHANGED <<bootstrap, active, turns, load, chats,
                 serverVars, faults>>

\* 404: the chat is forgotten, and left when it was on the screen at submit.
ChatNotFound ==
  LET c == submission.chat
  IN /\ Reading
     /\ connection[turns] = "notFound"
     /\ cache' = [cache EXCEPT ![c] = NoData]
     /\ load' = [load EXCEPT ![c] = NoLoad]
     /\ state' = Idle
     /\ active' = IF submission.route = c THEN NoChat ELSE active
     /\ EndSubmission
     /\ Hangup
     /\ UNCHANGED <<bootstrap, turns, chats, serverVars, faults>>

\* Mutant: an aborted turn is not reset.
StreamAbortedM ==
  /\ Reading
  /\ aborted
  /\ cache' = FlushAssistantBuffer(cache, state, submission.chat)
  /\ EndSubmission
  /\ Hangup
  /\ UNCHANGED <<state, bootstrap, active, turns, load, chats, serverVars, faults>>

\* The aborted fetch or read throws AbortError.
StreamAborted ==
  /\ Reading
  /\ aborted
  /\ SettleTurn
  /\ Hangup
  /\ UNCHANGED <<bootstrap, active, turns, load, chats,
                 serverVars, faults>>

-----------------------------------------------------------------------------
(* What else the user does.                                                 *)

AbortController == aborted' = (aborted \/ controller # NoTurn)

Stop ==
  /\ IsStreamingBusy(state)
  /\ AbortController
  /\ UNCHANGED <<state, bootstrap, turnLock, createdChat, controller, active,
                 submission, turns, cacheVars, chats, serverVars, netVars, faults>>

StartNewChat ==
  /\ AbortController
  /\ state' = Idle
  /\ active' = NoChat
  /\ UNCHANGED <<bootstrap, turnLock, createdChat, controller, submission,
                 turns, cacheVars, chats, serverVars, netVars, faults>>

\* A chat is opened from the history; its messages are requested if there are
\* none.
OpenChat(c) ==
  /\ chats[c] # "none"
  /\ active' = c
  /\ load' = IF cache[c].loaded \/ load[c].phase # "none"
               THEN load ELSE [load EXCEPT ![c].phase = "requested"]
  /\ UNCHANGED <<state, bootstrap, turnLock, createdChat, controller, aborted,
                 submission, turns, cache, chats, serverVars, netVars, faults>>

\* The server reads the messages of a chat; the answer comes later, and takes
\* the place of whatever the query holds by then.
ReadMessages(c) ==
  /\ load[c].phase = "requested"
  /\ load' = [load EXCEPT ![c] =
                IF chats[c] = "exists"
                  THEN [phase |-> "read", rows |-> messages[c]] ELSE NoLoad]
  /\ UNCHANGED <<panelVars, cache, chats, serverVars, netVars, faults>>

LoadMessages(c) ==
  /\ load[c].phase = "read"
  /\ cache' = [cache EXCEPT ![c] = Data(load[c].rows)]
  /\ load' = [load EXCEPT ![c] = NoLoad]
  /\ UNCHANGED <<panelVars, chats, serverVars, netVars, faults>>

-----------------------------------------------------------------------------
(* The turn on the server.                                                  *)

Emit(t, events) ==
  wire' = IF connection[t] = "open" THEN [wire EXCEPT ![t] = @ \o events] ELSE wire

Close(t) ==
  connection' = [connection EXCEPT ![t] = IF @ = "open" THEN "closed" ELSE @]

\* mustGetAiChat, and the user's message is stored: from here on the response
\* is a stream.
ReceiveMessage(t) ==
  LET c == server[t].chat
  IN /\ server[t].phase = "requested"
     /\ chats[c] = "exists"
     /\ messages' = [messages EXCEPT ![c] = @ \cup {UserRow(t)}]
     /\ server' = [server EXCEPT ![t].phase = "asking"]
     /\ Emit(t, <<"start">>)
     /\ UNCHANGED <<panelVars, cacheVars, chats, connection, faults>>

RejectMessage(t) ==
  LET Answer(status) ==
        connection' = [connection EXCEPT ![t] = IF @ = "open" THEN status ELSE @]
  IN /\ server[t].phase = "requested"
     /\ \/ chats[server[t].chat] # "exists" /\ Answer("notFound") /\ UNCHANGED faults
        \/ Fault /\ Answer("httpError")
     /\ server' = [server EXCEPT ![t].phase = "ended"]
     /\ UNCHANGED <<panelVars, cacheVars, chats, messages, wire>>

\* runTurn fails before the answer starts, with the message stored or not.
FailBeforeAnswer(t) ==
  LET c == server[t].chat
  IN /\ server[t].phase = "requested"
     /\ chats[c] = "exists"
     /\ Fault
     /\ \E stored \in {{}, {UserRow(t)}} : messages' = [messages EXCEPT ![c] = @ \cup stored]
     /\ server' = [server EXCEPT ![t].phase = "ended"]
     /\ Emit(t, <<"error">>)
     /\ Close(t)
     /\ UNCHANGED <<panelVars, cacheVars, chats>>

\* Deltas that nobody receives any more are left out.
StreamDelta(t) ==
  /\ server[t].phase = "asking"
  /\ connection[t] = "open"
  /\ server[t].sent < MaxDeltas
  /\ server' = [server EXCEPT ![t].sent = @ + 1]
  /\ Emit(t, <<"delta">>)
  /\ UNCHANGED <<panelVars, cacheVars, chats, messages, connection, faults>>

\* InsertMessage: the answer refers to its chat.
StoreAnswer(t) ==
  LET c == server[t].chat
  IN /\ server[t].phase = "asking"
     /\ chats[c] = "exists"
     /\ messages' = [messages EXCEPT ![c] = @ \cup {AssistantRow(t, server[t].sent)}]
     /\ server' = [server EXCEPT ![t].phase = "stored"]
     /\ UNCHANGED <<panelVars, cacheVars, chats, netVars, faults>>

\* A model or database call fails, times out or is cancelled.
FailTurn(t) ==
  /\ server[t].phase \in {"asking", "stored"}
  /\ \/ Fault
     \/ UNCHANGED faults /\ (connection[t] # "open" \/ chats[server[t].chat] # "exists")
  /\ server' = [server EXCEPT ![t].phase = "ended"]
  /\ Emit(t, <<"error">>)
  /\ Close(t)
  /\ UNCHANGED <<panelVars, cacheVars, chats, messages>>

\* Mutant: the terminal events are sent before the answer is stored.
CompleteTurnM(t) ==
  /\ server[t].phase = "asking"
  /\ server' = [server EXCEPT ![t].phase = "ended"]
  /\ UNCHANGED faults
  /\ Emit(t, <<"completed", "done">>)
  /\ Close(t)
  /\ UNCHANGED <<panelVars, cacheVars, chats, messages>>

\* UpdateChat, and the terminal events; when the turn times out here, each of
\* them may be dropped.
CompleteTurn(t) ==
  /\ server[t].phase = "stored"
  /\ server' = [server EXCEPT ![t].phase = "ended"]
  /\ \/ UNCHANGED faults /\ Emit(t, <<"completed", "done">>)
     \/ Fault /\ \E events \in {<<>>, <<"completed">>, <<"done">>} : Emit(t, events)
  /\ Close(t)
  /\ UNCHANGED <<panelVars, cacheVars, chats, messages>>

-----------------------------------------------------------------------------
(* The network, and other tabs.                                             *)

\* The connection is lost, or a proxy ends the response; the rest of the stream
\* never arrives.
LoseConnection(t) ==
  /\ connection[t] = "open"
  /\ Fault
  /\ \E status \in {"lost", "closed"} : connection' = [connection EXCEPT ![t] = status]
  /\ UNCHANGED <<panelVars, cacheVars, chats, serverVars, wire>>

DeleteChat(c) ==
  /\ chats[c] = "exists"
  /\ Fault
  /\ chats' = [chats EXCEPT ![c] = "deleted"]
  /\ messages' = [messages EXCEPT ![c] = {}]
  /\ UNCHANGED <<panelVars, cacheVars, server, netVars>>

-----------------------------------------------------------------------------
CreateChat == ChatCreated \/ CreateChatFails
ReadStream ==
  ProcessStreamBatch \/ StreamEnds \/ StreamFails \/ ChatNotFound \/ StreamAborted
Serve(t) ==
  ReceiveMessage(t) \/ RejectMessage(t) \/ FailBeforeAnswer(t) \/ StreamDelta(t)
    \/ StoreAnswer(t) \/ FailTurn(t) \/ CompleteTurn(t)

Next ==
  \/ SubmitToChat
  \/ SubmitFromWelcome
  \/ CreateChat
  \/ ReadStream
  \/ Stop
  \/ StartNewChat
  \/ \E c \in Chat : OpenChat(c) \/ ReadMessages(c) \/ LoadMessages(c) \/ DeleteChat(c)
  \/ \E t \in Turn : Serve(t) \/ LoseConnection(t)

Spec == Init /\ [][Next]_vars

\* A callback runs when its promise is settled; a request to create a chat is
\* answered or fails; a turn ends within AiChatTurnTimeout.  Each of these steps
\* is taken finitely often, so that fairness to all of them is fairness to each.
Progress == (\E t \in Turn : Serve(t)) \/ CreateChat \/ ReadStream

Fairness == WF_vars(Progress)

FairSpec == Spec /\ Fairness

-----------------------------------------------------------------------------
(* Correctness.                                                             *)

TypeOK ==
  /\ state \in [status : {"idle", "pending", "started"}, chat : Chat \cup {NoChat},
                message : Turn \cup {NoTurn}, buffer : 0 .. MaxDeltas]
  /\ bootstrap \in Chat \cup {NoChat}
  /\ turnLock \in BOOLEAN
  /\ createdChat \in BOOLEAN
  /\ controller \in Turn \cup {NoTurn}
  /\ aborted \in BOOLEAN
  /\ active \in Chat \cup {NoChat}
  /\ submission \in [phase : {"none", "creating", "reading"},
                     chat : Chat \cup {NoChat}, route : Chat \cup {NoChat}]
  /\ turns \in 0 .. MaxTurns
  /\ cache \in [Chat -> [loaded : BOOLEAN, stale : BOOLEAN, rows : SUBSET Row]]
  /\ load \in [Chat -> [phase : {"none", "requested", "read"}, rows : SUBSET Row]]
  /\ chats \in [Chat -> {"none", "exists", "deleted"}]
  /\ messages \in [Chat -> SUBSET Row]
  /\ server \in [Turn -> [phase : {"none", "requested", "asking", "stored", "ended"},
                          chat : Chat \cup {NoChat}, sent : 0 .. MaxDeltas]]
  /\ wire \in [Turn -> Seq(Event)]
  /\ connection \in [Turn -> {"none", "open", "closed", "lost", "httpError",
                              "notFound", "left"}]
  /\ faults \in 0 .. FaultLimit

\* The composer's Stop button stops what the panel shows: a busy panel is in
\* the turn of the submission that holds the lock, and the controller is that
\* turn's, whatever was aborted, reset or opened meanwhile.  Without a
\* submission nothing is busy, and no flag of it is left behind.
BusyPanelCanStop ==
  /\ IsStreamingBusy(state) =>
       /\ turnLock
       /\ Reading
       /\ controller = turns
       /\ state.chat = submission.chat
       /\ state.status = "started" => state.message = turns
  /\ ~turnLock => submission = NoSubmission /\ controller = NoTurn /\ ~createdChat

PanelInvariant == TypeOK /\ BusyPanelCanStop

\* An answer that was stopped or reset is never shown as streaming again, and
\* no message of an earlier turn is: a panel that is not busy becomes busy by a
\* new turn only, though events of the old one still arrive.
SettledTurnStaysSettled ==
  [][IsStreamingBusy(state') /\ ~IsStreamingBusy(state) => turns' > turns]_vars

Deltas(events) == Cardinality({i \in DOMAIN events : events[i] = "delta"})

\* Text that the user has seen is not lost when the stream ends: whenever the
\* panel stops to be busy, for any reason but a new chat (StartNewChat drops
\* what is not flushed yet), the text is in the chat's messages, with every
\* delta of the last chunk; or the server has stored it, or the chat has been
\* deleted, and the messages are marked as stale.  The panel does not read
\* stale messages again by itself: the mark only says that the server has more.
ShownTextIsKept ==
  [][ /\ state.status = "started"
      /\ ~IsStreamingBusy(state')
      /\ ~StartNewChat
      => LET c == state.chat
             chunk == SubSeq(wire[turns], 1, Len(wire[turns]) - Len(wire'[turns]))
             least == IF turnLock' THEN state.buffer + Deltas(chunk) ELSE state.buffer
             Holds(rows) == \E r \in rows : /\ r.role = "assistant"
                                            /\ r.turn = state.message
                                            /\ r.text >= least
         IN \/ least = 0
            \/ Holds(cache'[c].rows)
            \/ cache'[c].stale /\ (Holds(messages'[c]) \/ chats'[c] = "deleted") ]_vars

\* Every submission ends and lets the user send again, though the chat is
\* deleted, connections are lost, calls fail, and the user stops it or leaves.
EverySubmissionEnds == turnLock ~> ~turnLock

-----------------------------------------------------------------------------
(* What the guarantees rest on.                                             *)

TerminalEvent == {"completed", "done", "error"}

\* The submission that holds the lock has the controller of the last turn, and
\* that turn is on its way in the same chat.
SubmissionOwnsTurn ==
  /\ submission.phase # "none" => turnLock
  /\ submission.phase = "creating" => turns < MaxTurns
  /\ ~Reading => controller = NoTurn
  /\ Reading => /\ controller = turns
                /\ turns # NoTurn
                /\ submission.chat \in Chat
                /\ server[turns].chat = submission.chat

\* Turns are numbered as they are sent; a turn that has not been received by
\* the server has no events, and nothing comes after a terminal event.
EventsInOrder ==
  \A t \in Turn :
    /\ t > turns <=> server[t].phase = "none"
    /\ t > turns => server[t].sent = 0 /\ connection[t] = "none"
    /\ t <= turns => server[t].chat \in Chat
    /\ server[t].phase \in {"none", "requested"} => wire[t] = <<>>
    /\ connection[t] = "notFound" => wire[t] = <<>> /\ server[t].phase = "ended"
    /\ \A i \in DOMAIN wire[t] :
         wire[t][i] \in TerminalEvent =>
           /\ server[t].phase = "ended"
           /\ \A j \in DOMAIN wire[t] :
                /\ j > i => wire[t][j] # "delta"
                /\ wire[t][j] = "error" => j = i

\* What the panel shows of an answer and what has not arrived is at most what
\* the server has sent.
DeltasAreSent ==
  /\ \A t \in Turn : Deltas(wire[t]) <= server[t].sent
  /\ state.status # "started" => state.buffer = 0
  /\ state.status = "started" =>
       /\ state.buffer + Deltas(wire[turns]) <= server[turns].sent
       /\ server[turns].phase \notin {"none", "requested"}
       /\ connection[turns] # "notFound"

\* An answer in a list of messages on the server is the one that its turn stored.
StoredAnswer(row) ==
  row.role = "assistant" =>
    /\ row.turn <= turns
    /\ server[row.turn].phase \in {"stored", "ended"}
    /\ row.text = server[row.turn].sent

\* So is one that the panel shows of a turn that it streams; what it keeps of
\* other turns may be shorter.
ShownAnswer(row) ==
  row.role = "assistant" =>
    /\ row.turn <= turns
    /\ row.turn = turns /\ IsStreamingBusy(state) => StoredAnswer(row)

\* A turn that tells that it is done has stored its answer.
AnswerIsStored(t) ==
  server[t].phase = "stored" \/ Contains(wire[t], "done") =>
    \/ AssistantRow(t, server[t].sent) \in messages[server[t].chat]
    \/ chats[server[t].chat] = "deleted"

AnswersAreStored ==
  /\ \A c \in Chat : /\ \A row \in messages[c] \cup load[c].rows : StoredAnswer(row)
                     /\ \A row \in cache[c].rows : ShownAnswer(row)
  /\ \A t \in Turn : AnswerIsStored(t)
  /\ IsStreamingBusy(state) => cache[state.chat].loaded

\* The inductive invariant of the guarantees.
TurnInvariant ==
  /\ PanelInvariant
  /\ SubmissionOwnsTurn
  /\ EventsInOrder
  /\ DeltasAreSent
  /\ AnswersAreStored

=============================================================================
