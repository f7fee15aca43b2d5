------------------------------- MODULE ChatPage -------------------------------
(***************************************************************************)
(* The chat page: pages/Chat.tsx with its hooks useMessageHandling and     *)
(* useConversationManagement, ChatInput's guard, the calls of lib/api.ts   *)
(* and POST /agent of chat_router.py, which stores the question, runs the  *)
(* agent, stores the answer and then replies.                              *)
(*                                                                         *)
(* A message is its kind and the number of the send it belongs to; of what *)
(* it says only whether it is blank is kept.  Of the sidebar's list only   *)
(* its age is: a conversation can be selected once it has a message.       *)
(***************************************************************************)
EXTENDS Naturals, Sequences, FiniteSets

CONSTANTS Chats,         \* conversations of the user
          FirstChat,     \* the one that exists when the page is opened
          NoChat,        \* none selected: "New Chat"
          MaxSends,      \* bound: messages sent
          MaxLoads,      \* bound: conversations opened
          MaxFailures    \* bound: answers lost or refused

ASSUME ChatAssumption ==
    /\ FirstChat \in Chats /\ NoChat \notin Chats
    /\ MaxSends \in Nat /\ MaxLoads \in Nat /\ MaxFailures \in Nat

VARIABLES log,           \* the server: the stored messages of every conversation
          run,           \* the server: where the handling of every send is
          target,        \* the conversation of every send
          streaming,     \* VITE_ENABLE_STREAMING, fixed when the client is built
          selected,      \* selectedConversation
          shown,         \* messages
          loading,       \* loading: ChatInput is disabled
          awaiting,      \* the send whose answer handleSendMessage awaits, or 0
          sentTo,        \* the conversation selected when it was sent
          drawn,         \* its answer is shown, its conversation is looked for
          toSelect,      \* new conversations looked for in a list being loaded
          listings,      \* loadConversations calls after follow-ups
          relisted,      \* the list holds another object for what is selected
          loads,         \* loadMessages calls: conversation, stage and rows
          sends,         \* messages sent so far
          opened,        \* loadMessages calls so far
          failures,      \* failures so far
          disturbed      \* history: the view may differ from the log

server == <<log, run, target>>
turn == <<awaiting, sentTo, drawn>>
page == <<selected, shown, loading, turn, toSelect>>
list == <<listings, relisted>>
fetches == <<loads, opened>>
chatVars == <<server, streaming, page, list, fetches, sends, failures, disturbed>>

Sends == 1..MaxSends
Slots == 1..(MaxLoads + MaxSends)   \* every new conversation is opened too
Messages == {"human", "ai", "blank", "error"} \X (0..MaxSends)
Human(n) == <<"human", n>>
Answer(n) == <<"ai", n>>
Blank(n) == <<"blank", n>>
Failure(n) == <<"error", n>>
NoLoad == [chat |-> NoChat, stage |-> "none", rows |-> <<>>]

Running == {n \in Sends : run[n] \in {"received", "stored"}}
Loading == {i \in Slots : loads[i].stage \in {"asked", "read"}}
Existing == {c \in Chats : log[c] # <<>>}

\* Nothing is in flight between the page and the server.
Quiet == Running = {} /\ Loading = {} /\ toSelect = {} /\ awaiting = 0

ChatTypeOK ==
    /\ log \in [Chats -> Seq(Messages)]
    /\ run \in [Sends -> {"none", "received", "stored", "answered", "refused"}]
    /\ target \in [Sends -> Chats \cup {NoChat}]
    /\ streaming \in BOOLEAN
    /\ selected \in Chats \cup {NoChat} /\ shown \in Seq(Messages)
    /\ loading \in BOOLEAN /\ awaiting \in 0..MaxSends /\ drawn \in BOOLEAN
    /\ sentTo \in Chats \cup {NoChat} /\ toSelect \subseteq Chats
    /\ listings \in 0..MaxSends /\ relisted \in BOOLEAN
    /\ \A i \in Slots :
          /\ loads[i].chat \in Chats \cup {NoChat}
          /\ loads[i].stage \in {"none", "asked", "read"}
          /\ loads[i].rows \in Seq(Messages)
    /\ sends \in 0..MaxSends /\ opened \in 0..(MaxLoads + MaxSends)
    /\ failures \in 0..MaxFailures /\ disturbed \in BOOLEAN

ChatInit ==
    /\ log = [c \in Chats |-> IF c = FirstChat THEN <<Human(0), Answer(0)>> ELSE <<>>]
    /\ run = [n \in Sends |-> "none"] /\ target = [n \in Sends |-> NoChat]
    /\ streaming \in BOOLEAN
    /\ selected = NoChat /\ shown = <<>> /\ loading = FALSE
    /\ awaiting = 0 /\ sentTo = NoChat /\ drawn = FALSE /\ toSelect = {}
    /\ listings = 0 /\ relisted = FALSE
    /\ loads = [i \in Slots |-> NoLoad]
    /\ sends = 0 /\ opened = 0 /\ failures = 0 /\ disturbed = FALSE

-------------------------------------------------------------------------------
(* The server.                                                             *)

\* POST /agent: the conversation is created where the client named none (there
\* is always another one: bound), and the question stored.
StoreQuestion(n) ==
    /\ run[n] = "received"
    /\ target[n] # NoChat \/ Existing # Chats
    /\ LET c == IF target[n] = NoChat THEN CHOOSE d \in Chats \ Existing : TRUE
                                      ELSE target[n]
       IN /\ target' = [target EXCEPT ![n] = c]
          /\ log' = [log EXCEPT ![c] = Append(@, Human(n))]
    /\ run' = [run EXCEPT ![n] = "stored"]
    /\ UNCHANGED <<streaming, page, list, fetches, sends, failures, disturbed>>

\* The agent's answer, or the apology in its place, is stored.
StoreAnswer(n) ==
    /\ run[n] = "stored"
    /\ log' = [log EXCEPT ![target[n]] = Append(@, Answer(n))]
    /\ run' = [run EXCEPT ![n] = "answered"]
    /\ UNCHANGED <<target, streaming, page, list, fetches, sends, failures, disturbed>>

\* GET /conversations/{id}/messages.
ReadMessages(i) ==
    /\ loads[i].stage = "asked"
    /\ loads' = [loads EXCEPT ![i] = [@ EXCEPT !.stage = "read", !.rows = log[loads[i].chat]]]
    /\ UNCHANGED <<server, streaming, page, list, opened, sends, failures, disturbed>>

-------------------------------------------------------------------------------
(* Selecting a conversation.                                               *)

\* The effect on selectedConversation, an object of the list: loadMessages.
Open(c) ==
    /\ opened' = opened + 1
    /\ loads' = [loads EXCEPT ![opened'] = [chat |-> c, stage |-> "asked", rows |-> <<>>]]

\* handleSelectConversation, at any time.  The effect runs if another object is
\* selected: another conversation, or the same one from a list that was loaded
\* since; with the same object nothing happens.
Select(c) ==
    /\ c \in Existing /\ opened < MaxLoads
    /\ c # selected \/ relisted
    /\ selected' = c /\ relisted' = FALSE
    /\ Open(c)
    /\ disturbed' = ~Quiet
    /\ UNCHANGED <<server, streaming, shown, loading, turn, toSelect, listings,
                   sends, failures>>

\* loadConversations after a follow-up: the list has new objects, or it failed.
Relist ==
    /\ listings > 0 /\ listings' = listings - 1
    /\ relisted' \in {relisted, selected # NoChat}
    /\ UNCHANGED <<server, streaming, page, fetches, sends, failures, disturbed>>

\* Mutant: what is shown stays.
NewChatKeepsView ==
    /\ selected # NoChat
    /\ selected' = NoChat /\ relisted' = FALSE
    /\ disturbed' = ~Quiet
    /\ UNCHANGED <<server, streaming, shown, loading, turn, toSelect, listings,
                   fetches, sends, failures>>

\* handleNewChat, at any time: without a selection nothing changes, and what is
\* shown stays.
NewChat ==
    /\ selected # NoChat
    /\ selected' = NoChat /\ shown' = <<>> /\ relisted' = FALSE
    /\ disturbed' = ~Quiet
    /\ UNCHANGED <<server, streaming, loading, turn, toSelect, listings,
                   fetches, sends, failures>>

\* Mutant: the rows are added to what is shown.
LoadedToo(i) == shown \o loads[i].rows

\* What a load shows: its rows alone.
Loaded(i) == loads[i].rows

\* loadMessages: the rows are shown, whatever is selected by now ...
ShowMessages(i) ==
    /\ loads[i].stage = "read"
    /\ shown' = Loaded(i)
    /\ loads' = [loads EXCEPT ![i] = NoLoad]
    /\ UNCHANGED <<server, streaming, selected, loading, turn, toSelect, list,
                   opened, sends, failures, disturbed>>

\* ... or the call fails and the page says so.
LoadFails(i) ==
    /\ loads[i].stage \in {"asked", "read"} /\ failures < MaxFailures
    /\ failures' = failures + 1
    /\ loads' = [loads EXCEPT ![i] = NoLoad]
    /\ disturbed' = TRUE
    /\ UNCHANGED <<server, streaming, page, list, opened, sends>>

-------------------------------------------------------------------------------
(* handleSendMessage.                                                      *)

\* ChatInput submits a text, or files only, and nothing while it is loading.
MaySubmit(withText) == ~loading /\ sends < MaxSends /\ (withText \/ failures < MaxFailures)

\* The message is shown at once and sent; files only are refused by the server.
Send(withText) ==
    /\ MaySubmit(withText)
    /\ sends' = sends + 1
    /\ loading' = TRUE
    /\ shown' = Append(shown, Human(sends'))
    /\ awaiting' = sends' /\ sentTo' = selected /\ drawn' = FALSE
    /\ run' = [run EXCEPT ![sends'] = IF withText THEN "received" ELSE "refused"]
    /\ target' = [target EXCEPT ![sends'] = selected]
    /\ disturbed' = (disturbed \/ ~Quiet)
    /\ failures' = IF withText THEN failures ELSE failures + 1
    /\ UNCHANGED <<log, streaming, selected, toSelect, list, fetches>>

\* The answer that is added.  The server replies with one JSON object, whose
\* "output" a client built for streaming does not look at: it waits for chunks
\* of text, and adds an empty answer.
Reply(n) == IF streaming THEN Blank(n) ELSE Answer(n)

\* Nothing is awaited any more.
Settle == awaiting' = 0 /\ sentTo' = NoChat /\ drawn' = FALSE

\* The answer is there: it is added, and the loading ends; a new conversation's
\* list is awaited before.  A client built for streaming does not learn the
\* conversation's name if the object comes in pieces.
ShowAnswer ==
    /\ awaiting # 0 /\ run[awaiting] = "answered" /\ ~drawn
    /\ shown' = Append(shown, Reply(awaiting))
    /\ \/ /\ sentTo = NoChat
          /\ toSelect' = toSelect \cup {target[awaiting]}
          /\ drawn' = TRUE
          /\ UNCHANGED <<loading, awaiting, sentTo, listings, disturbed>>
       \/ /\ sentTo = NoChat /\ streaming
          /\ loading' = FALSE
          /\ Settle
          /\ disturbed' = TRUE
          /\ UNCHANGED <<toSelect, listings>>
       \/ /\ sentTo # NoChat
          /\ loading' = FALSE
          /\ Settle
          /\ listings' = listings + 1
          /\ disturbed' = (disturbed \/ streaming)
          /\ UNCHANGED toSelect
    /\ UNCHANGED <<server, streaming, selected, relisted, fetches, sends, failures>>

\* loadConversations returned for the new conversation c: it is selected,
\* wherever the user is by now, and its messages are loaded ...
SelectNew(c) ==
    /\ c \in toSelect
    /\ toSelect' = toSelect \ {c}
    /\ selected' = c
    /\ Open(c)
    /\ disturbed' = (disturbed \/ selected # NoChat)
    /\ loading' = FALSE /\ relisted' = FALSE
    /\ Settle
    /\ UNCHANGED <<server, streaming, shown, listings, sends, failures>>

\* ... or it failed, returned no conversations, and none is selected.
NewNotFound(c) ==
    /\ c \in toSelect /\ failures < MaxFailures
    /\ failures' = failures + 1
    /\ toSelect' = toSelect \ {c}
    /\ disturbed' = TRUE
    /\ loading' = FALSE
    /\ Settle
    /\ UNCHANGED <<server, streaming, selected, shown, list, fetches, sends>>

\* The error is added to what is shown.
Fail ==
    /\ shown' = Append(shown, Failure(awaiting))
    /\ loading' = FALSE
    /\ Settle
    /\ disturbed' = TRUE
    /\ UNCHANGED <<server, streaming, selected, toSelect, list, fetches, sends>>

SendRefused == awaiting # 0 /\ run[awaiting] = "refused" /\ Fail /\ UNCHANGED failures

\* The answer is lost, with the server still at work.
SendFails ==
    /\ awaiting # 0 /\ run[awaiting] # "refused"
    /\ target[awaiting] \notin toSelect /\ failures < MaxFailures
    /\ failures' = failures + 1
    /\ Fail

\* Another page is opened and this one again: what was awaited is dropped, the
\* server goes on.
Leave ==
    /\ Quiet \/ failures < MaxFailures
    /\ failures' = IF Quiet THEN failures ELSE failures + 1
    /\ selected' = NoChat /\ shown' = <<>> /\ loading' = FALSE
    /\ Settle /\ toSelect' = {}
    /\ listings' = 0 /\ relisted' = FALSE
    /\ loads' = [i \in Slots |-> NoLoad]
    /\ disturbed' = FALSE
    /\ UNCHANGED <<server, streaming, opened, sends>>

-------------------------------------------------------------------------------
ChatNext ==
    \/ \E n \in Sends : StoreQuestion(n) \/ StoreAnswer(n)
    \/ \E i \in Slots : ReadMessages(i) \/ ShowMessages(i) \/ LoadFails(i)
    \/ \E c \in Chats : Select(c) \/ SelectNew(c) \/ NewNotFound(c)
    \/ \E withText \in BOOLEAN : Send(withText)
    \/ NewChat \/ Relist \/ ShowAnswer
    \/ SendRefused \/ SendFails \/ Leave

ChatSpec == ChatInit /\ [][ChatNext]_chatVars

-------------------------------------------------------------------------------
\* With nothing in flight the page shows the selected conversation as the
\* server stored it: answers appended by the client and reloads of a new
\* conversation neither double a message nor drop one, unless a call failed,
\* the user moved while another one was under way, or a client built for
\* streaming added an empty answer that no reload replaced since.
QuietViewIsLog ==
    (Quiet /\ ~disturbed) => shown = (IF selected = NoChat THEN <<>> ELSE log[selected])

\* The page never takes a follow-up to messages that belong to no selected
\* conversation, unless it was disturbed so: the server would begin a second one.
FollowUpStays ==
    (~disturbed /\ ~loading /\ shown # <<>>) => selected # NoChat
===============================================================================
