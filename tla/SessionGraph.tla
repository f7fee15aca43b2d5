------------------------------ MODULE SessionGraph ------------------------------
(***************************************************************************)
(* The graph of sessions on the admin page (SessionRelationshipGraph): a   *)
(* list of sessions and, for each list, a batch of calls for the histories *)
(* of all of them, in which the messages that came from another session    *)
(* are counted.  The button for a refresh starts a batch for the list      *)
(* there is beside the call for a new one; nothing tells an old batch from *)
(* a new one.                                                              *)
(***************************************************************************)
EXTENDS Naturals, FiniteSets

CONSTANTS Nodes,         \* sessions
          FirstNodes,    \* those there are at first
          HistoryLimit,  \* messages a call for a history returns, the oldest
          MaxMessages,   \* bound: messages of a session
          MaxBatches,    \* bound: batches started
          MaxListFaults  \* bound: calls that fail

ASSUME GraphAssumption ==
    /\ IsFiniteSet(Nodes) /\ FirstNodes \subseteq Nodes
    /\ {HistoryLimit, MaxMessages, MaxBatches, MaxListFaults} \subseteq Nat

VARIABLES dbNodes,       \* server: sessions
          messages,      \* server: messages of each of them
          cross,         \* server: those from another session among the oldest
          cleared,       \* history: sessions emptied since the list was read
          nodeList,      \* sessions
          crossThen,     \* history: cross when the list was read
          listCalls,     \* calls for the list under way
          listLoading,   \* useSessions: loading
          listError,     \* useSessions: error
          histLoading,   \* historyLoading
          batches,       \* batches under way, a function of their numbers
          started,       \* batches started so far
          adjacency,     \* counts by session, or LeftOut
          graphOf,       \* history: the batch they are of
          graphFaults    \* calls that failed so far

clientGraph == <<nodeList, crossThen, listCalls, listLoading, listError, histLoading, batches,
                 started, adjacency, graphOf, graphFaults>>
graphVars == <<dbNodes, messages, cross, cleared, clientGraph>>
serverGraph == <<dbNodes, messages, cross, cleared>>

Waiting == HistoryLimit + 1  \* no answer yet
LeftOut == HistoryLimit + 2  \* the call failed

GraphInit ==
    /\ dbNodes = FirstNodes /\ cleared = {}
    /\ messages = [s \in Nodes |-> 0] /\ cross = [s \in Nodes |-> 0]
    /\ nodeList = {} /\ crossThen = cross
    /\ listCalls = 1 /\ listLoading = TRUE /\ listError = FALSE /\ histLoading = FALSE
    /\ batches = <<>> /\ started = 0
    /\ adjacency = <<>> /\ graphOf = 0 /\ graphFaults = 0

-------------------------------------------------------------------------------
(* The server: sessions and messages between them.                         *)

SessionStarts(s) ==
    /\ s \notin dbNodes /\ dbNodes' = dbNodes \cup {s}
    /\ UNCHANGED <<messages, cross, cleared, clientGraph>>

\* A message is added behind the others; one from another session is counted if it
\* is among the oldest ones that a call for the history returns.
MessageAdded(s) ==
    /\ s \in dbNodes /\ messages[s] < MaxMessages
    /\ messages' = [messages EXCEPT ![s] = @ + 1]
    /\ \/ cross' = cross
       \/ messages[s] < HistoryLimit /\ cross' = [cross EXCEPT ![s] = @ + 1]
    /\ UNCHANGED <<dbNodes, cleared, clientGraph>>

\* A reset, or a compaction before it adds again what it keeps.
MessagesCleared(s) ==
    /\ s \in dbNodes
    /\ messages' = [messages EXCEPT ![s] = 0] /\ cross' = [cross EXCEPT ![s] = 0]
    /\ cleared' = cleared \cup {s}
    /\ UNCHANGED <<dbNodes, clientGraph>>

-------------------------------------------------------------------------------
(* The client.                                                             *)

\* fetchAllHistories: nothing for an empty list.
StartBatch(list) ==
    IF list = {} THEN UNCHANGED <<batches, started, histLoading>>
    ELSE /\ started < MaxBatches /\ started' = started + 1
         /\ batches' = [b \in DOMAIN batches \cup {started'} |->
                          IF b = started' THEN [s \in list |-> Waiting] ELSE batches[b]]
         /\ histLoading' = TRUE

\* Mutant: the effect runs for the first list only.
StartBatchOnce(list) ==
    IF started > 0 THEN UNCHANGED <<batches, started, histLoading>> ELSE StartBatch(list)

\* The effect on the list of sessions.
ListChanged(list) == StartBatch(list)

\* fetchSessions of useSessions.
CallList == listCalls' = listCalls + 1 /\ listLoading' = TRUE /\ listError' = FALSE

\* The button of the graph: both at once.
RefreshGraph ==
    /\ ~listLoading /\ ~histLoading /\ ~listError
    /\ CallList
    /\ StartBatch(nodeList)
    /\ UNCHANGED <<serverGraph, nodeList, crossThen, adjacency, graphOf, graphFaults>>

\* The button beside an error.
RetryNodes ==
    /\ listError /\ CallList
    /\ UNCHANGED <<serverGraph, nodeList, crossThen, histLoading, batches, started, adjacency,
                   graphOf, graphFaults>>

NodesAnswered ==
    /\ listCalls > 0 /\ listCalls' = listCalls - 1
    /\ nodeList' = dbNodes /\ crossThen' = cross /\ cleared' = {}
    /\ listLoading' = FALSE
    /\ ListChanged(nodeList')
    /\ UNCHANGED <<dbNodes, messages, cross, listError, adjacency, graphOf, graphFaults>>

NodesFail ==
    /\ graphFaults < MaxListFaults /\ graphFaults' = graphFaults + 1
    /\ listCalls > 0 /\ listCalls' = listCalls - 1
    /\ listLoading' = FALSE /\ listError' = TRUE
    /\ UNCHANGED <<serverGraph, nodeList, crossThen, histLoading, batches, started, adjacency,
                   graphOf>>

\* Promise.allSettled: with the last answer of a batch its counts are the graph's,
\* whatever else is under way; a history that failed is left out.
SettleHistory(b, s, answer) ==
    LET got == [batches[b] EXCEPT ![s] = answer]
    IN IF \A t \in DOMAIN got : got[t] # Waiting
       THEN /\ batches' = [c \in DOMAIN batches \ {b} |-> batches[c]]
            /\ adjacency' = got /\ graphOf' = b /\ histLoading' = FALSE
       ELSE /\ batches' = [batches EXCEPT ![b] = got]
            /\ UNCHANGED <<adjacency, graphOf, histLoading>>

\* getSessionHistory(id, 100, 0).
HistoryAnswered(b, s) ==
    /\ batches[b][s] = Waiting
    /\ SettleHistory(b, s, cross[s])
    /\ UNCHANGED <<serverGraph, nodeList, crossThen, listCalls, listLoading, listError, started,
                   graphFaults>>

HistoryFails(b, s) ==
    /\ graphFaults < MaxListFaults /\ graphFaults' = graphFaults + 1
    /\ batches[b][s] = Waiting
    /\ SettleHistory(b, s, LeftOut)
    /\ UNCHANGED <<serverGraph, nodeList, crossThen, listCalls, listLoading, listError, started>>

GraphNext ==
    \/ \E s \in Nodes : SessionStarts(s) \/ MessageAdded(s) \/ MessagesCleared(s)
    \/ RefreshGraph \/ RetryNodes \/ NodesAnswered \/ NodesFail
    \/ \E b \in DOMAIN batches : \E s \in DOMAIN batches[b] :
         HistoryAnswered(b, s) \/ HistoryFails(b, s)

GraphSpec == GraphInit /\ [][GraphNext]_graphVars

-------------------------------------------------------------------------------
GraphTypeOK ==
    /\ nodeList \subseteq dbNodes /\ dbNodes \subseteq Nodes /\ cleared \subseteq Nodes
    /\ messages \in [Nodes -> 0..MaxMessages]
    /\ {cross, crossThen} \subseteq [Nodes -> 0..HistoryLimit]
    /\ listCalls \in Nat /\ {listLoading, listError, histLoading} \subseteq BOOLEAN
    /\ DOMAIN batches \subseteq 1..started /\ started \in 0..MaxBatches /\ graphOf \in 0..started
    /\ \A b \in DOMAIN batches : batches[b] \in UNION {[d -> 0..LeftOut] : d \in SUBSET Nodes}
    /\ DOMAIN adjacency \subseteq dbNodes /\ graphFaults \in 0..MaxListFaults

\* Once no batch is under way the graph is of the sessions on the page, and the count
\* of each is of the messages from another session among its oldest HistoryLimit: at
\* least those there were when the list was read, and no more than there are now.
\* Later ones are never counted.  A session whose messages were deleted since keeps
\* its old count, and one whose history failed has none; an older batch that is
\* answered after the one started last takes the graph's place.
GraphIsCurrent ==
    (DOMAIN batches = {} /\ graphOf = started) =>
        /\ DOMAIN adjacency = nodeList
        /\ \A s \in nodeList \ cleared :
             adjacency[s] = LeftOut \/ (crossThen[s] <= adjacency[s] /\ adjacency[s] <= cross[s])
================================================================================
