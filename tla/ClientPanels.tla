----------------------------- MODULE ClientPanels ------------------------------
(***************************************************************************)
(* Smaller parts of the web client that keep a state of their own:         *)
(*                                                                         *)
(*   - the viewers of the admin page: the conversations with the dialog of *)
(*     their messages and their order, the application logs of a level,    *)
(*     the execution history of a cron job, the dialog that tests a        *)
(*     webhook;                                                            *)
(*   - the dashboard of resources with its interval and its snapshots;     *)
(*   - the popup that asks for a rating of a conversation;                 *)
(*   - the command palette with the commands used last;                    *)
(*   - the toasts, which every part raises.                                *)
(*                                                                         *)
(* A viewer shows what was answered last; nothing cancels a call when      *)
(* another choice is made.                                                 *)
(***************************************************************************)
EXTENDS Naturals, Sequences, SequencesExt, FiniteSetsExt

CONSTANTS Threads,       \* conversations, or webhooks
          NoChoice,
          MaxPicks,      \* bound: choices made in a viewer
          MaxPolls,      \* bound: refreshes of the dashboard, with the two at first
          MaxSnapshots,  \* MAX_SNAPSHOTS
          Thresholds,    \* RATING_THRESHOLDS
          MaxAnswers,    \* bound: answers in a conversation
          MaxMoves,      \* bound: changes of their number
          MaxRecent,     \* MAX_RECENT_COMMANDS
          ToastLimit,    \* TOAST_LIMIT
          MaxRaised      \* bound: toasts raised

ASSUME PanelsAssumption ==
    /\ NoChoice \notin Threads \cup {"desc", "asc", "INFO", "ERROR", "all", "failure"}
    /\ {MaxPicks, MaxMoves, MaxRaised} \subseteq Nat /\ ToastLimit \in Nat \ {0}
    /\ MaxPolls \in Nat \ {0, 1}
    /\ MaxSnapshots \in Nat \ {0} /\ MaxRecent \in Nat \ {0}
    /\ MaxAnswers \in Nat /\ Thresholds \subseteq 1..MaxAnswers

VARIABLES viewer,        \* the viewer on the page
          choice,        \* what is chosen in it
          viewed,        \* the choice whose answer it shows
          viewCalls,     \* calls under way for every choice
          picks,         \* choices made so far
          mixed          \* history: a call of another choice was under way, or one failed

VARIABLES autoRefresh,   \* ResourceUsageDashboard: autoRefresh
          timers,        \* intervals that are running
          polls,         \* refreshes so far
          pollsOut,      \* for either hook, the refreshes whose calls are under way
          held,          \* the one whose answer it holds, or 0
          hookState,     \* loading, with an error, or neither
          snapshots,     \* held at every change of it
          alone          \* history: the last one that found no call under way

VARIABLES answers,       \* aiMessageCount of the conversation on the page
          traced,        \* currentTraceId: the last answer has one
          asking,        \* showRating
          closedAt,      \* dismissedThresholds
          scoring,       \* counts at which ratings under way were submitted
          scored,        \* ConversationRating: isSubmitting
          asked,         \* history: how often each threshold has opened the popup
          movesMade,     \* changes of the number of answers so far
          movedOn        \* history: that number changed with the popup open

VARIABLES paletteOpen,   \* CommandPalette: open
          recent,        \* recentCommands
          storedRecent   \* the same in localStorage

VARIABLES toasts,        \* memoryState: the latest first
          toastTimeouts, \* ids of the toasts that are to be removed
          raised,        \* count: the id given last
          dismissed      \* history: the toasts that were dismissed

viewerVars == <<viewer, choice, viewed, viewCalls, picks, mixed>>
dashboardVars == <<autoRefresh, timers, polls, pollsOut, held, hookState, snapshots, alone>>
ratingVars == <<answers, traced, asking, closedAt, scoring, scored, asked, movesMade, movedOn>>
paletteVars == <<paletteOpen, recent, storedRecent>>
toastVars == <<toasts, toastTimeouts, raised, dismissed>>
panelVars == <<viewerVars, dashboardVars, ratingVars, paletteVars, toastVars>>

-------------------------------------------------------------------------------
(* The viewers.                                                            *)

ChoicesOf(v) == CASE v = "conversation" -> Threads
                [] v = "order" -> {"desc", "asc"}
                [] v = "logs" -> {"INFO", "ERROR"}
                [] v = "history" -> {"all", "failure"}
                [] v = "test" -> Threads
Viewers == {"conversation", "order", "logs", "history", "test"}
Dialogs == {"conversation", "test"}
FirstChoice(v) == CASE v \in Dialogs -> NoChoice
                    [] v = "order" -> "desc"
                    [] v = "logs" -> "INFO"
                    [] v = "history" -> "all"
MaxCalls == 2            \* bound: calls for one choice under way at a time

Room(n) == IF n > MaxCalls THEN MaxCalls ELSE n
CallsOut == {c \in ChoicesOf(viewer) : viewCalls[c] > 0}

\* useConversations, LogViewer and useCronExecutionHistory fetch when mounted; a
\* dialog is closed.
ViewerInit ==
    /\ viewer \in Viewers
    /\ choice = FirstChoice(viewer) /\ viewed = NoChoice
    /\ viewCalls = [c \in ChoicesOf(viewer) |-> IF c = choice THEN 1 ELSE 0]
    /\ picks = 0 /\ mixed = FALSE

\* The filter of the execution history is a new object at every rendering, and a
\* new filter a reason to fetch.
Refetches(c) == viewer = "history" /\ c # "all"

\* Mutant: the choice is no reason to fetch.
ChooseOnly(c, calls) ==
    /\ picks < MaxPicks /\ picks' = picks + 1
    /\ choice' = c /\ viewed' = IF viewer \in Dialogs THEN NoChoice ELSE viewed
    /\ mixed' = (CallsOut \ {c} # {})
    /\ UNCHANGED <<viewer, viewCalls>>

\* Another choice, with so many calls for it.
Choose(c, calls) ==
    /\ picks < MaxPicks /\ picks' = picks + 1
    /\ choice' = c /\ viewed' = IF viewer \in Dialogs THEN NoChoice ELSE viewed
    /\ viewCalls' = [viewCalls EXCEPT ![c] = Room(@ + calls)]
    /\ mixed' = (CallsOut \ {c} # {})
    /\ UNCHANGED viewer

\* viewConversation: the dialog opens, and the messages are fetched.
ViewConversation(c) == viewer = "conversation" /\ choice = NoChoice /\ Choose(c, 1)

ToggleSortOrder(c) == viewer = "order" /\ c # choice /\ Choose(c, 1)

SetLevel(c) == viewer = "logs" /\ c # choice /\ Choose(c, 1)

SetOutcomeFilter(c) ==
    viewer = "history" /\ c # choice /\ Choose(c, IF Refetches(c) THEN 2 ELSE 1)

\* handleTest of the table of webhooks: the dialog opens without a response.
OpenTest(c) == viewer = "test" /\ choice = NoChoice /\ Choose(c, 0)

\* onSubmit of the dialog, with its form valid: not while a test is under way, be
\* it of another webhook (isTesting outlives the dialog).
SubmitTest ==
    /\ viewer = "test" /\ choice # NoChoice /\ CallsOut = {}
    /\ viewed' = NoChoice
    /\ viewCalls' = [viewCalls EXCEPT ![choice] = 1]
    /\ UNCHANGED <<viewer, choice, picks, mixed>>

\* handleDialogChange: the selected conversation, or webhook, is forgotten, not
\* its call.
CloseViewed ==
    /\ viewer \in Dialogs /\ choice # NoChoice
    /\ choice' = NoChoice /\ viewed' = NoChoice
    /\ UNCHANGED <<viewer, viewCalls, picks, mixed>>

\* A call for c ends; with a filter the rendering that follows fetches, and so
\* does the one with loading set.
Ended(c) ==
    LET rest == [viewCalls EXCEPT ![c] = @ - 1]
    IN viewCalls' = IF Refetches(choice) THEN [rest EXCEPT ![choice] = Room(@ + 2)] ELSE rest

\* Any answer is shown, in the dialog under the title of the one selected by now.
Arrives(c) ==
    /\ c \in CallsOut
    /\ viewed' = IF choice = NoChoice THEN viewed ELSE c
    /\ Ended(c)
    /\ UNCHANGED <<viewer, choice, picks, mixed>>

\* A call fails: a toast, an error or nothing; what was shown stays.  (A test that
\* fails is a response like another.)
ViewFails(c) ==
    /\ c \in CallsOut /\ viewer # "test"
    /\ Ended(c)
    /\ mixed' = TRUE
    /\ UNCHANGED <<viewer, choice, viewed, picks>>

ViewerNext ==
    \/ \E c \in ChoicesOf(viewer) :
         \/ ViewConversation(c) \/ ToggleSortOrder(c) \/ SetLevel(c) \/ SetOutcomeFilter(c)
         \/ OpenTest(c) \/ Arrives(c) \/ ViewFails(c)
    \/ SubmitTest \/ CloseViewed

ViewerSpec == ViewerInit /\ [][ViewerNext]_viewerVars

-------------------------------------------------------------------------------
(* The dashboard of resources.                                             *)

Hooks == {"metrics", "instances"}

\* The hooks fetch when mounted, and so does the dashboard's effect.
DashboardInit ==
    /\ autoRefresh = TRUE /\ timers = 1
    /\ polls = 2 /\ pollsOut = [h \in Hooks |-> {1, 2}]
    /\ held = [h \in Hooks |-> 0] /\ hookState = [h \in Hooks |-> "loading"]
    /\ snapshots = <<>> /\ alone = [h \in Hooks |-> 1]

\* handleRefresh: whatever is under way.
Refresh ==
    /\ polls < MaxPolls /\ polls' = polls + 1
    /\ pollsOut' = [h \in Hooks |-> pollsOut[h] \cup {polls'}]
    /\ hookState' = [h \in Hooks |-> "loading"]
    /\ alone' = [h \in Hooks |-> IF pollsOut[h] = {} THEN polls' ELSE alone[h]]

\* By an interval, by its button, which is disabled while a hook is loading, or by
\* the button beside an error.
RefreshNow ==
    /\ \/ timers > 0
       \/ \A h \in Hooks : hookState[h] # "loading"
       \/ \E h \in Hooks : hookState[h] = "error"
    /\ Refresh
    /\ UNCHANGED <<autoRefresh, timers, held, snapshots>>

\* Mutant: the effect returns no cleanup.
RestartWithout(on) == timers' = timers + IF on THEN 1 ELSE 0

\* The effect runs again: its cleanup stops the interval there was.
Restart(on) ==
    timers' = (timers - IF autoRefresh THEN 1 ELSE 0) + IF on THEN 1 ELSE 0

\* The switch, or another interval.
ChangeRefresh ==
    /\ autoRefresh' \in BOOLEAN
    /\ Restart(autoRefresh')
    /\ Refresh
    /\ UNCHANGED <<held, snapshots>>

\* The effect on metrics and instances: a snapshot of both, once there are metrics.
Snapshot(both) ==
    IF both["metrics"] = 0 THEN snapshots
    ELSE LET next == Append(snapshots, both)
             n == Len(next)
         IN IF n > MaxSnapshots THEN SubSeq(next, n - MaxSnapshots + 1, n) ELSE next

\* The call of refresh n is answered, in whatever order; an earlier error stays on the
\* page.  (No instances where the server has no such endpoint.)
HookAnswered(h, n) ==
    /\ pollsOut' = [pollsOut EXCEPT ![h] = @ \ {n}]
    /\ held' = [held EXCEPT ![h] = n]
    /\ snapshots' = Snapshot(held')
    /\ hookState' = [hookState EXCEPT ![h] = IF @ = "error" THEN @ ELSE "ready"]
    /\ UNCHANGED <<autoRefresh, timers, polls, alone>>

HookFails(h, n) ==
    /\ pollsOut' = [pollsOut EXCEPT ![h] = @ \ {n}]
    /\ hookState' = [hookState EXCEPT ![h] = "error"]
    /\ UNCHANGED <<autoRefresh, timers, polls, held, snapshots, alone>>

DashboardNext ==
    \/ RefreshNow \/ ChangeRefresh
    \/ \E h \in Hooks : \E n \in pollsOut[h] : HookAnswered(h, n) \/ HookFails(h, n)

DashboardSpec == DashboardInit /\ [][DashboardNext]_dashboardVars

-------------------------------------------------------------------------------
(* The popup for ratings.                                                  *)

RatingInit ==
    /\ answers = 0 /\ traced = FALSE /\ asking = FALSE /\ closedAt = {} /\ scoring = {} /\ scored = FALSE
    /\ asked = [t \in Thresholds |-> 0] /\ movesMade = 0 /\ movedOn = FALSE

\* The effect on the number of answers and on the thresholds dismissed, after a
\* rendering with the popup open or not.
Watch(open, n, closed) ==
    LET opens == n \in Thresholds \ closed
    IN /\ asking' = (open \/ opens)
       /\ asked' = [t \in Thresholds |-> asked[t] + IF opens /\ ~open /\ t = n THEN 1 ELSE 0]

\* An answer more, or another conversation: what is open stays open, but is on the
\* page only with a trace to score, and forgets its submission otherwise.
AnswersChange(n) ==
    /\ n # answers /\ movesMade < MaxMoves
    /\ answers' = n /\ movesMade' = movesMade + 1
    /\ traced' \in BOOLEAN /\ (traced' => n > 0)
    /\ scored' = (scored /\ traced')
    /\ Watch(asking, n, closedAt)
    /\ movedOn' = (movedOn \/ asking \/ scoring # {})
    /\ UNCHANGED <<closedAt, scoring>>

\* submitRating: while the score is sent the popup stays, and can be dismissed; the
\* next one knows nothing of it.  Bound: one score of a number of answers.
SubmitRating ==
    /\ asking /\ traced /\ ~scored /\ answers \notin scoring
    /\ scoring' = scoring \cup {answers} /\ scored' = TRUE
    /\ UNCHANGED <<answers, traced, asking, closedAt, asked, movesMade, movedOn>>

\* Mutant: nothing is recorded.
CloseRatingOnly(n) == asking' = FALSE /\ scored' = FALSE /\ UNCHANGED <<closedAt, asked>>

\* The popup is closed; n is the number of answers as of the rendering that
\* handed out the callback.
CloseRating(n) ==
    /\ closedAt' = closedAt \cup {n} /\ scored' = FALSE
    /\ Watch(FALSE, answers, closedAt')

\* handleRatingComplete, when the score is sent; handleRatingDismiss.
RatingDone ==
    /\ \/ \E n \in scoring : CloseRating(n) /\ scoring' = scoring \ {n}
       \/ asking /\ traced /\ CloseRating(answers) /\ UNCHANGED scoring
    /\ UNCHANGED <<answers, traced, movesMade, movedOn>>

RatingNext == (\E n \in 0..MaxAnswers : AnswersChange(n)) \/ SubmitRating \/ RatingDone

RatingSpec == RatingInit /\ [][RatingNext]_ratingVars

-------------------------------------------------------------------------------
(* The command palette.                                                    *)

Commands == {"nav-channels", "channel-add", "session-send"}

PaletteInit == paletteOpen = FALSE /\ recent = <<>> /\ storedRecent = <<>>

\* Ctrl+K, Escape or a click beside it.
TogglePalette ==
    /\ paletteOpen' = ~paletteOpen
    /\ UNCHANGED <<recent, storedRecent>>

\* saveRecentCommand: first, and nowhere else.
WithRecent(c) ==
    LET all == <<c>> \o RemoveFirst(recent, c)
    IN SubSeq(all, 1, IF Len(all) > MaxRecent THEN MaxRecent ELSE Len(all))

\* executeCommand: what the command does is the page's (OpenTab of GatewayTables,
\* or nothing but a line in the console).
ExecuteCommand(c) ==
    /\ paletteOpen
    /\ recent' = WithRecent(c) /\ storedRecent' = recent'
    /\ paletteOpen' = FALSE

\* The admin page is left and opened again.
LoadRecent ==
    /\ paletteOpen' = FALSE
    /\ recent' = storedRecent
    /\ UNCHANGED storedRecent

PaletteNext == (\E c \in Commands : ExecuteCommand(c)) \/ TogglePalette \/ LoadRecent

PaletteSpec == PaletteInit /\ [][PaletteNext]_paletteVars

-------------------------------------------------------------------------------
(* The toasts.                                                             *)

ToastInit == toasts = <<>> /\ toastTimeouts = {} /\ raised = 0 /\ dismissed = {}

\* toast, and ADD_TOAST of the reducer: the oldest ones make room.
RaiseToast ==
    /\ raised < MaxRaised /\ raised' = raised + 1
    /\ LET all == <<[id |-> raised', open |-> TRUE]>> \o toasts
       IN toasts' = SubSeq(all, 1, IF Len(all) > ToastLimit THEN ToastLimit ELSE Len(all))
    /\ UNCHANGED <<toastTimeouts, dismissed>>

\* DISMISS_TOAST, when the user closes a toast on the page or its time is over:
\* it closes at once, and is removed much later.
DismissToast(i) ==
    /\ toasts[i].open
    /\ toasts' = [toasts EXCEPT ![i].open = FALSE]
    /\ toastTimeouts' = toastTimeouts \cup {toasts[i].id}
    /\ dismissed' = dismissed \cup {toasts[i].id}
    /\ UNCHANGED raised

\* Mutant: REMOVE_TOAST without an id.
WithoutAny(t) == <<>>

\* REMOVE_TOAST of the reducer; an id is given once.
Without(t) == RemoveFirstMatch(toasts, LAMBDA u : u.id = t)

\* The timeout set by addToRemoveQueue.
RemoveToast(t) ==
    /\ toastTimeouts' = toastTimeouts \ {t}
    /\ toasts' = Without(t)
    /\ UNCHANGED <<raised, dismissed>>

ToastNext ==
    \/ RaiseToast
    \/ \E i \in DOMAIN toasts : DismissToast(i)
    \/ \E t \in toastTimeouts : RemoveToast(t)

ToastSpec == ToastInit /\ [][ToastNext]_toastVars

-------------------------------------------------------------------------------
ViewerTypes ==
    /\ viewer \in Viewers
    /\ {choice, viewed} \subseteq ChoicesOf(viewer) \cup {NoChoice}
    /\ viewCalls \in [ChoicesOf(viewer) -> 0..MaxCalls]
    /\ picks \in 0..MaxPicks /\ mixed \in BOOLEAN

DashboardTypes ==
    /\ autoRefresh \in BOOLEAN /\ timers \in Nat /\ polls \in 2..MaxPolls
    /\ pollsOut \in [Hooks -> SUBSET (1..polls)] /\ alone \in [Hooks -> 1..polls]
    /\ held \in [Hooks -> 0..polls] /\ hookState \in [Hooks -> {"loading", "ready", "error"}]
    /\ snapshots \in Seq([Hooks -> Nat])

RatingTypes ==
    /\ answers \in 0..MaxAnswers /\ {asking, scored, traced, movedOn} \subseteq BOOLEAN
    /\ closedAt \subseteq 0..MaxAnswers /\ scoring \subseteq 0..MaxAnswers
    /\ asked \in [Thresholds -> Nat] /\ movesMade \in 0..MaxMoves

PaletteTypes ==
    /\ paletteOpen \in BOOLEAN /\ recent \in Seq(Commands) /\ IsInjective(recent)
    /\ storedRecent \in Seq(Commands) /\ Len(recent) <= MaxRecent

ToastTypes ==
    /\ toasts \in Seq([id : 1..MaxRaised, open : BOOLEAN]) /\ Len(toasts) <= ToastLimit
    /\ raised \in 0..MaxRaised /\ {toastTimeouts, dismissed} \subseteq SUBSET (1..raised)

PanelsTypeOK == ViewerTypes /\ DashboardTypes /\ RatingTypes /\ PaletteTypes /\ ToastTypes

\* A viewer shows what is chosen once its calls are answered, and a dialog no
\* messages of another conversation, and no response of another webhook: only a
\* call for another choice that was under way, or one that failed, can have it
\* show something else.
ShownIsChosen ==
    ~mixed => /\ CallsOut = {} /\ viewer # "test" => viewed = choice
              /\ viewer \in Dialogs => viewed \in {NoChoice, choice}

\* The dashboard polls with one interval while it refreshes by itself and with
\* none otherwise, however often that is changed, and its last snapshot is what the
\* hooks hold.  Calls that overlap may be answered in any order, and an older answer
\* then takes the place of a newer one, but never of one asked once all calls before
\* were over: that one, or a later one, is held when the calls are, without an error.
DashboardKeepsUp ==
    /\ timers = IF autoRefresh THEN 1 ELSE 0
    /\ Len(snapshots) <= MaxSnapshots
    /\ snapshots # <<>> => Last(snapshots) = held
    /\ \A h \in Hooks :
         /\ pollsOut[h] = {} /\ hookState[h] # "error" => held[h] >= alone[h]
         /\ \A i \in 1..Len(snapshots) - 1 :
              snapshots[i][h] >= alone[h] => snapshots[i + 1][h] >= alone[h]

\* A threshold asks for a rating once, however the conversations are switched
\* between: unless their number of answers changed with the popup open, as the
\* one that is dismissed is the number at that moment.
AskedOnce == ~movedOn => \A t \in Thresholds : asked[t] <= 1

\* The toast raised last is on the page, and open, until it is dismissed: the
\* timeout of an older one, which by then was pushed out by it, removes nothing
\* else.  One that is closed has a timeout that removes it.
NewestToastStays ==
    /\ raised \in dismissed \cup {0} \/ (toasts # <<>> /\ Head(toasts) = [id |-> raised, open |-> TRUE])
    /\ \A i \in DOMAIN toasts : toasts[i].open \/ toasts[i].id \in toastTimeouts
===============================================================================
