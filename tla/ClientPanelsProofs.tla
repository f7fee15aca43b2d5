--------------------------- MODULE ClientPanelsProofs ---------------------------
(***************************************************************************)
(* Proofs about the smaller parts of the web client, for any number of     *)
(* conversations, thresholds, snapshots and toasts.                        *)
(***************************************************************************)
EXTENDS ClientPanels, TLAPS

-------------------------------------------------------------------------------
(* The viewers.                                                            *)

\* Unless calls were mixed, the only ones under way are for what is chosen.  A
\* dialog that is closed shows nothing.
ViewerInv ==
    /\ ViewerTypes
    /\ viewer \notin Dialogs => choice # NoChoice
    /\ viewer \in Dialogs /\ choice = NoChoice => viewed = NoChoice
    /\ ~mixed /\ choice # NoChoice => CallsOut \subseteq {choice}
    /\ ShownIsChosen

LEMMA NoChoiceIsNone ==
  ASSUME PanelsAssumption, viewer \in Viewers
  PROVE  NoChoice \notin ChoicesOf(viewer)
BY DEF PanelsAssumption, Viewers, ChoicesOf

LEMMA RoomLeft ==
  ASSUME NEW n \in Nat
  PROVE  Room(n) \in 0..MaxCalls /\ (n > 0 => Room(n) > 0)
BY DEF Room, MaxCalls

LEMMA ViewerStarts == ASSUME PanelsAssumption, ViewerInit PROVE ViewerInv
<1>1. choice \in ChoicesOf(viewer) \cup {NoChoice} /\ (viewer \notin Dialogs => choice \in ChoicesOf(viewer))
  BY DEF ViewerInit, Viewers, FirstChoice, ChoicesOf, Dialogs
<1>2. viewer \in Dialogs => choice = NoChoice
  BY DEF ViewerInit, FirstChoice, Dialogs
<1>3. ViewerTypes
  <2>1. viewCalls \in [ChoicesOf(viewer) -> 0..MaxCalls]
    BY DEF ViewerInit, MaxCalls
  <2>2. 0 \in 0..MaxPicks
    BY DEF PanelsAssumption
  <2> QED  BY <1>1, <2>1, <2>2 DEF ViewerInit, ViewerTypes
<1>4. CallsOut \subseteq {choice} /\ (viewer \notin Dialogs => CallsOut = {choice})
  BY <1>1 DEF CallsOut, ViewerInit
<1> QED
  BY <1>1, <1>2, <1>3, <1>4, NoChoiceIsNone DEF ViewerInit, ViewerInv, ShownIsChosen, Dialogs

\* Another choice, with a call for it unless it opens the dialog of a test.
LEMMA ChooseKeeps ==
  ASSUME PanelsAssumption, ViewerInv, NEW c \in ChoicesOf(viewer), NEW n \in 0..2,
         Choose(c, n), n = 0 => viewer = "test",
         viewer \in Dialogs => choice = NoChoice
  PROVE  ViewerInv'
<1>1. c # NoChoice /\ choice' = c /\ viewer' = viewer
  BY NoChoiceIsNone DEF Choose, ViewerInv, ViewerTypes
<1>2. viewCalls' \in [ChoicesOf(viewer) -> 0..MaxCalls] /\ (n > 0 => viewCalls'[c] > 0)
       /\ \A d \in ChoicesOf(viewer) \ {c} : viewCalls'[d] = viewCalls[d]
  <2>1. viewCalls[c] \in 0..MaxCalls
    BY DEF ViewerInv, ViewerTypes
  <2>2. viewCalls[c] + n \in Nat /\ (n > 0 => viewCalls[c] + n > 0)
    BY <2>1 DEF MaxCalls
  <2> QED  BY <2>2, RoomLeft DEF Choose, ViewerInv, ViewerTypes
<1>3. CallsOut' \subseteq CallsOut \cup {c} /\ (n > 0 => c \in CallsOut')
  BY <1>1, <1>2 DEF CallsOut
<1>4. ViewerTypes'
  BY <1>1, <1>2 DEF Choose, ViewerInv, ViewerTypes, PanelsAssumption
<1>5. ~mixed' => CallsOut' \subseteq {c}
  BY <1>3 DEF Choose
<1>6. viewer \in Dialogs => viewed' = NoChoice
  BY DEF Choose
<1> QED
  BY <1>1, <1>3, <1>4, <1>5, <1>6 DEF ViewerInv, ShownIsChosen, Dialogs

\* The end of a call, with the fetches of the rendering after it.
LEMMA EndedCalls ==
  ASSUME PanelsAssumption, ViewerInv, NEW c \in CallsOut, Ended(c), viewer' = viewer
  PROVE  /\ viewCalls' \in [ChoicesOf(viewer) -> 0..MaxCalls]
         /\ CallsOut' \subseteq CallsOut \cup {choice}
         /\ viewer \in Dialogs => CallsOut' \subseteq CallsOut
<1>1. c \in ChoicesOf(viewer) /\ viewCalls[c] \in 1..MaxCalls
  BY DEF CallsOut, ViewerInv, ViewerTypes, MaxCalls
<1> DEFINE rest == [viewCalls EXCEPT ![c] = @ - 1]
<1>2. rest \in [ChoicesOf(viewer) -> 0..MaxCalls] /\ \A d \in ChoicesOf(viewer) : rest[d] <= viewCalls[d]
  BY <1>1 DEF ViewerInv, ViewerTypes, MaxCalls
<1>3. CASE Refetches(choice)
  <2>1. choice \in ChoicesOf(viewer) /\ viewer \notin Dialogs
    BY <1>3 DEF Refetches, ViewerInv, ViewerTypes, Dialogs
  <2>2. viewCalls' = [rest EXCEPT ![choice] = Room(@ + 2)]
    BY <1>3 DEF Ended
  <2>3. rest[choice] + 2 \in Nat
    BY <1>2, <2>1 DEF MaxCalls
  <2>4. viewCalls' \in [ChoicesOf(viewer) -> 0..MaxCalls]
         /\ \A d \in ChoicesOf(viewer) \ {choice} : viewCalls'[d] = rest[d]
    BY <1>2, <2>2, <2>3, RoomLeft
  <2>5. \A d \in ChoicesOf(viewer) \ {choice} : viewCalls'[d] > 0 => viewCalls[d] > 0
    BY <1>2, <2>4 DEF ViewerInv, ViewerTypes, MaxCalls
  <2> QED  BY <2>1, <2>4, <2>5 DEF CallsOut
<1>4. CASE ~Refetches(choice)
  <2>1. viewCalls' = rest
    BY <1>4 DEF Ended
  <2>2. \A d \in ChoicesOf(viewer) : viewCalls'[d] > 0 => viewCalls[d] > 0
    BY <1>2, <2>1 DEF ViewerInv, ViewerTypes, MaxCalls
  <2> QED  BY <1>2, <2>1, <2>2 DEF CallsOut
<1> QED  BY <1>3, <1>4

LEMMA ViewerStep ==
  ASSUME PanelsAssumption, ViewerInv, [ViewerNext]_viewerVars
  PROVE  ViewerInv'
<1>1. ASSUME NEW c \in ChoicesOf(viewer),
             \/ ViewConversation(c) \/ ToggleSortOrder(c) \/ SetLevel(c) \/ SetOutcomeFilter(c)
             \/ OpenTest(c)
      PROVE  ViewerInv'
  <2>1. PICK n \in 0..2 : /\ Choose(c, n) /\ (n = 0 => viewer = "test")
                          /\ viewer \in Dialogs => choice = NoChoice
    BY <1>1 DEF ViewConversation, ToggleSortOrder, SetLevel, SetOutcomeFilter, OpenTest, Dialogs
  <2> QED  BY <2>1, ChooseKeeps
<1>2. ASSUME NEW c \in ChoicesOf(viewer), Arrives(c)  PROVE ViewerInv'
  <2>1. c \in CallsOut /\ Ended(c) /\ UNCHANGED <<viewer, choice, picks, mixed>>
    BY <1>2 DEF Arrives
  <2>2. ViewerTypes' /\ CallsOut' \subseteq CallsOut \cup {choice} /\ (viewer \in Dialogs => CallsOut' \subseteq CallsOut)
    BY <1>2, <2>1, EndedCalls DEF ViewerInv, ViewerTypes, Arrives
  <2>3. ~mixed /\ choice # NoChoice => c = choice /\ viewed' = choice
    BY <1>2, <2>1 DEF Arrives, ViewerInv
  <2>4. choice = NoChoice => viewed' = viewed
    BY <1>2 DEF Arrives
  <2> QED  BY <2>1, <2>2, <2>3, <2>4 DEF ViewerInv, ShownIsChosen
<1>3. ASSUME NEW c \in ChoicesOf(viewer), ViewFails(c)  PROVE ViewerInv'
  <2>1. c \in CallsOut /\ Ended(c) /\ UNCHANGED <<viewer, choice, viewed, picks>> /\ mixed' = TRUE
    BY <1>3 DEF ViewFails
  <2>2. ViewerTypes'
    BY <2>1, EndedCalls DEF ViewerInv, ViewerTypes
  <2> QED  BY <2>1, <2>2 DEF ViewerInv, ShownIsChosen
<1>4. CASE SubmitTest
  <2>1. viewCalls' = [viewCalls EXCEPT ![choice] = 1] /\ choice \in ChoicesOf(viewer)
    BY <1>4 DEF SubmitTest, ViewerInv, ViewerTypes
  <2>2. ViewerTypes'
    BY <1>4, <2>1 DEF SubmitTest, ViewerInv, ViewerTypes, MaxCalls
  <2>3. CallsOut' = {choice}
    BY <1>4, <2>1 DEF SubmitTest, CallsOut, ViewerInv, ViewerTypes
  <2> QED  BY <1>4, <2>2, <2>3 DEF SubmitTest, ViewerInv, ShownIsChosen, Dialogs
<1>5. CASE CloseViewed
  <2>1. CallsOut' = CallsOut
    BY <1>5 DEF CloseViewed, CallsOut
  <2> QED  BY <1>5, <2>1 DEF CloseViewed, ViewerInv, ViewerTypes, ShownIsChosen
<1>6. CASE UNCHANGED viewerVars
  <2>1. CallsOut' = CallsOut
    BY <1>6 DEF viewerVars, CallsOut
  <2> QED  BY <1>6, <2>1 DEF viewerVars, ViewerInv, ViewerTypes, ShownIsChosen
<1> QED  BY <1>1, <1>2, <1>3, <1>4, <1>5, <1>6 DEF ViewerNext

LEMMA ViewerKept == ViewerSpec => []ViewerInv
<1>1. ViewerInit => ViewerInv
  BY PanelsAssumption, ViewerStarts
<1>2. ViewerInv /\ [ViewerNext]_viewerVars => ViewerInv'
  BY PanelsAssumption, ViewerStep
<1> QED  BY <1>1, <1>2, PTL DEF ViewerSpec

\* A viewer shows what is chosen in it, and a dialog nothing of another one, unless
\* calls for two choices overlapped or one failed: of ConversationList,
\* LogViewer, CronExecutionHistory and WebhookTestDialog.
THEOREM ViewersShowChoice == ViewerSpec => []ShownIsChosen
<1>1. ViewerInv => ShownIsChosen
  BY DEF ViewerInv
<1> QED  BY <1>1, ViewerKept, PTL

\* A viewer's calls are for what can be chosen in it.
THEOREM ViewerTyping == ViewerSpec => []ViewerTypes
<1>1. ViewerInv => ViewerTypes
  BY DEF ViewerInv
<1> QED  BY <1>1, ViewerKept, PTL

-------------------------------------------------------------------------------
(* The dashboard.                                                          *)

\* What hook h has held of the refresh a or a later one never gives way to an older one.
Steady(s, h, a) == \A i \in 1..Len(s) - 1 : s[i][h] >= a => s[i + 1][h] >= a

Both == [Hooks -> Nat]

\* No call under way is older than the last one that was alone, and an error is shown
\* when none is under way and none as late was answered.
LaterOnly ==
    \A h \in Hooks :
       /\ \A n \in pollsOut[h] : n >= alone[h]
       /\ pollsOut[h] = {} /\ hookState[h] # "error" => held[h] >= alone[h]

Snapshots ==
    /\ snapshots \in Seq(Both) /\ Len(snapshots) <= MaxSnapshots
    /\ snapshots # <<>> => snapshots[Len(snapshots)] = held
    /\ held["metrics"] = 0 => snapshots = <<>>
    /\ \A i \in 1..Len(snapshots) : \A h \in Hooks : snapshots[i][h] <= polls
    /\ \A h \in Hooks : Steady(snapshots, h, alone[h])

Clockwork == autoRefresh \in BOOLEAN /\ timers = IF autoRefresh THEN 1 ELSE 0

PollTypes ==
    /\ polls \in 2..MaxPolls
    /\ pollsOut \in [Hooks -> SUBSET (1..polls)] /\ alone \in [Hooks -> 1..polls]
    /\ held \in [Hooks -> 0..polls] /\ hookState \in [Hooks -> {"loading", "ready", "error"}]

DashboardInv == Clockwork /\ PollTypes /\ LaterOnly /\ Snapshots

LEMMA DashboardStarts == ASSUME PanelsAssumption, DashboardInit PROVE DashboardInv
<1>1. Clockwork /\ PollTypes
  BY DEF PanelsAssumption, DashboardInit, Clockwork, PollTypes
<1>2. LaterOnly
  BY DEF DashboardInit, LaterOnly
<1>3. Snapshots
  BY DEF PanelsAssumption, DashboardInit, Snapshots, Steady
<1> QED  BY <1>1, <1>2, <1>3 DEF DashboardInv

LEMMA SteadyAppend ==
  ASSUME NEW s \in Seq(Both), NEW p \in Both, NEW h \in Hooks, NEW a \in Nat, Steady(s, h, a),
         s # <<>> /\ s[Len(s)][h] >= a => p[h] >= a,
         NEW next, next = Append(s, p)
  PROVE  Steady(next, h, a)
<1>1. /\ next \in Seq(Both) /\ Len(next) = Len(s) + 1 /\ Len(s) \in Nat
      /\ next[Len(s) + 1] = p
      /\ \A i \in 1..Len(s) : next[i] = s[i]
  OBVIOUS
<1>2. ASSUME NEW i \in 1..Len(s), next[i][h] >= a  PROVE next[i + 1][h] >= a
  <2>1. CASE i = Len(s)
    BY <1>1, <1>2, <2>1
  <2>2. CASE i # Len(s)
    <3>1. i \in 1..Len(s) - 1 /\ i + 1 \in 1..Len(s)
      BY <1>1, <2>2
    <3> QED  BY <3>1, <1>1, <1>2 DEF Steady
  <2> QED  BY <2>1, <2>2
<1> QED  BY <1>1, <1>2 DEF Steady

\* Without its first snapshot.
LEMMA RestOf ==
  ASSUME NEW s \in Seq(Both), NEW n \in Nat \ {0}, Len(s) = n + 1, NEW rest, rest = SubSeq(s, 2, n + 1)
  PROVE  rest \in Seq(Both) /\ Len(rest) = n /\ \A i \in 1..n : rest[i] = s[i + 1]
OBVIOUS

LEMMA RestSteady ==
  ASSUME NEW s \in Seq(Both), NEW n \in Nat \ {0}, Len(s) = n + 1, NEW rest \in Seq(Both), Len(rest) = n,
         \A i \in 1..n : rest[i] = s[i + 1], NEW h \in Hooks, NEW a \in Nat, Steady(s, h, a)
  PROVE  Steady(rest, h, a)
<1>2. ASSUME NEW i \in 1..n - 1, rest[i][h] >= a
      PROVE  rest[i + 1][h] >= a
  <2>1. PICK j \in 1..n : j = i + 1
    OBVIOUS
  <2>2. rest[j] = s[j + 1] /\ rest[i] = s[j] /\ j \in 1..Len(s) - 1
    BY <2>1
  <2> QED  BY <1>2, <2>1, <2>2 DEF Steady
<1> QED  BY <1>2 DEF Steady

\* A snapshot of what the hooks hold after an answer that is not too old.
LEMMA SnapshotKeeps ==
  ASSUME PanelsAssumption, DashboardInv, NEW both \in [Hooks -> 0..polls],
         both["metrics"] = 0 => held["metrics"] = 0,
         \A h \in Hooks : held[h] >= alone[h] => both[h] >= alone[h],
         held' = both, snapshots' = Snapshot(both), UNCHANGED <<polls, alone>>
  PROVE  Snapshots'
<1>1. /\ snapshots \in Seq(Both) /\ Len(snapshots) \in Nat /\ Len(snapshots) <= MaxSnapshots
      /\ MaxSnapshots \in Nat \ {0} /\ polls \in Nat /\ both \in Both
      /\ \A h \in Hooks : alone[h] \in Nat
  BY DEF DashboardInv, Snapshots, PollTypes, PanelsAssumption, Both
<1>2. CASE both["metrics"] = 0
  <2>1. snapshots' = <<>>
    BY <1>2 DEF Snapshot, DashboardInv, Snapshots
  <2> QED  BY <1>1, <2>1 DEF Snapshots, Steady
<1>3. CASE both["metrics"] # 0
  <2>1. PICK next : next = Append(snapshots, both)
    OBVIOUS
  <2>2. /\ next \in Seq(Both) /\ Len(next) = Len(snapshots) + 1 /\ next[Len(next)] = both
        /\ \A i \in 1..Len(snapshots) : next[i] = snapshots[i]
    BY <1>1, <2>1
  <2>3. ASSUME NEW i \in 1..Len(next), NEW h \in Hooks  PROVE next[i][h] <= polls
    <3>1. CASE i = Len(next)
      BY <2>2, <3>1
    <3>2. CASE i # Len(next)
      <4>1. i \in 1..Len(snapshots)
        BY <1>1, <2>2, <3>2
      <4> QED  BY <2>2, <4>1 DEF DashboardInv, Snapshots
    <3> QED  BY <3>1, <3>2
  <2>4. ASSUME NEW h \in Hooks  PROVE Steady(next, h, alone[h])
    <3>1. Steady(snapshots, h, alone[h])
      BY DEF DashboardInv, Snapshots
    <3>2. snapshots # <<>> /\ snapshots[Len(snapshots)][h] >= alone[h] => both[h] >= alone[h]
      BY DEF DashboardInv, Snapshots
    <3> QED  BY <1>1, <2>1, <3>1, <3>2, SteadyAppend
  <2>5. CASE Len(next) > MaxSnapshots
    <3>1. Len(next) = MaxSnapshots + 1 /\ Len(next) - MaxSnapshots + 1 = 2
      BY <1>1, <2>2, <2>5
    <3>2. snapshots' = SubSeq(next, 2, MaxSnapshots + 1)
      BY <1>3, <2>1, <2>5, <3>1 DEF Snapshot
    <3>3. /\ snapshots' \in Seq(Both) /\ Len(snapshots') = MaxSnapshots
          /\ \A i \in 1..MaxSnapshots : snapshots'[i] = next[i + 1]
          /\ \A h \in Hooks : Steady(snapshots', h, alone[h])
      <4>1. PICK rest : rest = SubSeq(next, 2, MaxSnapshots + 1)
        OBVIOUS
      <4>2. rest \in Seq(Both) /\ Len(rest) = MaxSnapshots /\ \A i \in 1..MaxSnapshots : rest[i] = next[i + 1]
        BY <1>1, <2>2, <3>1, <4>1, RestOf
      <4>3. ASSUME NEW h \in Hooks  PROVE Steady(rest, h, alone[h])
        BY <1>1, <2>2, <2>4, <3>1, <4>2, RestSteady
      <4>4. snapshots' = rest
        BY <3>2, <4>1
      <4> QED  BY <4>2, <4>3, <4>4
    <3>4. snapshots'[MaxSnapshots] = both
      BY <1>1, <2>2, <3>1, <3>3
    <3>5. \A i \in 1..Len(snapshots') : \A h \in Hooks : snapshots'[i][h] <= polls
      <4>1. \A i \in 1..MaxSnapshots : i + 1 \in 1..Len(next)
        BY <1>1, <3>1
      <4> QED  BY <2>3, <3>3, <4>1
    <3> QED  BY <1>1, <1>3, <3>3, <3>4, <3>5 DEF Snapshots
  <2>6. CASE ~(Len(next) > MaxSnapshots)
    <3>1. snapshots' = next /\ Len(next) <= MaxSnapshots
      BY <1>1, <1>3, <2>1, <2>2, <2>6 DEF Snapshot
    <3> QED  BY <1>1, <1>3, <2>2, <2>3, <2>4, <3>1 DEF Snapshots
  <2> QED  BY <2>5, <2>6
<1> QED  BY <1>2, <1>3

LEMMA RefreshKeeps ==
  ASSUME PanelsAssumption, DashboardInv, Refresh, UNCHANGED <<held, snapshots>>
  PROVE  PollTypes' /\ LaterOnly' /\ Snapshots'
<1>0. /\ polls \in Nat /\ polls' = polls + 1 /\ polls' \in 2..MaxPolls
      /\ \A h \in Hooks : pollsOut[h] \subseteq 1..polls /\ alone[h] \in 1..polls /\ held[h] \in 0..polls
  <2>1. polls \in Nat /\ polls' = polls + 1 /\ polls' \in 2..MaxPolls
    BY DEF PanelsAssumption, DashboardInv, PollTypes, Refresh
  <2>2. \A h \in Hooks : pollsOut[h] \subseteq 1..polls /\ alone[h] \in 1..polls /\ held[h] \in 0..polls
    BY DEF DashboardInv, PollTypes
  <2> QED  BY <2>1, <2>2
<1>1. \A h \in Hooks : /\ pollsOut'[h] = pollsOut[h] \cup {polls'}
                       /\ alone'[h] = IF pollsOut[h] = {} THEN polls' ELSE alone[h]
  BY DEF Refresh
<1>2. PollTypes'
  <2>1. pollsOut' \in [Hooks -> SUBSET (1..polls')]
    BY <1>0 DEF Refresh
  <2>2. alone' \in [Hooks -> 1..polls'] /\ held' \in [Hooks -> 0..polls']
    BY <1>0 DEF Refresh, DashboardInv, PollTypes
  <2>3. hookState' \in [Hooks -> {"loading", "ready", "error"}]
    BY DEF Refresh
  <2> QED  BY <1>0, <2>1, <2>2, <2>3 DEF PollTypes
<1>3. LaterOnly'
  BY <1>0, <1>1 DEF LaterOnly, DashboardInv
<1>4. Snapshots'
  <2>1. \A i \in 1..Len(snapshots) : \A h \in Hooks : snapshots[i][h] \in Nat /\ snapshots[i][h] <= polls
    BY DEF DashboardInv, Snapshots, Both
  <2>2. ASSUME NEW h \in Hooks  PROVE Steady(snapshots, h, alone'[h])
    <3>1. CASE pollsOut[h] = {}
      <4>1. alone'[h] = polls + 1 /\ Len(snapshots) \in Nat
        BY <1>0, <1>1, <3>1 DEF DashboardInv, Snapshots
      <4> QED  BY <1>0, <2>1, <4>1 DEF Steady
    <3>2. CASE pollsOut[h] # {}
      BY <1>1, <3>2 DEF DashboardInv, Snapshots
    <3> QED  BY <3>1, <3>2
  <2>3. \A i \in 1..Len(snapshots) : \A h \in Hooks : snapshots[i][h] <= polls'
    BY <1>0, <2>1
  <2> QED  BY <2>2, <2>3 DEF DashboardInv, Snapshots
<1> QED  BY <1>2, <1>3, <1>4

LEMMA AnswerKeeps ==
  ASSUME PanelsAssumption, DashboardInv, NEW h \in Hooks, NEW n \in pollsOut[h], HookAnswered(h, n)
  PROVE  DashboardInv'
<1>0. /\ n \in 1..polls /\ n >= alone[h] /\ polls \in Nat
      /\ held' = [held EXCEPT ![h] = n] /\ UNCHANGED <<polls, alone>>
  BY DEF DashboardInv, PollTypes, LaterOnly, HookAnswered
<1>1. held' \in [Hooks -> 0..polls] /\ held'[h] = n /\ \A g \in Hooks \ {h} : held'[g] = held[g]
  BY <1>0 DEF DashboardInv, PollTypes
<1>2. PollTypes'
  <2>1. pollsOut' \in [Hooks -> SUBSET (1..polls)]
    BY DEF HookAnswered, DashboardInv, PollTypes
  <2>2. hookState' \in [Hooks -> {"loading", "ready", "error"}]
    BY DEF HookAnswered, DashboardInv, PollTypes
  <2> QED  BY <1>0, <1>1, <2>1, <2>2 DEF DashboardInv, PollTypes
<1>3. LaterOnly'
  <2>1. ASSUME NEW g \in Hooks  PROVE pollsOut'[g] \subseteq pollsOut[g]
    BY DEF HookAnswered, DashboardInv, PollTypes
  <2>2. ASSUME NEW g \in Hooks \ {h}  PROVE pollsOut'[g] = pollsOut[g] /\ hookState'[g] = hookState[g]
    BY DEF HookAnswered, DashboardInv, PollTypes
  <2> QED  BY <1>0, <1>1, <2>1, <2>2 DEF DashboardInv, LaterOnly
<1>4. Snapshots'
  <2>1. snapshots' = Snapshot(held')
    BY DEF HookAnswered
  <2>2. PICK both : both = held'
    OBVIOUS
  <2>3. both["metrics"] = 0 => held["metrics"] = 0
    BY <1>0, <1>1, <2>2 DEF Hooks
  <2>4. \A g \in Hooks : held[g] >= alone[g] => both[g] >= alone[g]
    BY <1>0, <1>1, <2>2
  <2> QED  BY <1>0, <1>1, <2>1, <2>2, <2>3, <2>4, SnapshotKeeps
<1>5. Clockwork'
  BY DEF HookAnswered, DashboardInv, Clockwork
<1> QED  BY <1>2, <1>3, <1>4, <1>5 DEF DashboardInv

LEMMA FailureKeeps ==
  ASSUME DashboardInv, NEW h \in Hooks, NEW n \in pollsOut[h], HookFails(h, n)
  PROVE  DashboardInv'
<1>1. PollTypes'
  <2>1. pollsOut' \in [Hooks -> SUBSET (1..polls)]
    BY DEF HookFails, DashboardInv, PollTypes
  <2>2. hookState' \in [Hooks -> {"loading", "ready", "error"}]
    BY DEF HookFails, DashboardInv, PollTypes
  <2> QED  BY <2>1, <2>2 DEF HookFails, DashboardInv, PollTypes
<1>2. LaterOnly'
  <2>1. hookState'[h] = "error" /\ pollsOut'[h] \subseteq pollsOut[h]
    BY DEF HookFails, DashboardInv, PollTypes
  <2>2. ASSUME NEW g \in Hooks \ {h}  PROVE pollsOut'[g] = pollsOut[g] /\ hookState'[g] = hookState[g]
    BY DEF HookFails, DashboardInv, PollTypes
  <2>3. UNCHANGED <<held, alone>>
    BY DEF HookFails
  <2> QED  BY <2>1, <2>2, <2>3 DEF DashboardInv, LaterOnly
<1>3. Snapshots' /\ Clockwork'
  BY DEF HookFails, DashboardInv, Snapshots, Clockwork
<1> QED  BY <1>1, <1>2, <1>3 DEF DashboardInv

LEMMA DashboardStep ==
  ASSUME PanelsAssumption, DashboardInv, [DashboardNext]_dashboardVars
  PROVE  DashboardInv'
<1>1. CASE RefreshNow
  BY <1>1, RefreshKeeps DEF RefreshNow, DashboardInv, Clockwork
<1>2. CASE ChangeRefresh
  <2>1. Clockwork'
    BY <1>2 DEF ChangeRefresh, Restart, DashboardInv, Clockwork
  <2> QED  BY <1>2, <2>1, RefreshKeeps DEF ChangeRefresh, DashboardInv
<1>3. CASE \E h \in Hooks : \E n \in pollsOut[h] : HookAnswered(h, n) \/ HookFails(h, n)
  BY <1>3, AnswerKeeps, FailureKeeps
<1>4. CASE UNCHANGED dashboardVars
  BY <1>4 DEF dashboardVars, DashboardInv, Clockwork, PollTypes, LaterOnly, Snapshots
<1> QED  BY <1>1, <1>2, <1>3, <1>4 DEF DashboardNext

LEMMA DashboardKept == DashboardSpec => []DashboardInv
<1>1. DashboardInit => DashboardInv
  BY PanelsAssumption, DashboardStarts
<1>2. DashboardInv /\ [DashboardNext]_dashboardVars => DashboardInv'
  BY PanelsAssumption, DashboardStep
<1> QED  BY <1>1, <1>2, PTL DEF DashboardSpec

\* ResourceUsageDashboard runs one interval or none, keeps no more than MAX_SNAPSHOTS,
\* and never goes back behind a refresh that started with no call under way.
THEOREM DashboardStaysUp == DashboardSpec => []DashboardKeepsUp
<1>1. DashboardInv => DashboardKeepsUp
  BY DEF DashboardInv, Clockwork, LaterOnly, Snapshots, Steady, DashboardKeepsUp, Last
<1> QED  BY <1>1, DashboardKept, PTL

\* The two hooks' states and the calls under way.
THEOREM DashboardTyping == DashboardSpec => []DashboardTypes
<1>1. DashboardInv => DashboardTypes
  BY DEF DashboardInv, Clockwork, PollTypes, Snapshots, Both, DashboardTypes
<1> QED  BY <1>1, DashboardKept, PTL

-------------------------------------------------------------------------------
(* The popup for ratings.                                                  *)

\* A threshold that has asked is closed, or open on the page; scores under way
\* are of the number of answers that the conversation still has.
RatingInv ==
    /\ RatingTypes
    /\ ~movedOn =>
         /\ scoring \subseteq {answers}
         /\ \A t \in Thresholds : /\ asked[t] <= 1
                                  /\ asked[t] = 0 \/ t \in closedAt \/ (asking /\ answers = t)

LEMMA RatingStarts == ASSUME PanelsAssumption, RatingInit PROVE RatingInv
<1>1. 0 \in 0..MaxAnswers /\ 0 \in 0..MaxMoves
  BY DEF PanelsAssumption
<1>2. {asking, scored, traced, movedOn} \subseteq BOOLEAN
  BY DEF RatingInit
<1>3. asked \in [Thresholds -> Nat] /\ \A t \in Thresholds : asked[t] = 0
  BY DEF RatingInit
<1> QED  BY <1>1, <1>2, <1>3 DEF RatingInit, RatingInv, RatingTypes

LEMMA WatchTypes ==
  ASSUME RatingTypes, NEW open \in BOOLEAN, NEW n, NEW closed, Watch(open, n, closed)
  PROVE  asking' \in BOOLEAN /\ asked' \in [Thresholds -> Nat]
BY DEF RatingTypes, Watch

LEMMA RatingStep ==
  ASSUME PanelsAssumption, RatingInv, [RatingNext]_ratingVars
  PROVE  RatingInv'
<1>1. ASSUME NEW n \in 0..MaxAnswers, AnswersChange(n)  PROVE RatingInv'
  <2>1. RatingTypes'
    <3>1. asking' \in BOOLEAN /\ asked' \in [Thresholds -> Nat]
      BY <1>1, WatchTypes DEF AnswersChange, RatingInv, RatingTypes
    <3>2. movesMade' \in 0..MaxMoves
      BY <1>1 DEF AnswersChange, RatingInv, RatingTypes, PanelsAssumption
    <3>3. {scored', traced', movedOn'} \subseteq BOOLEAN
      BY <1>1 DEF AnswersChange
    <3> QED  BY <1>1, <3>1, <3>2, <3>3 DEF AnswersChange, RatingInv, RatingTypes
  <2> SUFFICES ASSUME ~movedOn'
               PROVE  /\ scoring' \subseteq {answers'}
                      /\ \A t \in Thresholds : /\ asked'[t] <= 1
                                               /\ asked'[t] = 0 \/ t \in closedAt' \/ (asking' /\ answers' = t)
    BY <2>1 DEF RatingInv
  <2>2. ~movedOn /\ ~asking /\ scoring = {}
    BY <1>1 DEF AnswersChange
  <2>3. \A t \in Thresholds : asked[t] \in Nat /\ asked[t] <= 1 /\ (asked[t] = 0 \/ t \in closedAt)
    BY <2>2 DEF RatingInv, RatingTypes
  <2>4. answers' = n /\ closedAt' = closedAt /\ scoring' = {} /\ Watch(FALSE, n, closedAt)
    <3>1. asking = FALSE
      BY <2>2 DEF RatingInv, RatingTypes
    <3> QED  BY <1>1, <2>2, <3>1 DEF AnswersChange
  <2>5. \A t \in Thresholds : asked'[t] = asked[t] \/ (t = n /\ t \notin closedAt /\ asking' /\ asked'[t] = asked[t] + 1)
    <3>1. CASE n \in Thresholds \ closedAt
      <4>1. asking'
        BY <2>4, <3>1, Zenon DEF Watch
      <4>2. asked' = [t \in Thresholds |-> asked[t] + IF t = n THEN 1 ELSE 0]
        BY <2>4, <3>1, Zenon DEF Watch
      <4>3. n \notin closedAt
        BY <3>1
      <4>4. ASSUME NEW t \in Thresholds
            PROVE  asked'[t] = asked[t] \/ (t = n /\ asked'[t] = asked[t] + 1)
        <5>1. asked[t] \in Nat
          BY <2>3
        <5>2. asked'[t] = asked[t] + IF t = n THEN 1 ELSE 0
          BY <4>2, Zenon
        <5> QED  BY <5>1, <5>2
      <4> QED  BY <4>1, <4>3, <4>4, Zenon
    <3>2. CASE n \notin Thresholds \ closedAt
      <4>1. \A t \in Thresholds : asked'[t] = asked[t] + 0
        BY <2>4, <3>2 DEF Watch
      <4>2. ASSUME NEW t \in Thresholds  PROVE asked'[t] = asked[t]
        <5>1. asked[t] \in Nat
          BY <2>3
        <5>2. asked'[t] = asked[t] + 0
          BY <4>1, Zenon
        <5> QED  BY <5>1, <5>2
      <4> QED  BY <4>2, Zenon
    <3> QED  BY <3>1, <3>2
  <2> QED  BY <2>3, <2>4, <2>5
<1>2. CASE SubmitRating
  BY <1>2 DEF SubmitRating, RatingInv, RatingTypes
<1>3. CASE RatingDone
  <2>1. PICK n \in 0..MaxAnswers : /\ CloseRating(n) /\ scoring' \subseteq scoring
                                   /\ ~movedOn => n = answers
    BY <1>3 DEF RatingDone, RatingInv, RatingTypes
  <2>2. UNCHANGED <<answers, traced, movesMade, movedOn>>
    BY <1>3 DEF RatingDone
  <2>3. closedAt' = closedAt \cup {n} /\ scored' = FALSE /\ Watch(FALSE, answers, closedAt')
    BY <2>1 DEF CloseRating
  <2>4. RatingTypes'
    <3>1. asking' \in BOOLEAN /\ asked' \in [Thresholds -> Nat]
      BY <2>3, WatchTypes DEF RatingInv
    <3> QED  BY <2>1, <2>2, <2>3, <3>1 DEF RatingInv, RatingTypes
  <2> SUFFICES ASSUME ~movedOn
               PROVE  /\ scoring' \subseteq {answers}
                      /\ \A t \in Thresholds : /\ asked'[t] <= 1
                                               /\ asked'[t] = 0 \/ t \in closedAt'
    BY <2>2, <2>4 DEF RatingInv
  <2>5. asked' = asked
    BY <2>1, <2>3 DEF Watch, RatingInv, RatingTypes
  <2> QED  BY <2>1, <2>3, <2>5 DEF RatingInv
<1>4. CASE UNCHANGED ratingVars
  BY <1>4 DEF ratingVars, RatingInv, RatingTypes
<1> QED  BY <1>1, <1>2, <1>3, <1>4 DEF RatingNext

LEMMA RatingKept == RatingSpec => []RatingInv
<1>1. RatingInit => RatingInv
  BY PanelsAssumption, RatingStarts
<1>2. RatingInv /\ [RatingNext]_ratingVars => RatingInv'
  BY PanelsAssumption, RatingStep
<1> QED  BY <1>1, <1>2, PTL DEF RatingSpec

\* useRatingTrigger opens the popup of a threshold once, unless the number of
\* answers changed while it was open or its score under way.
THEOREM ThresholdsAskOnce == RatingSpec => []AskedOnce
<1>1. RatingInv => AskedOnce
  BY DEF RatingInv, AskedOnce
<1> QED  BY <1>1, RatingKept, PTL

\* The popup's state, and numbers of answers that a conversation may have.
THEOREM RatingTyping == RatingSpec => []RatingTypes
<1>1. RatingInv => RatingTypes
  BY DEF RatingInv
<1> QED  BY <1>1, RatingKept, PTL

-------------------------------------------------------------------------------
(* Lists that are kept by recency.                                         *)

\* An element is put first, and the list cut to m.
LEMMA PutFirst ==
  ASSUME NEW S, NEW s \in Seq(S), NEW e \in S, NEW m \in Nat \ {0},
         NEW all, all = <<e>> \o s,
         NEW t, t = SubSeq(all, 1, IF Len(all) > m THEN m ELSE Len(all))
  PROVE  /\ t \in Seq(S) /\ Len(t) \in 1..m /\ Len(t) <= Len(s) + 1
         /\ t[1] = e /\ \A i \in 2..Len(t) : t[i] = s[i - 1] /\ i - 1 \in 1..Len(s)
<1>1. /\ all \in Seq(S) /\ Len(all) = Len(s) + 1 /\ Len(s) \in Nat
      /\ all[1] = e /\ \A i \in 2..Len(all) : all[i] = s[i - 1]
  OBVIOUS
<1>2. PICK n \in 1..Len(all) : n = IF Len(all) > m THEN m ELSE Len(all)
  BY <1>1
<1>3. n <= m /\ n \in Nat
  BY <1>1, <1>2
<1>4. t \in Seq(S) /\ Len(t) = n /\ \A i \in 1..n : t[i] = all[i]
  BY <1>1, <1>2
<1> QED  BY <1>1, <1>2, <1>3, <1>4

\* The element at i is taken out.
LEMMA TakenOut ==
  ASSUME NEW S, NEW s \in Seq(S), NEW i \in 1..Len(s), NEW t, t = RemoveAt(s, i)
  PROVE  /\ t \in Seq(S) /\ Len(t) = Len(s) - 1
         /\ \A j \in 1..Len(t) : t[j] = IF j < i THEN s[j] ELSE s[j + 1]
<1>1. PICK a, b : a = SubSeq(s, 1, i - 1) /\ b = SubSeq(s, i + 1, Len(s))
  OBVIOUS
<1>2. a \in Seq(S) /\ Len(a) = i - 1 /\ \A j \in 1..Len(a) : a[j] = s[j]
  BY <1>1
<1>3. b \in Seq(S) /\ Len(b) = Len(s) - i /\ \A j \in 1..Len(b) : b[j] = s[j + i]
  BY <1>1
<1>4. t = a \o b
  BY <1>1 DEF RemoveAt
<1>5. /\ t \in Seq(S) /\ Len(t) = Len(a) + Len(b)
      /\ \A j \in 1..Len(t) : t[j] = IF j <= Len(a) THEN a[j] ELSE b[j - Len(a)]
  <2>1. a \in Seq(S) /\ b \in Seq(S)
    BY <1>2, <1>3
  <2>2. Len(a \o b) = Len(a) + Len(b) /\ a \o b \in Seq(S)
    BY <2>1, SMTT(30)
  <2>3. \A j \in 1..Len(a) + Len(b) : (a \o b)[j] = IF j <= Len(a) THEN a[j] ELSE b[j - Len(a)]
    BY <2>1, SMTT(30)
  <2> QED  BY <1>4, <2>2, <2>3
<1>6. Len(t) = Len(s) - 1
  BY <1>2, <1>3, <1>5
<1>7. ASSUME NEW j \in 1..Len(t)  PROVE t[j] = IF j < i THEN s[j] ELSE s[j + 1]
  <2>1. CASE j < i
    BY <1>2, <1>5, <1>7, <2>1
  <2>2. CASE ~(j < i)
    <3>1. j - Len(a) \in 1..Len(b) /\ (j - Len(a)) + i = j + 1 /\ ~(j <= Len(a))
      BY <1>2, <1>3, <1>6, <1>7, <2>2
    <3> QED  BY <1>3, <1>5, <2>2, <3>1
  <2> QED  BY <2>1, <2>2
<1> QED  BY <1>5, <1>6, <1>7

-------------------------------------------------------------------------------
(* The command palette.                                                    *)

PaletteInv == PaletteTypes /\ IsInjective(storedRecent) /\ Len(storedRecent) <= MaxRecent

\* A command that is in the list is at one place of it.
LEMMA RecentWithout ==
  ASSUME NEW s \in Seq(Commands), IsInjective(s), NEW c, NEW t, t = RemoveFirst(s, c)
  PROVE  /\ t \in Seq(Commands) /\ Len(t) <= Len(s)
         /\ IsInjective(t) /\ \A i \in DOMAIN t : t[i] # c
<1>1. CASE \E i \in 1..Len(s) : s[i] = c
  <2>1. PICK i \in 1..Len(s) : s[i] = c
    BY <1>1
  <2>2. {j \in 1..Len(s) : s[j] = c} = {i}
    BY <2>1 DEF IsInjective
  <2>3. Min({i}) = i
    BY DEF Min
  <2>4. SelectInSeq(s, LAMBDA v : v = c) = i
    BY <2>2, <2>3 DEF SelectInSeq
  <2>5. t = RemoveAt(s, i)
    BY <1>1, <2>4 DEF RemoveFirst
  <2>6. /\ t \in Seq(Commands) /\ Len(t) = Len(s) - 1 /\ Len(s) \in Nat
        /\ \A j \in 1..Len(t) : t[j] = IF j < i THEN s[j] ELSE s[j + 1]
    BY <2>5, TakenOut
  <2>7. DOMAIN t = 1..Len(t) /\ DOMAIN s = 1..Len(s)
    BY <2>6
  <2>8. \A j \in 1..Len(t) : j + 1 \in 1..Len(s) /\ j \in 1..Len(s)
    BY <2>6
  <2>9. ASSUME NEW j \in 1..Len(t)  PROVE t[j] # c
    <3>1. PICK k \in 1..Len(s) : k # i /\ t[j] = s[k]
      <4>1. CASE j < i
        BY <2>6, <2>8, <4>1
      <4>2. CASE ~(j < i)
        <5>1. j + 1 \in 1..Len(s) /\ j + 1 # i /\ t[j] = s[j + 1]
          BY <2>6, <2>8, <4>2
        <5> QED  BY <5>1
      <4> QED  BY <4>1, <4>2
    <3> QED  BY <2>1, <2>7, <3>1 DEF IsInjective
  <2>10. ASSUME NEW a \in 1..Len(t), NEW b \in 1..Len(t), t[a] = t[b]  PROVE a = b
    <3>1. PICK x \in 1..Len(s) : x = (IF a < i THEN a ELSE a + 1) /\ t[a] = s[x]
      BY <2>6, <2>8
    <3>2. PICK y \in 1..Len(s) : y = (IF b < i THEN b ELSE b + 1) /\ t[b] = s[y]
      BY <2>6, <2>8
    <3>3. x = y
      BY <2>7, <2>10, <3>1, <3>2 DEF IsInjective
    <3> QED  BY <3>1, <3>2, <3>3
  <2> QED  BY <2>6, <2>7, <2>9, <2>10 DEF IsInjective
<1>2. CASE ~\E i \in 1..Len(s) : s[i] = c
  BY <1>2 DEF RemoveFirst
<1> QED  BY <1>1, <1>2

LEMMA PaletteStarts == ASSUME PanelsAssumption, PaletteInit PROVE PaletteInv
<1>1. <<>> \in Seq(Commands) /\ IsInjective(<<>>) /\ Len(<<>>) = 0
  BY DEF IsInjective
<1>2. 0 <= MaxRecent
  BY DEF PanelsAssumption
<1> QED  BY <1>1, <1>2 DEF PaletteInit, PaletteInv, PaletteTypes

LEMMA PaletteStep ==
  ASSUME PanelsAssumption, PaletteInv, [PaletteNext]_paletteVars
  PROVE  PaletteInv'
<1>1. ASSUME NEW c \in Commands, ExecuteCommand(c)  PROVE PaletteInv'
  <2>1. PICK s : s = RemoveFirst(recent, c)
    OBVIOUS
  <2>2. s \in Seq(Commands) /\ IsInjective(s) /\ \A i \in DOMAIN s : s[i] # c
    BY <2>1, RecentWithout DEF PaletteInv, PaletteTypes
  <2>3. PICK all : all = <<c>> \o s
    OBVIOUS
  <2>4. recent' = SubSeq(all, 1, IF Len(all) > MaxRecent THEN MaxRecent ELSE Len(all))
    BY <1>1, <2>1, <2>3 DEF ExecuteCommand, WithRecent
  <2>5. PICK t : t = recent'
    OBVIOUS
  <2>6. /\ t \in Seq(Commands) /\ Len(t) \in 1..MaxRecent
        /\ t[1] = c /\ \A i \in 2..Len(t) : t[i] = s[i - 1] /\ i - 1 \in 1..Len(s)
    BY <2>2, <2>3, <2>4, <2>5, PutFirst DEF PanelsAssumption
  <2>7. ASSUME NEW a \in 1..Len(t), NEW b \in 1..Len(t), t[a] = t[b]  PROVE a = b
    <3>0. Len(t) \in Nat /\ a \in Nat /\ b \in Nat /\ DOMAIN s = 1..Len(s)
      BY <2>2, <2>6
    <3>1. ASSUME NEW d \in 2..Len(t)  PROVE t[d] # c /\ d - 1 \in DOMAIN s /\ t[d] = s[d - 1]
      <4>1. t[d] = s[d - 1] /\ d - 1 \in 1..Len(s)
        BY <2>6
      <4> QED  BY <2>2, <3>0, <4>1
    <3>2. CASE a = 1 \/ b = 1
      <4>1. a # 1 => a \in 2..Len(t)
        BY <3>0
      <4>2. b # 1 => b \in 2..Len(t)
        BY <3>0
      <4>3. t[1] = c
        BY <2>6
      <4> QED  BY <2>7, <3>1, <3>2, <4>1, <4>2, <4>3, Zenon
    <3>3. CASE a # 1 /\ b # 1
      <4>1. a \in 2..Len(t) /\ b \in 2..Len(t)
        BY <3>0, <3>3
      <4>2. a - 1 \in DOMAIN s /\ b - 1 \in DOMAIN s /\ s[a - 1] = s[b - 1]
        BY <2>7, <3>1, <4>1, Zenon
      <4>3. a - 1 = b - 1
        BY <2>2, <4>2, Zenon DEF IsInjective
      <4> QED  BY <3>0, <4>3
    <3> QED  BY <3>2, <3>3
  <2>8. IsInjective(t)
    BY <2>6, <2>7 DEF IsInjective
  <2>9. Len(t) <= MaxRecent
    BY <2>6 DEF PanelsAssumption
  <2>10. recent' = t /\ storedRecent' = t /\ paletteOpen' \in BOOLEAN
    BY <1>1, <2>5 DEF ExecuteCommand
  <2> QED  BY <2>6, <2>8, <2>9, <2>10 DEF PaletteInv, PaletteTypes
<1>2. CASE TogglePalette
  BY <1>2 DEF TogglePalette, PaletteInv, PaletteTypes
<1>3. CASE LoadRecent
  BY <1>3 DEF LoadRecent, PaletteInv, PaletteTypes
<1>4. CASE UNCHANGED paletteVars
  BY <1>4 DEF paletteVars, PaletteInv, PaletteTypes
<1> QED  BY <1>1, <1>2, <1>3, <1>4 DEF PaletteNext

\* The recent commands are at most MaxRecent and no command is there twice, after
\* any use of the palette and of what it stored (saveRecentCommand).
THEOREM PaletteTyping == PaletteSpec => []PaletteTypes
<1>1. PaletteInit => PaletteInv
  BY PanelsAssumption, PaletteStarts
<1>2. PaletteInv /\ [PaletteNext]_paletteVars => PaletteInv'
  BY PanelsAssumption, PaletteStep
<1>3. PaletteInv => PaletteTypes
  BY DEF PaletteInv
<1> QED  BY <1>1, <1>2, <1>3, PTL DEF PaletteSpec

-------------------------------------------------------------------------------
(* The toasts.                                                             *)

Toast == [id : 1..MaxRaised, open : BOOLEAN]

\* The latest first and an id once, n being the id given last.
ToastList(s, n) ==
    /\ s \in Seq(Toast) /\ Len(s) <= ToastLimit
    /\ \A i \in 1..Len(s) : s[i].id <= n
    /\ \A i, j \in 1..Len(s) : i < j => s[i].id > s[j].id

\* The toast n is first and open, and closed ones are to be removed.
NewestFirst(s, n, gone, due) ==
    /\ n \in gone \cup {0} \/ (Len(s) > 0 /\ s[1].id = n /\ s[1].open = TRUE)
    /\ \A i \in 1..Len(s) : s[i].open \/ s[i].id \in due

ToastInv ==
    /\ ToastList(toasts, raised)
    /\ NewestFirst(toasts, raised, dismissed, toastTimeouts)
    /\ raised \in 0..MaxRaised
    /\ toastTimeouts \subseteq dismissed /\ dismissed \subseteq 1..raised

LEMMA ToastStarts == ASSUME PanelsAssumption, ToastInit PROVE ToastInv
<1>1. 0 \in 0..MaxRaised /\ 0 <= ToastLimit
  BY DEF PanelsAssumption
<1>2. Len(toasts) = 0 /\ toasts \in Seq(Toast)
  BY DEF ToastInit
<1>3. ToastList(toasts, raised)
  BY <1>1, <1>2 DEF ToastList
<1> QED
  BY <1>1, <1>2, <1>3 DEF ToastInit, ToastInv, NewestFirst

LEMMA ToastImplies == ASSUME PanelsAssumption, ToastInv PROVE ToastTypes /\ NewestToastStays
<1>1. toasts \in Seq(Toast)
  BY DEF ToastInv, ToastList
<1>2. DOMAIN toasts = 1..Len(toasts) /\ Len(toasts) \in Nat /\ (toasts # <<>> <=> Len(toasts) > 0)
  BY <1>1
<1>3. Len(toasts) > 0 => Head(toasts) = toasts[1] /\ toasts[1] \in Toast
  BY <1>1
<1>4. \A t \in Toast : t = [id |-> raised, open |-> TRUE] <=> t.id = raised /\ t.open = TRUE
  BY DEF Toast
<1>5. NewestToastStays
  BY <1>2, <1>3, <1>4 DEF ToastInv, NewestFirst, NewestToastStays
<1>6. ToastTypes
  BY DEF ToastInv, ToastList, ToastTypes, Toast
<1> QED  BY <1>5, <1>6

LEMMA Raised ==
  ASSUME PanelsAssumption, ToastInv, RaiseToast PROVE ToastInv'
<1> DEFINE n == raised + 1
<1>1. ToastList(toasts, raised) /\ NewestFirst(toasts, raised, dismissed, toastTimeouts)
       /\ raised \in 0..MaxRaised /\ toastTimeouts \subseteq dismissed /\ dismissed \subseteq 1..raised
  BY DEF ToastInv
<1>2. n \in 1..MaxRaised /\ raised' = n /\ ToastLimit \in Nat \ {0}
  BY <1>1 DEF RaiseToast, PanelsAssumption
<1>3. PICK e \in Toast : e = [id |-> n, open |-> TRUE]
  BY <1>2 DEF Toast
<1>4. PICK all : all = <<e>> \o toasts
  OBVIOUS
<1>5. PICK t : t = toasts'
  OBVIOUS
<1>6. t = SubSeq(all, 1, IF Len(all) > ToastLimit THEN ToastLimit ELSE Len(all))
  BY <1>2, <1>3, <1>4, <1>5 DEF RaiseToast
<1>7. toasts \in Seq(Toast)
  BY <1>1 DEF ToastList
<1>8. /\ t \in Seq(Toast) /\ Len(t) \in 1..ToastLimit
      /\ t[1] = e /\ \A i \in 2..Len(t) : t[i] = toasts[i - 1] /\ i - 1 \in 1..Len(toasts)
  BY <1>2, <1>4, <1>6, <1>7, PutFirst
<1>9. \A i \in 1..Len(toasts) : toasts[i].id \in 1..MaxRaised /\ toasts[i].id <= raised
  <2>1. \A i \in 1..Len(toasts) : toasts[i] \in Toast
    BY <1>7
  <2> QED  BY <1>1, <2>1 DEF ToastList, Toast
<1>10. ASSUME NEW i \in 2..Len(t) PROVE t[i].id <= raised /\ t[i].id \in 1..MaxRaised
  BY <1>8, <1>9, <1>10
<1>11. ASSUME NEW i \in 1..Len(t), NEW j \in 1..Len(t), i < j PROVE t[i].id > t[j].id
  <2>1. CASE i = 1
    <3>1. j \in 2..Len(t) /\ t[i].id = n
      BY <1>3, <1>8, <1>11, <2>1
    <3> QED  BY <1>1, <1>10, <3>1
  <2>2. CASE i # 1
    <3>1. i \in 2..Len(t) /\ j \in 2..Len(t) /\ i - 1 < j - 1
      BY <1>11, <2>2
    <3> QED  BY <1>1, <1>8, <3>1 DEF ToastList
  <2> QED  BY <2>1, <2>2
<1>12. \A i \in 1..Len(t) : t[i].id <= n
  <2>1. ASSUME NEW i \in 1..Len(t), i # 1 PROVE t[i].id <= n
    BY <1>1, <1>10, <2>1
  <2>2. t[1].id = n
    BY <1>3, <1>8
  <2> QED  BY <1>2, <2>1, <2>2
<1>13. ToastList(t, n)
  <2>1. t \in Seq(Toast) /\ Len(t) <= ToastLimit
    BY <1>2, <1>8
  <2> QED  BY <2>1, <1>2, <1>8, <1>11, <1>12 DEF ToastList
<1>14. ASSUME NEW i \in 1..Len(t)  PROVE t[i].open \/ t[i].id \in toastTimeouts
  <2>1. CASE i = 1
    BY <1>3, <1>8, <2>1
  <2>2. CASE i # 1
    <3>1. i \in 2..Len(t)
      BY <2>2
    <3> QED  BY <1>1, <1>8, <3>1 DEF NewestFirst
  <2> QED  BY <2>1, <2>2
<1>15. NewestFirst(t, n, dismissed, toastTimeouts)
  BY <1>3, <1>8, <1>14 DEF NewestFirst
<1>16. UNCHANGED <<toastTimeouts, dismissed>> /\ raised' \in 0..MaxRaised /\ dismissed \subseteq 1..raised'
  BY <1>1, <1>2 DEF RaiseToast
<1> QED
  BY <1>1, <1>2, <1>5, <1>13, <1>15, <1>16 DEF ToastInv

LEMMA Dismissed ==
  ASSUME PanelsAssumption, ToastInv, NEW i \in DOMAIN toasts, DismissToast(i)
  PROVE  ToastInv'
<1>1. ToastList(toasts, raised) /\ NewestFirst(toasts, raised, dismissed, toastTimeouts)
       /\ raised \in 0..MaxRaised /\ toastTimeouts \subseteq dismissed /\ dismissed \subseteq 1..raised
  BY DEF ToastInv
<1>2. toasts \in Seq(Toast) /\ i \in 1..Len(toasts) /\ Len(toasts) \in Nat
  BY <1>1 DEF ToastList
<1>3. toasts[i] \in Toast /\ \A j \in 1..Len(toasts) : toasts[j] \in Toast
  BY <1>2
<1>4. PICK t : t = toasts'
  OBVIOUS
<1>5. t = [toasts EXCEPT ![i] = [toasts[i] EXCEPT !.open = FALSE]]
  BY <1>4 DEF DismissToast
<1>6. [toasts[i] EXCEPT !.open = FALSE] \in Toast /\ [toasts[i] EXCEPT !.open = FALSE].id = toasts[i].id
  BY <1>3 DEF Toast
<1>7. t \in Seq(Toast) /\ Len(t) = Len(toasts) /\ \A j \in 1..Len(t) : j # i => t[j] = toasts[j]
  BY <1>2, <1>5, <1>6
<1>8. \A j \in 1..Len(t) : t[j].id = toasts[j].id
  BY <1>2, <1>5, <1>6, <1>7
<1>9. ToastList(t, raised)
  BY <1>1, <1>7, <1>8 DEF ToastList
<1>10. /\ raised' = raised
       /\ toastTimeouts' = toastTimeouts \cup {toasts[i].id} /\ dismissed' = dismissed \cup {toasts[i].id}
  BY DEF DismissToast
<1>11. toasts[i].id \in 1..raised
  <2>1. toasts[i].id \in 1..MaxRaised /\ toasts[i].id <= raised
    BY <1>1, <1>2, <1>3 DEF ToastList, Toast
  <2> QED  BY <1>1, <2>1
<1>12. NewestFirst(t, raised, dismissed', toastTimeouts')
  <2>1. ASSUME raised \notin dismissed' \cup {0}
        PROVE  Len(t) > 0 /\ t[1].id = raised /\ t[1].open = TRUE
    <3>1. Len(toasts) > 0 /\ toasts[1].id = raised /\ toasts[1].open = TRUE /\ toasts[i].id # raised
      BY <1>1, <1>10, <2>1 DEF NewestFirst
    <3>2. i # 1
      BY <3>1
    <3> QED  BY <1>2, <1>7, <3>1, <3>2
  <2>2. ASSUME NEW j \in 1..Len(t)  PROVE t[j].open \/ t[j].id \in toastTimeouts'
    <3>1. CASE j = i
      BY <1>8, <1>10, <3>1
    <3>2. CASE j # i
      BY <1>1, <1>7, <1>10, <3>2 DEF NewestFirst
    <3> QED  BY <3>1, <3>2
  <2> QED  BY <2>1, <2>2 DEF NewestFirst
<1> QED  BY <1>1, <1>4, <1>9, <1>10, <1>11, <1>12 DEF ToastInv

\* The toast that is removed was dismissed, so it is not the latest, open one.
LEMMA Removed ==
  ASSUME PanelsAssumption, ToastInv, NEW d \in toastTimeouts, RemoveToast(d)
  PROVE  ToastInv'
<1>1. ToastList(toasts, raised) /\ NewestFirst(toasts, raised, dismissed, toastTimeouts)
       /\ raised \in 0..MaxRaised /\ toastTimeouts \subseteq dismissed /\ dismissed \subseteq 1..raised
  BY DEF ToastInv
<1>2. toasts \in Seq(Toast) /\ Len(toasts) \in Nat
  BY <1>1 DEF ToastList
<1>3. PICK t : t = toasts'
  OBVIOUS
<1>4. UNCHANGED <<raised, dismissed>> /\ toastTimeouts' = toastTimeouts \ {d} /\ t = Without(d)
  BY <1>3 DEF RemoveToast
<1>5. CASE \E i \in 1..Len(toasts) : toasts[i].id = d
  <2>1. PICK i \in 1..Len(toasts) : toasts[i].id = d
    BY <1>5
  <2>2. \A j \in 1..Len(toasts) : j # i => toasts[j].id # d
    <3> SUFFICES ASSUME NEW j \in 1..Len(toasts), j # i  PROVE toasts[j].id # toasts[i].id
      BY <2>1
    <3>1. toasts[i].id \in Nat /\ toasts[j].id \in Nat
      <4>1. toasts[i] \in Toast /\ toasts[j] \in Toast
        BY <1>2
      <4> QED  BY <4>1 DEF Toast
    <3>2. i < j \/ j < i
      BY <1>2
    <3>3. toasts[i].id > toasts[j].id \/ toasts[j].id > toasts[i].id
      BY <1>1, <3>2 DEF ToastList
    <3> QED  BY <3>1, <3>3
  <2>3. {j \in 1..Len(toasts) : toasts[j].id = d} = {i}
    BY <2>1, <2>2
  <2>4. Min({i}) = i
    BY <1>2 DEF Min
  <2>5. SelectInSeq(toasts, LAMBDA u : u.id = d) = i
    BY <2>3, <2>4 DEF SelectInSeq
  <2>6. t = RemoveAt(toasts, i)
    BY <1>4, <1>5, <2>5 DEF Without, RemoveFirstMatch
  <2>7. /\ t \in Seq(Toast) /\ Len(t) = Len(toasts) - 1
        /\ \A j \in 1..Len(t) : t[j] = IF j < i THEN toasts[j] ELSE toasts[j + 1]
    BY <1>2, <2>6, TakenOut
  <2>8. \A j \in 1..Len(t) : \E x \in 1..Len(toasts) : x = (IF j < i THEN j ELSE j + 1) /\ t[j] = toasts[x] /\ x # i
    <3> SUFFICES ASSUME NEW j \in 1..Len(t)
                 PROVE  \E x \in 1..Len(toasts) : x = (IF j < i THEN j ELSE j + 1) /\ t[j] = toasts[x] /\ x # i
      OBVIOUS
    <3>1. PICK x \in 1..Len(toasts) : x = (IF j < i THEN j ELSE j + 1)
      BY <1>2, <2>7
    <3> QED  BY <2>7, <3>1
  <2>9. ASSUME NEW a \in 1..Len(t), NEW b \in 1..Len(t), a < b  PROVE t[a].id > t[b].id
    <3>1. PICK x \in 1..Len(toasts) : x = (IF a < i THEN a ELSE a + 1) /\ t[a] = toasts[x]
      BY <2>8
    <3>2. PICK y \in 1..Len(toasts) : y = (IF b < i THEN b ELSE b + 1) /\ t[b] = toasts[y]
      BY <2>8
    <3>3. x < y
      BY <2>9, <3>1, <3>2
    <3> QED  BY <1>1, <3>1, <3>2, <3>3 DEF ToastList
  <2>10. Len(t) <= ToastLimit
    BY <1>1, <1>2, <2>7 DEF ToastList, PanelsAssumption
  <2>11. ToastList(t, raised)
    BY <1>1, <2>7, <2>8, <2>9, <2>10 DEF ToastList
  <2>12. ASSUME NEW j \in 1..Len(t)  PROVE t[j].open \/ t[j].id \in toastTimeouts'
    BY <1>1, <1>4, <2>2, <2>8 DEF NewestFirst
  <2>13. ASSUME raised \notin dismissed \cup {0}
         PROVE  Len(t) > 0 /\ t[1].id = raised /\ t[1].open = TRUE
    <3>1. Len(toasts) > 0 /\ toasts[1].id = raised /\ toasts[1].open = TRUE /\ d # raised
      BY <1>1, <2>13 DEF NewestFirst
    <3>2. i # 1
      BY <2>1, <3>1
    <3>3. 1 \in 1..Len(t) /\ 1 < i
      BY <1>2, <2>7, <3>1, <3>2
    <3> QED  BY <2>7, <3>1, <3>3
  <2>14. NewestFirst(t, raised, dismissed, toastTimeouts')
    BY <2>12, <2>13 DEF NewestFirst
  <2> QED  BY <1>1, <1>3, <1>4, <2>11, <2>14 DEF ToastInv
<1>6. CASE ~\E i \in 1..Len(toasts) : toasts[i].id = d
  <2>1. t = toasts
    BY <1>4, <1>6 DEF Without, RemoveFirstMatch
  <2>2. NewestFirst(t, raised, dismissed, toastTimeouts')
    BY <1>1, <1>4, <1>6, <2>1 DEF NewestFirst
  <2> QED  BY <1>1, <1>3, <1>4, <2>1, <2>2 DEF ToastInv
<1> QED  BY <1>5, <1>6

LEMMA ToastStep ==
  ASSUME PanelsAssumption, ToastInv, [ToastNext]_toastVars PROVE ToastInv'
<1>1. CASE UNCHANGED toastVars
  BY <1>1 DEF toastVars, ToastInv
<1> QED  BY <1>1, Raised, Dismissed, Removed DEF ToastNext

LEMMA ToastKept == ToastSpec => []ToastInv
<1>1. ToastInit => ToastInv
  BY PanelsAssumption, ToastStarts
<1>2. ToastInv /\ [ToastNext]_toastVars => ToastInv'
  BY PanelsAssumption, ToastStep
<1> QED  BY <1>1, <1>2, PTL DEF ToastSpec

\* The toast raised last is on the page until it is dismissed, however the timeouts
\* of those before it, pushed out or not, end: of the reducer of use-toast.ts.
THEOREM NewestToastRemains == ToastSpec => []NewestToastStays
<1>1. ToastInv => NewestToastStays
  BY PanelsAssumption, ToastImplies
<1> QED  BY <1>1, ToastKept, PTL

\* No more toasts are on the page than the limit.
THEOREM ToastTyping == ToastSpec => []ToastTypes
<1>1. ToastInv => ToastTypes
  BY PanelsAssumption, ToastImplies
<1> QED  BY <1>1, ToastKept, PTL
=================================================================================
