------------------------------ MODULE DocumentTree ------------------------------
(***************************************************************************)
(* The left side of the documents page: DocumentTree.tsx with              *)
(* useTreeKeyboard, SearchBar, BulkActionsToolbar, CreateDocumentDialog    *)
(* and ReindexDialog, the handlers of pages/Documents.tsx behind them, and *)
(* the tree query they refetch.  What is shown of one document is in       *)
(* DocumentClient.                                                         *)
(*                                                                         *)
(* A path is a sequence of names, a name is a number; directories stay     *)
(* when they are empty.  The tree is kept as the set of its documents and  *)
(* laid out when it is shown.                                              *)
(***************************************************************************)
EXTENDS Naturals, Sequences, FiniteSets, SequencesExt

CONSTANTS Dirs,          \* directories
          FirstDocs,     \* documents at first
          Queries,       \* searches: the document names each of them matches
          MaxName,       \* names are the numbers up to it, in their order
          MaxDepth,      \* bound: directories in each other
          MaxChanges     \* bound: calls, changes of others and lost answers

\* A document has its suffix, by which no directory is called.
ASSUME TreeAssumption ==
    /\ MaxName \in Nat \ {0} /\ MaxDepth \in Nat /\ MaxChanges \in Nat
    /\ Dirs \subseteq BoundedSeq(1..MaxName, MaxDepth) \ {<<>>}
    /\ FirstDocs \subseteq BoundedSeq(1..MaxName, MaxDepth + 1) \ {<<>>}
    /\ \A d \in Dirs \cup FirstDocs : Front(d) \in Dirs \cup {<<>>}
    /\ \A dir \in Dirs, d \in FirstDocs : Last(dir) # Last(d)

VARIABLES docs,          \* the server's documents
          treeDocs,      \* the query's data
          treeLoaded,    \* there is data
          treeFetch,     \* the query's call
          treeRead,      \* the documents it read
          treeNotices,   \* events on their way
          expandedPaths,
          searchQuery,
          focusedPath,
          selectedPaths, \* checked documents
          operating,     \* BulkActionsToolbar
          dialog,        \* the open dialog
          jobs,          \* calls under way
          changes,       \* changes so far
          unseen         \* history: the tree may differ from the server's

treeQuery == <<treeDocs, treeLoaded, treeFetch, treeRead>>
treeView == <<expandedPaths, searchQuery, focusedPath>>
treeWork == <<selectedPaths, operating, dialog, jobs>>
treeVars == <<docs, treeQuery, treeNotices, treeView, treeWork, changes, unseen>>

Root == <<>>
NoPath == <<0>>          \* no node is focused
NoQuery == {0}
Names == {Last(d) : d \in FirstDocs}
Docs == {Append(dir, n) : dir \in Dirs \cup {Root}, n \in Names}

TreeTypeOK ==
    /\ docs \subseteq Docs /\ treeDocs \subseteq Docs /\ treeRead \subseteq Docs
    /\ treeLoaded \in BOOLEAN /\ treeFetch \in {"idle", "asked", "read"}
    /\ treeNotices \in Nat /\ unseen \in BOOLEAN
    /\ expandedPaths \subseteq Dirs /\ searchQuery \in Queries \cup {NoQuery}
    /\ focusedPath \in Dirs \cup Docs \cup {NoPath}
    /\ selectedPaths \subseteq Docs /\ operating \in BOOLEAN
    /\ dialog \in {"none", "create", "delete", "move", "reindex", "reindexing", "reindexed"}
    /\ \A j \in jobs : j.paths \subseteq Docs /\ j.stage \in {"sent", "done", "refused"}
    /\ changes \in 0..MaxChanges

TreeInit ==
    /\ docs = FirstDocs
    /\ treeDocs = {} /\ treeLoaded = FALSE /\ treeFetch = "asked" /\ treeRead = {}
    /\ treeNotices = 0
    /\ expandedPaths = {} /\ searchQuery = NoQuery /\ focusedPath = NoPath
    /\ selectedPaths = {} /\ operating = FALSE /\ dialog = "none" /\ jobs = {}
    /\ changes = 0 /\ unseen = TRUE

Change == changes < MaxChanges /\ changes' = changes + 1

-------------------------------------------------------------------------------
(* Layout.                                                                 *)

\* build_tree: what a directory holds, directories first, by name; NoPath where it has
\* no directory or document of that name.
Places == 2 * MaxName
Order(dir, i) ==
    LET node == Append(dir, IF i > MaxName THEN i - MaxName ELSE i)
    IN IF node \in (IF i > MaxName THEN treeDocs ELSE Dirs) THEN node ELSE NoPath

\* filteredNodes: of a search the documents that match and the directories that
\* hold one at any depth; without a search everything.
Matches(d) == searchQuery = NoQuery \/ Last(d) \in searchQuery
Kept(n) == IF n \in Dirs
             THEN searchQuery = NoQuery \/ \E d \in treeDocs : IsPrefix(n, d) /\ Matches(d)
             ELSE n \in treeDocs /\ Matches(n)

\* flatRenderNodes: what a directory holds up to a place, each node followed by what
\* it holds itself if it is expanded.
flatten[at \in (Dirs \cup {Root}) \X (0..Places)] ==
    IF at[2] = 0 THEN <<>>
    ELSE LET node == Order(at[1], at[2])
         IN flatten[<<at[1], at[2] - 1>>] \o
              (IF ~Kept(node) THEN <<>>
               ELSE IF node \in expandedPaths THEN <<node>> \o flatten[<<node, Places>>]
               ELSE <<node>>)

flatNodes == flatten[<<Root, Places>>]
OnScreen == Range(flatNodes)

-------------------------------------------------------------------------------
(* The tree's query.                                                       *)

\* Mutant: it goes on with the data it has.
RefetchNothing == UNCHANGED <<treeQuery, unseen>>

\* refetch(), or invalidated by an event: the call is made again, but for the
\* first one, which goes on with what it may have read.
Refetch ==
    /\ IF treeLoaded \/ treeFetch = "idle"
         THEN treeFetch' = "asked" /\ treeRead' = {} /\ UNCHANGED unseen
         ELSE unseen' = (unseen \/ treeFetch = "read") /\ UNCHANGED <<treeFetch, treeRead>>
    /\ UNCHANGED <<treeDocs, treeLoaded>>

\* GET /documents/tree.
ReadTree ==
    /\ treeFetch = "asked"
    /\ treeFetch' = "read" /\ treeRead' = docs
    /\ unseen' = FALSE
    /\ UNCHANGED <<docs, treeDocs, treeLoaded, treeNotices, treeView, treeWork, changes>>

TreeArrives ==
    /\ treeFetch = "read"
    /\ treeDocs' = treeRead /\ treeLoaded' = TRUE
    /\ treeFetch' = "idle" /\ treeRead' = {}
    /\ UNCHANGED <<docs, treeNotices, treeView, treeWork, changes, unseen>>

\* All attempts fail: what was shown stays.
TreeFails ==
    /\ treeFetch # "idle" /\ Change
    /\ treeFetch' = "idle" /\ treeRead' = {}
    /\ unseen' = TRUE
    /\ UNCHANGED <<docs, treeDocs, treeLoaded, treeNotices, treeView, treeWork>>

\* An event of the document socket ...
TreeNotified ==
    /\ treeNotices > 0
    /\ treeNotices' = treeNotices - 1
    /\ Refetch
    /\ UNCHANGED <<docs, treeView, treeWork, changes>>

\* ... or one that is lost with its connection.
NoticeLost ==
    /\ treeNotices > 0 /\ Change
    /\ treeNotices' = treeNotices - 1
    /\ unseen' = TRUE
    /\ UNCHANGED <<docs, treeQuery, treeView, treeWork>>

-------------------------------------------------------------------------------
(* The tree: mouse, search and keys.                                       *)

Focus(path) == focusedPath' = path /\ UNCHANGED expandedPaths
ToggleExpand(dir) ==
    /\ expandedPaths' = IF dir \in expandedPaths THEN expandedPaths \ {dir}
                                                 ELSE expandedPaths \cup {dir}
    /\ UNCHANGED focusedPath

ViewOnly == UNCHANGED <<docs, treeQuery, treeNotices, treeWork, changes, unseen>>

\* A click on a directory leaves the focus of the keys where it was.
ClickDirectory(dir) ==
    /\ dialog = "none" /\ dir \in OnScreen \cap Dirs
    /\ ToggleExpand(dir)
    /\ UNCHANGED searchQuery
    /\ ViewOnly

Search(query) ==
    /\ dialog = "none" /\ query # searchQuery
    /\ searchQuery' = query
    /\ UNCHANGED <<expandedPaths, focusedPath>>
    /\ ViewOnly

\* handleKeyDown: a focused node that is not on screen any more is like none.
Key(key) ==
    /\ dialog = "none"
    /\ LET nodes == flatNodes
           shown == {i \in DOMAIN nodes : nodes[i] = focusedPath}
           at == IF shown = {} THEN 0 ELSE CHOOSE i \in shown : TRUE
           last == Len(nodes)
           onDir == at # 0 /\ focusedPath \in Dirs
           open == focusedPath \in expandedPaths
       IN /\ nodes # <<>>
          /\ \/ key = "ArrowDown" /\ Focus(nodes[IF at < last THEN at + 1 ELSE 1])
             \/ key = "ArrowUp" /\ Focus(nodes[IF at > 1 THEN at - 1 ELSE last])
             \/ key = "ArrowRight" /\ onDir /\ ~open /\ ToggleExpand(focusedPath)
             \/ /\ key = "ArrowRight" /\ onDir /\ open /\ at < last
                /\ Len(nodes[at + 1]) > Len(focusedPath)
                /\ Focus(nodes[at + 1])
             \/ key = "ArrowLeft" /\ onDir /\ open /\ ToggleExpand(focusedPath)
             \/ /\ key = "ArrowLeft" /\ at # 0 /\ ~(onDir /\ open)
                /\ Front(focusedPath) # Root
                /\ Focus(Front(focusedPath))
             \/ key = "Enter" /\ onDir /\ ToggleExpand(focusedPath)
             \/ key = "Home" /\ Focus(nodes[1])
             \/ key = "End" /\ Focus(nodes[last])
    /\ UNCHANGED searchQuery
    /\ ViewOnly

\* handleToggleSelect: what is checked stays so when it leaves the screen.
Check(path) ==
    /\ dialog = "none" /\ path \in OnScreen \ Dirs
    /\ selectedPaths' = IF path \in selectedPaths THEN selectedPaths \ {path}
                                                  ELSE selectedPaths \cup {path}
    /\ UNCHANGED <<docs, treeQuery, treeNotices, treeView, operating, dialog, jobs, changes,
                   unseen>>

ClearSelection ==
    /\ dialog = "none" /\ selectedPaths # {}
    /\ selectedPaths' = {}
    /\ UNCHANGED <<docs, treeQuery, treeNotices, treeView, operating, dialog, jobs, changes,
                   unseen>>

-------------------------------------------------------------------------------
(* The dialogs, the toolbar and their calls.                               *)

\* "New Document", "Delete" and "Move" of the toolbar, "Re-index" of a document.
OpenTreeDialog(kind) ==
    /\ dialog = "none"
    /\ kind \in {"delete", "move"} => selectedPaths # {} /\ ~operating
    /\ dialog' = kind
    /\ UNCHANGED <<docs, treeQuery, treeNotices, treeView, selectedPaths, operating, jobs,
                   changes, unseen>>

\* Closed by a button or Escape, also with the call under way.  ReindexDialog
\* refetches once it has a result.
CloseTreeDialog ==
    /\ dialog # "none"
    /\ dialog' = "none"
    /\ IF dialog = "reindexed" THEN Refetch ELSE UNCHANGED <<treeQuery, unseen>>
    /\ UNCHANGED <<docs, treeNotices, treeView, selectedPaths, operating, jobs, changes>>

Call(op, paths, into) ==
    /\ Change
    /\ jobs' = jobs \cup {[op |-> op, paths |-> paths, into |-> into, stage |-> "sent"]}
    /\ UNCHANGED <<docs, treeQuery, treeNotices, treeView, selectedPaths, unseen>>

\* handleSubmit of CreateDocumentDialog, always in the root; creating disables it.
SubmitCreate(name) ==
    /\ dialog = "create" /\ \A j \in jobs : j.op # "create"
    /\ Call("create", {<<name>>}, Root)
    /\ UNCHANGED <<operating, dialog>>

\* handleDelete and handleMove of the toolbar, for what is checked.
SubmitBulk(into) ==
    /\ dialog \in {"delete", "move"} /\ ~operating
    /\ dialog = "delete" => into = Root
    /\ operating' = TRUE
    /\ Call(dialog, selectedPaths, into)
    /\ UNCHANGED dialog

\* "Re-index" of the toolbar, without a dialog.
SubmitBulkReindex ==
    /\ dialog = "none" /\ selectedPaths # {} /\ ~operating
    /\ operating' = TRUE
    /\ Call("bulkReindex", selectedPaths, Root)
    /\ UNCHANGED dialog

\* handleReindex of ReindexDialog (one of them under way at a time).
SubmitReindex ==
    /\ dialog = "reindex" /\ \A j \in jobs : j.op # "reindex"
    /\ dialog' = "reindexing"
    /\ Call("reindex", {}, Root)
    /\ UNCHANGED operating

\* bulk-move: what exists there stays; of documents with one name the
\* first moves.
MoveAll(paths, into) ==
    LET new(d) == Append(into, Last(d))
        free == {d \in paths \cap docs : new(d) \notin docs}
    IN \E moved \in SUBSET free :
         /\ {Last(d) : d \in moved} = {Last(d) : d \in free}
         /\ \A c, d \in moved : Last(c) = Last(d) => c = d
         /\ docs' = (docs \ moved) \cup {new(d) : d \in moved}

\* The server: only a single creation is announced as a change of documents.
HandleJob(j) ==
    /\ j \in jobs /\ j.stage = "sent"
    /\ LET refused == j.op = "create" /\ j.paths \subseteq docs
       IN /\ CASE j.op = "create" -> docs' = docs \cup j.paths
               [] j.op = "delete" -> docs' = docs \ j.paths
               [] j.op = "move" -> MoveAll(j.paths, j.into)
               [] OTHER -> UNCHANGED docs
          /\ jobs' = (jobs \ {j}) \cup {[j EXCEPT !.stage = IF refused THEN "refused" ELSE "done"]}
          /\ treeNotices' = IF j.op = "create" /\ ~refused THEN treeNotices + 1 ELSE treeNotices
    /\ UNCHANGED <<treeQuery, treeView, selectedPaths, operating, dialog, changes, unseen>>

\* The answer: a dialog closes on success, a bulk operation unchecks everything,
\* also what was checked meanwhile, and both fetch the tree again.
JobAnswered(j) ==
    /\ j \in jobs /\ j.stage \in {"done", "refused"}
    /\ jobs' = jobs \ {j}
    /\ operating' = (operating /\ j.op \in {"create", "reindex"})
    /\ selectedPaths' = IF j.op \in {"delete", "move"} THEN {} ELSE selectedPaths
    /\ dialog' = IF j.op = dialog /\ j.stage = "done" THEN "none"
                 ELSE IF j.op = "reindex" /\ dialog = "reindexing" THEN "reindexed"
                 ELSE dialog
    /\ IF j.stage = "done" /\ j.op \in {"create", "delete", "move"}
         THEN Refetch ELSE UNCHANGED <<treeQuery, unseen>>
    /\ UNCHANGED <<docs, treeNotices, treeView, changes>>

\* An answer is lost: withRetry calls again, a creation then in vain.
JobRepeated(j) ==
    /\ j \in jobs /\ j.stage = "done" /\ Change
    /\ jobs' = (jobs \ {j}) \cup {[j EXCEPT !.stage = "sent"]}
    /\ UNCHANGED <<docs, treeQuery, treeNotices, treeView, selectedPaths, operating, dialog,
                   unseen>>

\* All attempts fail, whether handled or not.
JobFails(j) ==
    /\ j \in jobs /\ Change
    /\ jobs' = jobs \ {j}
    /\ operating' = (operating /\ j.op \in {"create", "reindex"})
    /\ dialog' = IF j.op = "reindex" /\ dialog = "reindexing" THEN "reindexed" ELSE dialog
    /\ unseen' = TRUE
    /\ UNCHANGED <<docs, treeQuery, treeNotices, treeView, selectedPaths>>

-------------------------------------------------------------------------------
\* Others create or delete a document, which is announced, or delete one in bulk.
OthersChange(path) ==
    /\ Change
    /\ docs' = IF path \in docs THEN docs \ {path} ELSE docs \cup {path}
    /\ \/ treeNotices' = treeNotices + 1 /\ UNCHANGED unseen
       \/ path \in docs /\ unseen' = TRUE /\ UNCHANGED treeNotices
    /\ UNCHANGED <<treeQuery, treeView, treeWork>>

TreeKeys == {"ArrowDown", "ArrowUp", "ArrowRight", "ArrowLeft", "Enter", "Home", "End"}

\* The query, what others do, and opening directories ...
BrowseNext ==
    \/ ReadTree \/ TreeArrives \/ TreeFails \/ TreeNotified \/ NoticeLost
    \/ \E dir \in Dirs : ClickDirectory(dir)
    \/ \E path \in Docs : OthersChange(path)

\* ... looking for something ...
KeyNext ==
    \/ \E query \in Queries \cup {NoQuery} : Search(query)
    \/ \E key \in TreeKeys : Key(key)

\* ... and changing the documents.
BulkNext ==
    \/ \E path \in Docs : Check(path)
    \/ ClearSelection
    \/ \E kind \in {"create", "delete", "move", "reindex"} : OpenTreeDialog(kind)
    \/ CloseTreeDialog
    \/ \E name \in Names : SubmitCreate(name)
    \/ \E into \in Dirs \cup {Root} : SubmitBulk(into)
    \/ SubmitBulkReindex \/ SubmitReindex
    \/ \E j \in jobs : HandleJob(j) \/ JobAnswered(j) \/ JobRepeated(j) \/ JobFails(j)

TreeNext == BrowseNext \/ KeyNext \/ BulkNext

TreeSpec == TreeInit /\ [][TreeNext]_treeVars

-------------------------------------------------------------------------------
\* The order of the screen: an ancestor before what it holds, directories before
\* documents, then by name.
Before(a, b) ==
    LET shared == {i \in 0..Len(a) : IsPrefix(SubSeq(a, 1, i), b)}
        k == CHOOSE i \in shared : \A j \in shared : j <= i
        isDir(p) == SubSeq(p, 1, k + 1) \in Dirs
    IN \/ k = Len(a)
       \/ /\ k < Len(b)
          /\ IF isDir(a) = isDir(b) THEN a[k + 1] < b[k + 1] ELSE isDir(a)

\* With nothing under way the screen shows, in order and once each, the server's
\* documents that match the search and lie in directories that are all expanded,
\* with those directories: after every creation, move and deletion, also one of
\* somebody else, unless a call failed or nobody announced the change.
TreeShowsDocuments ==
    LET visible(n) ==
          /\ \A i \in 1..(Len(n) - 1) : SubSeq(n, 1, i) \in expandedPaths
          /\ \/ searchQuery = NoQuery
             \/ \E d \in docs : Last(d) \in searchQuery /\ (d = n \/ (n \in Dirs /\ IsPrefix(n, d)))
    IN (treeLoaded /\ treeFetch = "idle" /\ treeNotices = 0 /\ jobs = {} /\ ~unseen) =>
         /\ OnScreen = {n \in Dirs \cup docs : visible(n)}
         /\ LET nodes == flatNodes
            IN \A i, j \in DOMAIN nodes : i < j => Before(nodes[i], nodes[j])
===============================================================================
