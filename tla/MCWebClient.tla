------------------------------ MODULE MCWebClient ------------------------------
(***************************************************************************)
(* The web client in one tab of the browser.  React Router shows one page  *)
(* at a time and a page's components keep their state to themselves; what  *)
(* they share is the access token, whose absence stops every one of them   *)
(* the same way, and the server.  A behaviour therefore exercises one      *)
(* part, chosen at first, and the rest of the tab stands still.            *)
(***************************************************************************)
EXTENDS WebSession, ChatPage, DocumentClient, DocumentTree, GatewayTables, SessionDrawer,
        RuleEditor, CronForm, SessionGraph, ClientPanels

VARIABLE part            \* the part of the client that is exercised

Parts == {"session", "chat", "document", "keys", "bulk", "tables", "drawer", "rules", "cron",
          "graph", "viewer", "dashboard", "rating", "palette", "toasts"}

\* The documents: one in a directory of a directory; its name comes before those of
\* the directories.
TreeDirs == {<<2>>, <<2, 2>>}
TreeDocs == {<<2, 2, 1>>}
TreeQueries == {{}, {1}}

\* A part that stands still does so in one of its initial states.
ClientInit ==
    /\ part \in Parts
    /\ SessionInit /\ (part = "session" \/ (route = "home" /\ cookie = NoToken))
    /\ ChatInit /\ (part = "chat" \/ ~streaming)
    /\ DocumentInit
    /\ TreeInit
    /\ TablesInit /\ (part = "tables" \/ rows = NoRows)
    /\ DrawerInit /\ (part = "drawer" \/ sessionLog = [s \in Sessions |-> MaxLog])
    /\ RuleInit
    /\ CronInit
    /\ GraphInit
    /\ ViewerInit /\ (part = "viewer" \/ viewer = "order")
    /\ DashboardInit /\ RatingInit /\ PaletteInit /\ ToastInit

ClientNext ==
    /\ UNCHANGED part
    /\ part # "session" => UNCHANGED sessionVars
    /\ part # "chat" => UNCHANGED chatVars
    /\ part # "document" => UNCHANGED docVars
    /\ part \notin {"keys", "bulk"} => UNCHANGED treeVars
    /\ part # "tables" => UNCHANGED tableVars
    /\ part # "drawer" => UNCHANGED drawerVars
    /\ part # "rules" => UNCHANGED ruleVars
    /\ part # "cron" => UNCHANGED cronVars
    /\ part # "graph" => UNCHANGED graphVars
    /\ part # "viewer" => UNCHANGED viewerVars
    /\ part # "dashboard" => UNCHANGED dashboardVars
    /\ part # "rating" => UNCHANGED ratingVars
    /\ part # "palette" => UNCHANGED paletteVars
    /\ part # "toasts" => UNCHANGED toastVars
    /\ \/ part = "session" /\ SessionNext
       \/ part = "chat" /\ ChatNext
       \/ part = "document" /\ DocumentNext
       \/ part \in {"keys", "bulk"} /\ BrowseNext
       \/ part = "keys" /\ KeyNext
       \/ part = "bulk" /\ BulkNext
       \/ part = "tables" /\ TablesNext
       \/ part = "drawer" /\ DrawerNext
       \/ part = "rules" /\ RuleNext
       \/ part = "cron" /\ CronNext
       \/ part = "graph" /\ GraphNext
       \/ part = "viewer" /\ ViewerNext
       \/ part = "dashboard" /\ DashboardNext
       \/ part = "rating" /\ RatingNext
       \/ part = "palette" /\ PaletteNext
       \/ part = "toasts" /\ ToastNext

clientVars == <<sessionVars, chatVars, docVars, treeVars, tableVars, drawerVars, ruleVars,
                cronVars, graphVars, panelVars, part>>

ClientSpec == ClientInit /\ [][ClientNext]_clientVars

\* The variables of the part that is exercised have their types.
ClientTypeOK ==
    /\ part = "session" => SessionTypeOK
    /\ part = "chat" => ChatTypeOK
    /\ part = "document" => DocumentTypeOK
    /\ part \in {"keys", "bulk"} => TreeTypeOK
    /\ part = "tables" => TablesTypeOK
    /\ part = "drawer" => DrawerTypeOK
    /\ part = "rules" => RuleTypeOK
    /\ part = "cron" => CronTypeOK
    /\ part = "graph" => GraphTypeOK
    /\ part \in {"viewer", "dashboard", "rating", "palette", "toasts"} => PanelsTypeOK
===============================================================================
