------------------------- MODULE WorkspacesConsole -------------------------
(***************************************************************************)
(* The list of workspaces, by pages, and the screen of one workspace with  *)
(* its five tabs.  One dialog at a time is open over either.               *)
(***************************************************************************)
EXTENDS LibraryConsole

NoList == <<<<0, 0>>>>   \* null: nothing has been loaded

-----------------------------------------------------------------------------
(* The list.                                                               *)

ListScreen ==
  [at |-> "list", loading |-> TRUE, failed |-> FALSE, rows |-> <<>>, total |-> 0, page |-> 1,
   dialog |-> Closed, busy |-> {}]

ListWorkspaces(p) == Call("listWorkspaces", Workspaces, p, 0, {"screen"}, 0)
OpenList == Navigate(ListScreen, <<ListWorkspaces(1)>>)

Pages(total) == IF total = 0 THEN 1 ELSE (total + PageSize - 1) \div PageSize

(* load.  Each render of the list gives the dialog that creates a          *)
(* workspace a new onClose, whose effect clears its form.                  *)
Reloading(screen) ==
  [screen EXCEPT !.loading = TRUE, !.failed = FALSE, !.rows = <<>>, !.total = 0, !.busy = {}]
LoadLatest(f, p) == Send(Supersede(f, {"listWorkspaces"}), ListWorkspaces(p))
LoadPage(screen, f, p) == Client(Reloading(screen), LoadLatest(f, p))

(* Mutant of PageLoaded: whichever load answers last is shown. *)
PageLoadedAnyhow(i) ==
  /\ Answered(i, {"listWorkspaces"})
  /\ Awaits(i, "screen")
  /\ IF Got(i)
       THEN IF ui.page > Pages(Result(i).total)
              THEN LoadPage([ui EXCEPT !.page = Pages(Result(i).total)], Done(i), Pages(Result(i).total))
              ELSE Client([ui EXCEPT !.rows = Result(i).rows, !.total = Result(i).total,
                                     !.loading = FALSE, !.busy = {}], Done(i))
       ELSE Client([ui EXCEPT !.loading = FALSE, !.failed = TRUE, !.busy = {}], Done(i))

(* An answer for a page beyond the last one leads to the last one. *)
PageLoaded(i) ==
  /\ Answered(i, {"listWorkspaces"})
  /\ Awaits(i, "screen")
  /\ CASE ~flight[i].latest -> Client(ui, Done(i))
       [] flight[i].latest /\ Got(i) ->
            LET last == Pages(Result(i).total)
            IN IF ui.page > last
                 THEN LoadPage([ui EXCEPT !.page = last], Done(i), last)
                 ELSE Client([ui EXCEPT !.rows = Result(i).rows, !.total = Result(i).total,
                                        !.loading = FALSE, !.busy = {}], Done(i))
       [] OTHER -> Client([ui EXCEPT !.loading = FALSE, !.failed = TRUE, !.busy = {}], Done(i))

PickPage(p) ==
  /\ ui.at = "list"
  /\ ui.dialog = Closed
  /\ p \in 1 .. Pages(ui.total)
  /\ p # ui.page
  /\ Room(1)
  /\ LoadPage([ui EXCEPT !.page = p], flight, p)

RetryList ==
  /\ ui.at = "list"
  /\ ui.failed
  /\ Room(1)
  /\ LoadPage(ui, flight, ui.page)

ToggleCreate ==
  /\ ui.at = "list"
  /\ Client([ui EXCEPT !.dialog = IF @ = Closed THEN Dialog("create", 0) ELSE Closed, !.busy = {}], flight)

(* create captures the page and the total of when it was pressed. *)
CreateWorkspace ==
  /\ ui.at = "list"
  /\ ui.dialog # Closed
  /\ ui.busy = {}
  /\ Click([ui EXCEPT !.busy = {"create"}],
           Call("createWorkspace", Workspaces, 0, Fresh, {"screen"}, [page |-> ui.page, total |-> ui.total]))

(* setPage(last) to a page that the listing shown has not yet is rendered  *)
(* over that listing: both effects run, the one loads the page, the other  *)
(* sets the last page of the listing, which is loaded next.  The first of  *)
(* the two loads is never shown; only its 401 can matter.                  *)
Snaps(last) == ~ui.loading /\ ~ui.failed /\ last > Pages(ui.total)
SnapBack(screen, f, p) ==
  /\ ui' = Reloading(screen)
  /\ flight' = LoadLatest(f, p)
  /\ strays' = strays \cup Straying({token})
  /\ UNCHANGED <<serverVars, token, refused, countVars>>

(* handleCreated: setPage to the page that is shown already loads nothing, *)
(* and the page of a row that begins one is not the one that is shown.     *)
WorkspaceCreated(i) ==
  /\ Answered(i, {"createWorkspace"})
  /\ LET m == flight[i].memo
         last == Pages(m.total + 1)
         screen == [ui EXCEPT !.dialog = Closed, !.busy = {}]
     IN CASE ~Awaits(i, "screen") -> Client(ui, Done(i))
          [] Awaits(i, "screen") /\ ~Got(i) -> Client([ui EXCEPT !.busy = {}], Done(i))
          [] Awaits(i, "screen") /\ Got(i) /\ last = m.page -> LoadPage(screen, Done(i), m.page)
          [] OTHER -> CASE last = ui.page -> Client(screen, Done(i))
                        [] last # ui.page /\ Snaps(last) ->
                             LET back == Pages(ui.total) IN SnapBack([screen EXCEPT !.page = back], Done(i), back)
                        [] OTHER -> LoadPage([screen EXCEPT !.page = last], Done(i), last)

ListStep ==
  \/ OpenList \/ RetryList \/ ToggleCreate \/ CreateWorkspace
  \/ \E p \in 1 .. Pages(Cardinality(RowOf(Workspaces))) : PickPage(p)
  \/ \E i \in DOMAIN flight : PageLoaded(i) \/ WorkspaceCreated(i)

-----------------------------------------------------------------------------
(* One workspace.  id is that of the route, rows what getWorkspace gave.   *)

Tabs == {"members", "templates", "providers", "guardrails", "settings"}

DetailScreen(w) ==
  [at |-> "detail", id |-> w, loading |-> TRUE, failed |-> FALSE, gone |-> FALSE, rows |-> <<>>,
   roster |-> NoList, rosterFailed |-> FALSE, tab |-> "members", panel |-> NoList,
   panelFailed |-> FALSE, dialog |-> Closed, pool |-> NoList, busy |-> {}, busyId |-> 0]

GetWorkspace(w) == Call("getWorkspace", Workspaces, w, 0, {"screen"}, 0)
ListMembers(w, memo) == Call("listMembers", T("members", w), 0, 0, {"screen", "tab"}, memo)
OpenWorkspace(w) == Navigate(DetailScreen(w), <<GetWorkspace(w), ListMembers(w, "load")>>)

Settled == ui.at = "detail" /\ ~ui.loading /\ ~ui.failed /\ ~ui.gone
Shown == ui.rows[1][1]

(* load and loadMembers. *)
LoadWorkspace(f, w) == Send(Supersede(f, {"getWorkspace"}), GetWorkspace(w))

(* Mutant of LoadMembers: one sequence counter for both loads. *)
LoadMembersOneSeq(f, w, memo) == Send(Supersede(f, {"getWorkspace", "listMembers"}), ListMembers(w, memo))

LoadMembers(f, w, memo) == Send(Supersede(f, {"listMembers"}), ListMembers(w, memo))

(* Without its tab a dialog goes, but for that of the screen: addingMember. *)
Left(dialog) == IF dialog.kind = "addMember" THEN dialog ELSE Closed

(* Another workspace without leaving the screen, by the browser's history. *)
Jump(w) ==
  /\ ui.at = "detail"
  /\ w # ui.id
  /\ moves < MaxMoves
  /\ moves' = moves + 1
  /\ LET f == Unmount(flight, {"tab", "dialog"})
     IN /\ Cardinality(FreeSlots(f)) >= 2
        /\ ui' = [DetailScreen(w) EXCEPT !.tab = ui.tab, !.dialog = Left(ui.dialog)]
        /\ flight' = LoadMembers(LoadWorkspace(f, w), w, "load")
        /\ strays' = strays \cup Strayed(flight, {"tab", "dialog"})
  /\ UNCHANGED <<serverVars, token, refused, writes, faults, sessions>>

RetryWorkspace ==
  /\ ui.at = "detail"
  /\ ui.failed
  /\ Room(1)
  /\ Client([ui EXCEPT !.loading = TRUE, !.failed = FALSE, !.gone = FALSE], LoadWorkspace(flight, ui.id))

RetryMembers ==
  /\ Settled
  /\ ui.tab = "members"
  /\ ui.rosterFailed
  /\ Room(1)
  /\ Client([ui EXCEPT !.rosterFailed = FALSE], LoadMembers(flight, ui.id, "load"))

PanelFns == {"listAttachedTemplates", "listWorkspaceProviders", "getGuardrailPolicy"}

(* What a tab loads when it is mounted, or its workspace changes. *)
PanelLoads(tab, w) ==
  CASE tab = "templates" -> <<Load("listAttachedTemplates", T("templates", w), {"tab"})>>
    [] tab = "providers" -> <<Load("listWorkspaceProviders", T("switches", w), {"tab"})>>
    [] tab = "guardrails" -> <<Load("getGuardrailPolicy", T("policy", w), {"tab"})>>
    [] OTHER -> <<>>
PoolLoads(dialog, w) ==
  CASE dialog.kind = "addMember" -> <<Load("listMemberCandidates", T("members", w), {"dialog"})>>
    [] dialog.kind = "addTemplate" -> <<Load("listTemplateLibrary", Library, {"dialog"})>>
    [] OTHER -> <<>>

(* setState ready: the tab is mounted, with a dialog that was left open, or*)
(* gets another workspace and loads again.                                 *)
ShowWorkspace(screen, x, f) ==
  IF Settled /\ Shown = x[1]
    THEN Client([screen EXCEPT !.rows = <<x>>], f)
    ELSE LET old == {i \in DOMAIN f : f[i].fn \in PanelFns \cup {"listMemberCandidates"}}
             g == [i \in DOMAIN f |-> IF i \in old THEN Idle ELSE f[i]]
             loads == PanelLoads(ui.tab, x[1]) \o PoolLoads(ui.dialog, x[1])
         IN /\ Cardinality(FreeSlots(g)) >= Len(loads)
            /\ ui' = [screen EXCEPT !.rows = <<x>>, !.loading = FALSE, !.failed = FALSE, !.gone = FALSE,
                        !.panelFailed = FALSE, !.pool = IF Settled THEN @ ELSE NoList,
                        !.panel = IF Settled /\ ui.tab # "guardrails" THEN @ ELSE NoList]
            /\ flight' = SendAll(g, loads)
            /\ strays' = strays \cup Straying({f[i].token : i \in old})
            /\ UNCHANGED <<serverVars, token, refused, countVars>>

(* Nothing is shown but that there is nothing: the tab is unmounted. *)
Emptied ==
  [ui EXCEPT !.panel = NoList, !.panelFailed = FALSE, !.dialog = Left(@), !.pool = NoList,
             !.busy = {}, !.busyId = 0]

GotWorkspace(i) ==
  /\ Answered(i, {"getWorkspace"})
  /\ Awaits(i, "screen")
  /\ CASE ~flight[i].latest -> Client(ui, Done(i))
       [] flight[i].latest /\ Got(i) -> ShowWorkspace(ui, Result(i)[1], Done(i))
       [] OTHER ->
            /\ ui' = [Emptied EXCEPT !.loading = FALSE, !.gone = flight[i].reply = NotFound,
                                     !.failed = flight[i].reply # NotFound]
            /\ flight' = Unmount(Done(i), {"tab", "dialog"})
            /\ strays' = strays \cup Strayed(Done(i), {"tab", "dialog"})
            /\ UNCHANGED <<serverVars, token, refused, countVars>>

(* Mutant of MembersLoaded: any answer is shown. *)
MembersLoadedAnyhow(i) ==
  /\ Answered(i, {"listMembers"})
  /\ Awaits(i, "screen")
  /\ Client(IF Got(i) THEN [ui EXCEPT !.roster = Result(i)] ELSE [ui EXCEPT !.rosterFailed = TRUE], Done(i))

(* The load that saveRoles waits for then closes the popover. *)
MembersLoaded(i) ==
  /\ Answered(i, {"listMembers"})
  /\ Awaits(i, "screen")
  /\ LET screen == CASE ~flight[i].latest -> ui
                     [] flight[i].latest /\ Got(i) -> [ui EXCEPT !.roster = Result(i)]
                     [] OTHER -> [ui EXCEPT !.rosterFailed = TRUE]
         closes == flight[i].memo = "roles" /\ Awaits(i, "tab") /\ ui.dialog.kind = "roles"
     IN Client(IF closes THEN [screen EXCEPT !.dialog = Closed, !.busy = @ \ {"roles"}] ELSE screen,
               Unmount(Done(i), IF closes THEN {"dialog"} ELSE {}))

PickTab(tab) ==
  /\ Settled
  /\ ui.dialog = Closed
  /\ tab # ui.tab
  /\ Patient => \A i \in DOMAIN flight : flight[i].fn # "listMembers"
  /\ LET f == Unmount(flight, {"tab"})
         loads == PanelLoads(tab, Shown)
     IN /\ Cardinality(FreeSlots(f)) >= Len(loads)
        /\ ui' = [ui EXCEPT !.tab = tab, !.panel = NoList, !.panelFailed = FALSE, !.busy = {}, !.busyId = 0]
        /\ flight' = SendAll(f, loads)
        /\ strays' = strays \cup Strayed(flight, {"tab"})
        /\ UNCHANGED <<serverVars, token, refused, countVars>>

PanelLoaded(i) ==
  /\ Answered(i, PanelFns)
  /\ Client(IF Got(i) THEN [ui EXCEPT !.panel = Result(i)] ELSE [ui EXCEPT !.panelFailed = TRUE], Done(i))

RetryPanel ==
  /\ Settled
  /\ ui.panelFailed
  /\ Room(1)
  /\ Client([ui EXCEPT !.panelFailed = FALSE, !.panel = IF ui.tab = "guardrails" THEN NoList ELSE @],
            SendAll(flight, PanelLoads(ui.tab, Shown)))

OpenDetailDialog(kind, row) ==
  /\ Settled
  /\ ui.dialog = Closed
  /\ CASE kind = "addMember" -> row = 0 /\ ui.tab \in AddOver
       [] kind = "roles" -> ui.tab = "members" /\ ~ui.rosterFailed /\ ui.roster # NoList /\ row \in RowsOf(ui.roster)
       [] kind = "addTemplate" -> ui.tab = "templates" /\ ~ui.panelFailed /\ ui.panel # NoList /\ row = 0
       [] OTHER -> kind = "deleteWorkspace" /\ ui.tab = "settings" /\ row = 0
  /\ Room(Len(PoolLoads(Dialog(kind, row), Shown)))
  /\ Client([ui EXCEPT !.dialog = Dialog(kind, row), !.pool = NoList],
            SendAll(flight, PoolLoads(Dialog(kind, row), Shown)))

PoolLoaded(i) ==
  /\ Answered(i, {"listMemberCandidates", "listTemplateLibrary"})
  /\ Awaits(i, "dialog")
  /\ Client([ui EXCEPT !.pool = IF Got(i) THEN Result(i) ELSE <<>>], Done(i))

(* The dialog that deletes a workspace stays while it is at work. *)
Dialogs == {"roles", "addMember", "addTemplate"}
CloseDetailDialog ==
  /\ Settled
  /\ ui.dialog # Closed
  /\ "delete" \notin ui.busy
  /\ ui' = [ui EXCEPT !.dialog = Closed, !.pool = NoList, !.busy = @ \ Dialogs,
                      !.busyId = IF ui.dialog.kind = "addTemplate" THEN 0 ELSE @]
  /\ flight' = Unmount(flight, {"dialog"})
  /\ strays' = strays \cup Strayed(flight, {"dialog"})
  /\ UNCHANGED <<serverVars, token, refused, countVars>>

-----------------------------------------------------------------------------
(* Writes of the tabs.  saveRoles and onAdded load the members with the    *)
(* id of the route when they were rendered.                                *)

SaveRoles ==
  /\ Settled
  /\ ui.dialog.kind = "roles"
  /\ "roles" \notin ui.busy
  /\ Click([ui EXCEPT !.busy = @ \cup {"roles"}],
           Call("replaceMemberRoles", T("members", Shown), ui.dialog.row, Fresh, {"screen", "tab", "dialog"}, ui.id))

AddMember(row) ==
  /\ Settled
  /\ ui.dialog.kind = "addMember"
  /\ ui.pool # NoList
  /\ row \in RowsOf(ui.pool)
  /\ "addMember" \notin ui.busy
  /\ Click([ui EXCEPT !.busy = @ \cup {"addMember"}],
           Call("addMember", T("members", Shown), row, Fresh, {"screen", "dialog"}, ui.id))

MemberSaved(i) ==
  /\ Answered(i, {"replaceMemberRoles", "addMember"})
  /\ LET label == IF flight[i].fn = "addMember" THEN "addMember" ELSE "roles"
         added == flight[i].fn = "addMember" /\ ui.dialog.kind = "addMember"
     IN CASE ~Awaits(i, "screen") -> Unheeded(i)
          [] Awaits(i, "screen") /\ ~Got(i) ->
               Client(IF Awaits(i, "dialog") THEN [ui EXCEPT !.busy = @ \ {label}] ELSE ui, Done(i))
          [] OTHER ->
               Client([ui EXCEPT !.rosterFailed = FALSE,
                         !.dialog = IF added THEN Closed ELSE @, !.pool = IF added THEN NoList ELSE @,
                         !.busy = IF added THEN @ \ {label} ELSE @],
                      LoadMembers(Unmount(Done(i), IF added THEN {"dialog"} ELSE {}), flight[i].memo,
                                  IF label = "roles" /\ Awaits(i, "tab") THEN "roles" ELSE "load"))

(* Templates: attached after the answer, detached before it. *)
AttachTemplate(x) ==
  /\ Settled
  /\ ui.dialog.kind = "addTemplate"
  /\ ui.pool # NoList
  /\ x \in ToSet(ui.pool)
  /\ x[1] \notin RowsOf(ui.panel)
  /\ x[1] # ui.busyId
  /\ Click([ui EXCEPT !.busyId = x[1]],
           Call("attachTemplate", T("templates", Shown), x[1], 1, {"tab", "dialog"}, x))

DetachTemplate(row) ==
  /\ Settled
  /\ ui.tab = "templates" /\ ui.dialog = Closed
  /\ ~ui.panelFailed /\ ui.panel # NoList
  /\ row \in RowsOf(ui.panel)
  /\ Click([ui EXCEPT !.panel = Drop(@, row)],
           Call("detachTemplate", T("templates", Shown), row, 0, {"tab"}, ui.panel))

(* Mutant of TemplateMoved: a failed detach is not undone. *)
TemplateMovedKeeps(i) ==
  /\ Answered(i, {"attachTemplate", "detachTemplate"})
  /\ LET screen == IF Awaits(i, "tab") /\ flight[i].fn = "attachTemplate" /\ Got(i)
                     THEN [ui EXCEPT !.panel = Append(@, flight[i].memo)] ELSE ui
     IN Client(IF Awaits(i, "dialog") THEN [screen EXCEPT !.busyId = 0] ELSE screen, Done(i))

TemplateMoved(i) ==
  /\ Answered(i, {"attachTemplate", "detachTemplate"})
  /\ LET attached == flight[i].fn = "attachTemplate"
         screen == CASE Awaits(i, "tab") /\ attached /\ Got(i) -> [ui EXCEPT !.panel = Append(@, flight[i].memo)]
                     [] Awaits(i, "tab") /\ ~attached /\ ~Got(i) -> [ui EXCEPT !.panel = flight[i].memo]
                     [] OTHER -> ui
     IN Client(IF attached /\ Awaits(i, "dialog") THEN [screen EXCEPT !.busyId = 0]
                                                  ELSE screen, Done(i))

(* Providers: a switch is thrown before the answer and back on a failure;  *)
(* only the last one thrown is disabled meanwhile.                         *)
Switch(rows, row, value) == [n \in DOMAIN rows |-> IF rows[n][1] = row THEN <<row, value>> ELSE rows[n]]
Toggle(x) ==
  /\ Settled
  /\ ui.tab = "providers" /\ ui.dialog = Closed
  /\ ~ui.panelFailed /\ ui.panel # NoList
  /\ x \in ToSet(ui.panel)
  /\ x[1] # ui.busyId
  /\ Click([ui EXCEPT !.panel = Switch(@, x[1], 3 - x[2]), !.busyId = x[1]],
           Call("setProviderEnabled", T("switches", Shown), x[1], 3 - x[2], {"tab"}, x))

Toggled(i) ==
  /\ Answered(i, {"setProviderEnabled"})
  /\ Client(CASE ~Awaits(i, "tab") -> ui
              [] Awaits(i, "tab") /\ Got(i) -> [ui EXCEPT !.busyId = 0]
              [] OTHER -> [ui EXCEPT !.panel = Switch(@, flight[i].row, flight[i].memo[2]), !.busyId = 0], Done(i))

(* Guardrails: the answer is shown, a failure hides the form. *)
SavePolicy ==
  /\ Settled
  /\ ui.tab = "guardrails" /\ ui.dialog = Closed
  /\ ~ui.panelFailed /\ ui.panel # NoList
  /\ ui.busy = {}
  /\ Click([ui EXCEPT !.busy = {"policy"}],
           Call("saveGuardrailPolicy", T("policy", Shown), 1, Fresh, {"tab"}, 0))

PolicySaved(i) ==
  /\ Answered(i, {"saveGuardrailPolicy"})
  /\ Client(CASE ~Awaits(i, "tab") -> ui
              [] Awaits(i, "tab") /\ Got(i) -> [ui EXCEPT !.panel = <<Result(i)>>, !.busy = @ \ {"policy"}]
              [] OTHER -> [ui EXCEPT !.panelFailed = TRUE, !.busy = @ \ {"policy"}], Done(i))

(* Settings: onUpdated and onDeleted are the screen's. *)
Rename ==
  /\ Settled
  /\ ui.tab = "settings" /\ ui.dialog = Closed
  /\ "rename" \notin ui.busy
  /\ Click([ui EXCEPT !.busy = @ \cup {"rename"}],
           Call("updateWorkspace", Workspaces, Shown, Fresh, {"screen", "tab"}, 0))

Renamed(i) ==
  /\ Answered(i, {"updateWorkspace"})
  /\ LET screen == IF Awaits(i, "tab") THEN [ui EXCEPT !.busy = @ \ {"rename"}] ELSE ui
     IN IF Awaits(i, "screen") /\ Got(i) THEN ShowWorkspace(screen, Result(i), Done(i))
                                         ELSE Client(screen, Done(i))

DeleteWorkspace ==
  /\ Settled
  /\ ui.dialog.kind = "deleteWorkspace"
  /\ "delete" \notin ui.busy
  /\ Click([ui EXCEPT !.busy = @ \cup {"delete"}],
           Call("deleteWorkspace", Workspaces, Shown, 0, {"screen", "tab"}, 0))

(* navigate("/workspaces") leads away from wherever the user is by then. *)
WorkspaceDeleted(i) ==
  /\ Answered(i, {"deleteWorkspace"})
  /\ IF Got(i) /\ token # 0 /\ ui.at # "list"
       THEN /\ Mount(ListScreen, Done(i), <<ListWorkspaces(1)>>)
            /\ UNCHANGED <<serverVars, token, refused, countVars>>
       ELSE Client(IF Awaits(i, "tab") /\ ~Got(i) THEN [ui EXCEPT !.dialog = Closed, !.busy = @ \ {"delete"}]
                                                  ELSE ui, Done(i))

DetailStep ==
  \/ \E w \in AtFirst["workspaces"] : OpenWorkspace(w) \/ Jump(w)
  \/ RetryWorkspace \/ RetryMembers \/ RetryPanel \/ CloseDetailDialog
  \/ \E tab \in Tabs : PickTab(tab)
  \/ \E kind \in Dialogs \cup {"deleteWorkspace"}, row \in Id["members"] \cup {0} : OpenDetailDialog(kind, row)
  \/ SaveRoles \/ SavePolicy \/ Rename \/ DeleteWorkspace
  \/ \E row \in Id["members"] : AddMember(row)
  \/ \E row \in Id["templates"] : DetachTemplate(row)
  \/ Settled /\ ui.pool # NoList /\ \E x \in ToSet(ui.pool) : AttachTemplate(x)
  \/ Settled /\ ui.panel # NoList /\ \E x \in ToSet(ui.panel) : Toggle(x)
  \/ \E i \in DOMAIN flight :
       \/ GotWorkspace(i) \/ MembersLoaded(i) \/ PanelLoaded(i) \/ PoolLoaded(i) \/ MemberSaved(i)
       \/ TemplateMoved(i) \/ Toggled(i) \/ PolicySaved(i) \/ Renamed(i) \/ WorkspaceDeleted(i)
=============================================================================
