----------------------------- MODULE WebConsole -----------------------------
(***************************************************************************)
(* The administration screens of llm-ui for one signed-in administrator,   *)
(* against the server.  The screens show what they load and patch it       *)
(* themselves after their writes; every one has its own way to keep old    *)
(* answers out, and its own cases in which it fails to.                    *)
(***************************************************************************)
EXTENDS WorkspacesConsole

VARIABLE excused  \* history: the cases below that the mounted screen has met

vars == <<serverVars, token, flight, strays, ui, refused, countVars, excused>>

InFlight == {i \in DOMAIN flight : flight[i] # Idle}
WritesInFlight == {i \in InFlight : Writing(flight[i])}
Of(fns) == {i \in InFlight : flight[i].fn \in fns}
OneRow(i, j) == flight[i].row # 0 /\ flight[i].table = flight[j].table /\ flight[i].row = flight[j].row

TabWrites == {"attachTemplate", "detachTemplate", "setProviderEnabled", "saveGuardrailPolicy"}
Heeded(i) == Awaits(i, IF flight[i].fn \in TabWrites THEN "tab" ELSE "screen")

(* Where a screen may end up showing what is not so:                       *)
(*  lost        a write took effect and its answer was lost;               *)
(*  halfSaved   rotate-key fails after its PATCH, and no refetch follows;  *)
(*  overtaken   a write whose component has gone is served after the loads *)
(*              of the one that has come;                                  *)
(*  crossed     two writes of one row at a time;                           *)
(*  overlapped  two refetches of the providers at a time;                  *)
(*  early       a template is written while the library is loading;        *)
(*  moved       another page was picked while a workspace was created;     *)
(*  undone      a failed detach undoes the other changes of its tab;       *)
(*  straddled   a write for one workspace under the route of another.      *)
Cases ==
  [lost |-> \E i \in WritesInFlight : flight[i].reply = Lost,
   halfSaved |-> \E i \in Of({"rotateProviderKey"}) : flight[i].reply \in {Error, Lost},
   overtaken |-> \E i \in WritesInFlight : ~Heeded(i),
   crossed |-> \E i, j \in WritesInFlight : i # j /\ OneRow(i, j),
   overlapped |-> Cardinality(Of({"listProviders"})) > 1,
   early |-> ui.at = "library" /\ ui.loading /\ Of(LibraryWrites) # {},
   moved |-> ui.at = "list" /\ \E i \in Of({"createWorkspace"}) : flight[i].memo.page # ui.page,
   undone |-> \E i, j \in Of({"attachTemplate", "detachTemplate"}) : i # j /\ flight[i].fn = "detachTemplate",
   straddled |-> ui.at = "detail" /\
     \E i \in Of({"replaceMemberRoles", "addMember", "listMembers", "updateWorkspace"}) :
       ui.id # IF flight[i].fn = "updateWorkspace" THEN flight[i].row ELSE flight[i].table[2]]

Met == LET c == Cases IN {x \in DOMAIN c : c[x]}

Init == CallsInit /\ excused = {}

Step ==
  \/ \E i \in DOMAIN flight : Serve(i) \/ Unauthorised(i) \/ LoggedIn(i)
  \/ \E s \in strays : StrayUnauthorised(s)
  \/ Expire \/ SubmitLogin
  \/ ProvidersStep \/ LibraryStep \/ ListStep \/ DetailStep

Next ==
  /\ Step
  /\ excused' = (IF ui'.at # ui.at THEN {} ELSE excused) \cup Met'

Spec == Init /\ [][Next]_vars

-----------------------------------------------------------------------------
Quiet == InFlight = {}

(* One listing has the rows of another, in whatever order, and none twice. *)
SameRows(shown, there) == Len(shown) = Len(there) /\ ToSet(shown) = ToSet(there)

PanelTable == [templates |-> "templates", providers |-> "switches", guardrails |-> "policy"]
TruePanel ==
  ui.tab \in DOMAIN PanelTable =>
    SameRows(ui.panel, Listing(T(PanelTable[ui.tab], Shown)))

(* Once every answer is in, the screen shows what the server has, unless   *)
(* it says that it could not load it or has met one of the cases: neither  *)
(* the refetch after a mutation (providers-screen.tsx), the patches of the *)
(* other screens, their sequence counters, nor the changes made before the *)
(* answer and taken back on a failure leave a row too many, too few or     *)
(* old, in whatever order the server takes and answers the requests.       *)
ShownIsTrue ==
  Quiet /\ excused = {} =>
    CASE ui.at = "providers" -> ~ui.failed => SameRows(ui.rows, Listing(Providers))
      [] ui.at = "library" -> Ready => SameRows(ui.rows, Listing(Library))
      [] ui.at = "list" -> Ready => ui.rows = PageOf(ui.page).rows /\ ui.total = PageOf(ui.page).total
      [] ui.at = "detail" ->
           /\ ui.gone => Gone(T("members", ui.id))
           /\ Settled => ui.rows = <<<<ui.id, db[Workspaces][ui.id]>>>>
           /\ Settled /\ ~ui.rosterFailed => SameRows(ui.roster, Listing(T("members", ui.id)))
           /\ Settled /\ ~ui.panelFailed => TruePanel
      [] OTHER -> TRUE

Waiting ==
  CASE ui.at = "providers" -> ui.loading \/ ui.busy # {} \/ ui.checking
    [] ui.at = "library" -> ui.loading \/ ui.busy # {}
    [] ui.at = "list" -> ui.loading \/ ui.busy # {}
    [] ui.at = "detail" ->
         \/ ui.loading
         \/ Settled /\ \/ ui.busy # {} \/ ui.busyId # 0
                       \/ ui.roster = NoList /\ ~ui.rosterFailed
                       \/ ui.tab \in DOMAIN PanelTable /\ ui.panel = NoList /\ ~ui.panelFailed
                       \/ PoolLoads(ui.dialog, Shown) # <<>> /\ ui.pool = NoList
    [] OTHER -> ui.at = "login" /\ ui.busy # {}

(* No screen waits for an answer that nobody will give: with no request in *)
(* flight there is no spinner, no button "Saving" and no dialog that does  *)
(* not close, whatever was superseded, unmounted or failed; and no session *)
(* stays in use of which a 401 has been read (http-client.ts:73).          *)
NothingHangs ==
  /\ Quiet => ~Waiting
  /\ token # 0 => token \notin refused
=============================================================================
