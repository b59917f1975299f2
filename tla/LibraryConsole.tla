--------------------------- MODULE LibraryConsole ---------------------------
(***************************************************************************)
(* The screen of the prompt template library: one load, numbered, and      *)
(* afterwards the list is kept by the answers to the writes.  The dialog   *)
(* for a template is mounted while it is open, the one that deletes always.*)
(***************************************************************************)
EXTENDS ProvidersConsole

LibraryScreen ==
  [at |-> "library", loading |-> TRUE, failed |-> FALSE, rows |-> <<>>, dialog |-> Closed, busy |-> {}]

ListTemplates == Load("listTemplateLibrary", Library, {"screen"})
OpenLibrary == Navigate(LibraryScreen, <<ListTemplates>>)

LibraryLoaded(i) ==
  /\ Answered(i, {"listTemplateLibrary"})
  /\ Awaits(i, "screen")
  /\ Client(CASE ~flight[i].latest -> ui
              [] flight[i].latest /\ Got(i) -> [ui EXCEPT !.rows = Result(i), !.loading = FALSE]
              [] OTHER -> [ui EXCEPT !.loading = FALSE, !.failed = TRUE], Done(i))

RetryLibrary ==
  /\ ui.at = "library"
  /\ ui.failed
  /\ Room(1)
  /\ Client([ui EXCEPT !.loading = TRUE, !.failed = FALSE],
            Send(Supersede(flight, {"listTemplateLibrary"}), ListTemplates))

Ready == ~ui.loading /\ ~ui.failed

OpenTemplateDialog(kind, row) ==
  /\ ui.at = "library"
  /\ ui.dialog = Closed
  /\ IF kind = "create" THEN row = 0 ELSE Ready /\ row \in RowsOf(ui.rows)
  /\ Client([ui EXCEPT !.dialog = Dialog(kind, row), !.busy = {}], flight)

Shut(screen) == [screen EXCEPT !.dialog = Closed, !.busy = {}]
CloseTemplateDialog ==
  /\ ui.at = "library"
  /\ ui.dialog # Closed
  /\ Client(Shut(ui), Unmount(flight, {"dialog"}))

SaveTemplate ==
  /\ ui.at = "library"
  /\ ui.dialog.kind \in {"create", "edit"}
  /\ ui.busy = {}
  /\ Click([ui EXCEPT !.busy = {"save"}],
           Call(IF ui.dialog.kind = "create" THEN "createTemplate" ELSE "updateTemplate",
                Library, ui.dialog.row, Fresh, {"screen", "dialog"}, ui.dialog.kind))

DeleteTemplate ==
  /\ ui.at = "library"
  /\ ui.dialog.kind = "delete"
  /\ ui.busy = {}
  /\ Click([ui EXCEPT !.busy = {"delete"}],
           Call("deleteTemplate", Library, ui.dialog.row, 0, {"screen"}, 0))

(* handleSaved and handleDeleted do nothing to a list that is not there.   *)
(* handleSaved goes by the dialog of when the button was pressed.          *)
Patched(rows, i) ==
  CASE flight[i].fn = "deleteTemplate" -> Drop(rows, flight[i].row)
    [] flight[i].fn # "deleteTemplate" /\ flight[i].memo = "create" -> <<Result(i)>> \o rows
    [] OTHER -> [n \in DOMAIN rows |-> IF rows[n][1] = Result(i)[1] THEN Result(i) ELSE rows[n]]

LibraryWrites == {"createTemplate", "updateTemplate", "deleteTemplate"}
TemplateSaved(i) ==
  /\ Answered(i, LibraryWrites)
  /\ CASE ~Awaits(i, "screen") -> Client(ui, Done(i))
       [] Awaits(i, "screen") /\ Got(i) ->
            Client(Shut(IF Ready THEN [ui EXCEPT !.rows = Patched(@, i)] ELSE ui),
                   Unmount(Done(i), {"dialog"}))
       [] OTHER ->
            Client(IF flight[i].fn = "deleteTemplate" THEN [ui EXCEPT !.busy = @ \ {"delete"}]
                     ELSE IF Awaits(i, "dialog") THEN [ui EXCEPT !.busy = {}] ELSE ui, Done(i))

LibraryStep ==
  \/ OpenLibrary \/ RetryLibrary \/ CloseTemplateDialog \/ SaveTemplate \/ DeleteTemplate
  \/ \E kind \in {"create", "edit", "delete"}, row \in RowOf(Library) \cup {0} : OpenTemplateDialog(kind, row)
  \/ \E i \in DOMAIN flight : LibraryLoaded(i) \/ TemplateSaved(i)
=============================================================================
