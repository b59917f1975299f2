-------------------------- MODULE ProvidersConsole --------------------------
(***************************************************************************)
(* The providers screen and its dialogs (create, edit, delete), whose form *)
(* can test a connection.  The dialogs stay mounted while closed, their    *)
(* form does not.  The detail dialog only leads to two others.             *)
(***************************************************************************)
EXTENDS ConsoleCalls

Closed == [kind |-> "closed", row |-> 0]
Dialog(kind, row) == [kind |-> kind, row |-> row]
RowsOf(listing) == {listing[n][1] : n \in DOMAIN listing}
Drop(listing, row) == Keep(listing, {x \in ToSet(listing) : x[1] # row})

ProvidersScreen ==
  [at |-> "providers", loading |-> TRUE, failed |-> FALSE, rows |-> <<>>,
   dialog |-> Closed, busy |-> {}, checking |-> FALSE]

ListProviders == Load("listProviders", Providers, {"screen"})
OpenProviders == Navigate(ProvidersScreen, <<ListProviders>>)

(* refetch has no sequence number: the answer that comes last is shown. *)
Refetched(i) ==
  /\ Answered(i, {"listProviders"})
  /\ Client(IF Got(i) THEN [ui EXCEPT !.rows = Result(i), !.failed = FALSE, !.loading = FALSE]
                      ELSE [ui EXCEPT !.failed = TRUE, !.loading = FALSE], Done(i))

RetryProviders ==
  /\ ui.at = "providers"
  /\ ui.failed
  /\ Room(1)
  /\ Client([ui EXCEPT !.loading = TRUE], Send(flight, ListProviders))

OpenProviderDialog(kind, row) ==
  /\ ui.at = "providers"
  /\ kind \in {"create", "edit", "delete"}
  /\ IF kind = "create" THEN row = 0 ELSE ~ui.loading /\ row \in RowsOf(ui.rows)
  /\ ui.dialog = Closed \/ (kind = "delete" /\ ui.dialog = Dialog("edit", row))
  /\ Client([ui EXCEPT !.dialog = Dialog(kind, row), !.checking = FALSE], Unmount(flight, {"dialog"}))

Close(screen) == [screen EXCEPT !.dialog = Closed, !.checking = FALSE]
CloseProviderDialog ==
  /\ ui.at = "providers"
  /\ ui.dialog # Closed
  /\ Client(Close(ui), Unmount(flight, {"dialog"}))

CreateProvider ==
  /\ ui.at = "providers"
  /\ ui.dialog.kind = "create"
  /\ "create" \notin ui.busy
  /\ Click([ui EXCEPT !.busy = @ \cup {"create"}],
           Call("createProvider", Providers, 0, Fresh, {"screen"}, 0))

(* The answer to a PATCH with a new key in the form sends rotate-key. *)
EditProvider(newKey) ==
  /\ ui.at = "providers"
  /\ ui.dialog.kind = "edit"
  /\ "edit" \notin ui.busy
  /\ Click([ui EXCEPT !.busy = @ \cup {"edit"}],
           Call("updateProvider", Providers, ui.dialog.row, Fresh, {"screen"}, newKey))

DeleteProvider ==
  /\ ui.at = "providers"
  /\ ui.dialog.kind = "delete"
  /\ "delete" \notin ui.busy
  /\ Click([ui EXCEPT !.busy = @ \cup {"delete"}],
           Call("deleteProvider", Providers, ui.dialog.row, 0, {"screen"}, 0))

BusyOf == [createProvider |-> "create", updateProvider |-> "edit", rotateProviderKey |-> "edit",
           deleteProvider |-> "delete"]

(* Mutant of ProviderSaved: the list is not loaded again. *)
ProviderSavedQuietly(i) ==
  /\ Answered(i, DOMAIN BusyOf)
  /\ ~(flight[i].fn = "updateProvider" /\ Got(i) /\ flight[i].memo = TRUE)
  /\ Client(IF Awaits(i, "screen") THEN Close([ui EXCEPT !.busy = @ \ {BusyOf[flight[i].fn]}]) ELSE ui, Done(i))

(* A write is answered: whichever dialog is open then is closed, and the   *)
(* list is loaded again, but after a failure.                              *)
ProviderSaved(i) ==
  /\ Answered(i, DOMAIN BusyOf)
  /\ ~(flight[i].fn = "updateProvider" /\ Got(i) /\ flight[i].memo = TRUE)
  /\ LET free == [ui EXCEPT !.busy = @ \ {BusyOf[flight[i].fn]}]
     IN CASE ~Awaits(i, "screen") -> Unheeded(i)
          [] Awaits(i, "screen") /\ ~Got(i) -> Client(free, Done(i))
          [] OTHER -> Client(Close(free), Send(Unmount(Done(i), {"dialog"}), ListProviders))

(* rotate-key goes out although the screen may be gone. *)
RotateKey(i) ==
  /\ Answered(i, {"updateProvider"})
  /\ Got(i)
  /\ flight[i].memo = TRUE
  /\ Client(ui, [flight EXCEPT ![i] =
       Call("rotateProviderKey", Providers, flight[i].row, flight[i].value + MaxWrites, flight[i].owner, 0)])

(* runCheck.  Another kind of provider in the create form resets the       *)
(* verdict; nothing stops a check that is on its way.                      *)
RunCheck ==
  /\ ui.at = "providers"
  /\ ui.dialog.kind \in {"create", "edit"}
  /\ ~ui.checking
  /\ Room(1)
  /\ Client([ui EXCEPT !.checking = TRUE],
            Send(flight, Load("checkProviderConnection", Providers, {"dialog"})))

PickKind ==
  /\ ui.at = "providers"
  /\ ui.dialog.kind = "create"
  /\ ui.checking
  /\ Client([ui EXCEPT !.checking = FALSE], flight)

Checked(i) ==
  /\ Answered(i, {"checkProviderConnection"})
  /\ Client([ui EXCEPT !.checking = FALSE], Done(i))

ProvidersStep ==
  \/ OpenProviders \/ RetryProviders
  \/ \E kind \in {"create", "edit", "delete"}, row \in RowOf(Providers) \cup {0} : OpenProviderDialog(kind, row)
  \/ CloseProviderDialog \/ CreateProvider \/ DeleteProvider
  \/ \E newKey \in BOOLEAN : EditProvider(newKey)
  \/ RunCheck \/ PickKind
  \/ \E i \in DOMAIN flight : Refetched(i) \/ ProviderSaved(i) \/ RotateKey(i) \/ Checked(i)
=============================================================================
