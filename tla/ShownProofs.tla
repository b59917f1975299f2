---------------------------- MODULE ShownProofs ----------------------------
(***************************************************************************)
(* What the web console shows is so.  ShownIsTrue is of moments when no    *)
(* request is in flight; TrueInv says what is so until then.  As long as   *)
(* no case has been met (excused = {}) none is being met (Clear), and of   *)
(* the screen that is mounted (Truth):                                     *)
(*                                                                         *)
(*   ProvidersTrue, LibraryTrue, ListTrue, DetailTrue: what it shows is    *)
(*   what the server has, row by row, except for the rows that a request   *)
(*   in flight has yet to change on one side, and that request says how;   *)
(*   or it is being loaded, and every answer on its way that the screen    *)
(*   will take is what the server has, or was overtaken by a write that    *)
(*   loads it again.                                                       *)
(*                                                                         *)
(* Base of ConsoleProofs is of every state, whatever was met: no template  *)
(* has an id that is still to be given, and none is being made with one.   *)
(*                                                                         *)
(* A step may meet a case, and then nothing has to be shown: the lemmas    *)
(* of the steps assume that none is met before it or, where they need it,  *)
(* after it.  Each is proved as in ConsoleProofs: Turns says what becomes  *)
(* of the requests, and from it follows what of the truth stays.           *)
(***************************************************************************)
EXTENDS ConsoleProofs

-----------------------------------------------------------------------------
(* A screen that meets none of the cases.                                  *)

Writes(r) == r # Idle /\ Writing(r)
Clear(u, f) ==
  /\ \A i \in Slots : Writes(f[i]) =>
       f[i].reply # Lost /\ (IF f[i].fn \in TabWrites THEN "tab" ELSE "screen") \in f[i].owner
  /\ \A i \in Slots : f[i].fn = "rotateProviderKey" => f[i].reply \notin {Error, Lost}
  /\ \A i, j \in Slots :
       Writes(f[i]) /\ Writes(f[j]) /\ f[i].row # 0 /\ f[i].table = f[j].table /\ f[i].row = f[j].row => i = j
  /\ \A i, j \in Slots : f[i].fn = "listProviders" /\ f[j].fn = "listProviders" => i = j
  /\ u.at = "library" /\ u.loading => \A i \in Slots : f[i].fn \notin LibraryWrites
  /\ u.at = "list" => \A i \in Slots : f[i].fn = "createWorkspace" => f[i].memo.page = u.page
  /\ \A i, j \in Slots :
       f[i].fn = "detachTemplate" /\ f[j].fn \in {"attachTemplate", "detachTemplate"} => i = j
  /\ u.at = "detail" => \A i \in Slots :
       /\ f[i].fn \in {"replaceMemberRoles", "addMember", "listMembers"} => f[i].table[2] = u.id
       /\ f[i].fn = "updateWorkspace" => f[i].row = u.id

(* The cases are what they are called. *)
LEMMA Unmet ==
  ASSUME Flights(flight'), Met' = {}
  PROVE  Clear(ui', flight')
<1> DEFINE f == flight'
<1>1. DOMAIN f = Slots /\ \A i \in Slots : f[i] = Idle \/ IsRequest(f[i])
  BY DEF Flights
<1>2. InFlight' = {i \in Slots : f[i] # Idle}
  BY <1>1 DEF InFlight
<1>3. Idle.fn = "none"
  BY DEF Idle
<1>4. /\ ~Cases'.lost /\ ~Cases'.halfSaved /\ ~Cases'.overtaken /\ ~Cases'.crossed /\ ~Cases'.overlapped
      /\ ~Cases'.early /\ ~Cases'.moved /\ ~Cases'.undone /\ ~Cases'.straddled
  BY DEF Met, Cases
<1>5. WritesInFlight' = {i \in Slots : Writes(f[i])}
  BY <1>2 DEF WritesInFlight, Writes, Writing
<1>6. \A fns : "none" \notin fns => Of(fns)' = {i \in Slots : f[i].fn \in fns}
  BY <1>2, <1>3 DEF Of
<1>7. \A i \in Slots : Writes(f[i]) =>
        f[i].reply # Lost /\ (IF f[i].fn \in TabWrites THEN "tab" ELSE "screen") \in f[i].owner
  BY <1>4, <1>5 DEF Cases, Heeded, Awaits
<1>8. \A i \in Slots : f[i].fn = "rotateProviderKey" => f[i].reply \notin {Error, Lost}
  BY <1>4, <1>6 DEF Cases
<1>9. \A i, j \in Slots :
        Writes(f[i]) /\ Writes(f[j]) /\ f[i].row # 0 /\ f[i].table = f[j].table /\ f[i].row = f[j].row => i = j
  BY <1>4, <1>5 DEF Cases, OneRow
<1>10. \A i, j \in Slots : f[i].fn = "listProviders" /\ f[j].fn = "listProviders" => i = j
  <2> DEFINE S == {i \in Slots : f[i].fn = "listProviders"}
  <2>1. Of({"listProviders"})' = S
    BY <1>6
  <2>2. ~(Cardinality(S) > 1)
    BY <1>4, <2>1 DEF Cases
  <2>3. IsFiniteSet(S)
    <3>1. IsFiniteSet(Slots)
      BY ConsoleAssumption, FS_Interval DEF Slots
    <3> QED BY <3>1, FS_Subset
  <2>4. SUFFICES ASSUME NEW i \in S, NEW j \in S, i # j PROVE FALSE
    OBVIOUS
  <2> HIDE DEF S
  <2>5. {i, j} \subseteq S /\ Cardinality({i, j}) = 2
    <3>1. IsFiniteSet({i}) /\ Cardinality({i}) = 1
      BY FS_Singleton
    <3>2. Cardinality({i} \cup {j}) = 2
      BY <2>4, <3>1, FS_AddElement
    <3>3. {i, j} = {i} \cup {j}
      OBVIOUS
    <3> QED BY <3>2, <3>3
  <2>6. Cardinality({i, j}) =< Cardinality(S) /\ Cardinality(S) \in Nat
    BY <2>3, <2>5, FS_Subset, FS_CardinalityType
  <2> QED BY <2>2, <2>5, <2>6
<1>11. ui'.at = "library" /\ ui'.loading => \A i \in Slots : f[i].fn \notin LibraryWrites
  BY <1>4, <1>6 DEF Cases, LibraryWrites
<1>12. ui'.at = "list" => \A i \in Slots : f[i].fn = "createWorkspace" => f[i].memo.page = ui'.page
  BY <1>4, <1>6 DEF Cases
<1>13. \A i, j \in Slots :
         f[i].fn = "detachTemplate" /\ f[j].fn \in {"attachTemplate", "detachTemplate"} => i = j
  BY <1>4, <1>6 DEF Cases
<1>14. ui'.at = "detail" => \A i \in Slots :
         /\ f[i].fn \in {"replaceMemberRoles", "addMember", "listMembers"} => f[i].table[2] = ui'.id
         /\ f[i].fn = "updateWorkspace" => f[i].row = ui'.id
  BY <1>4, <1>6 DEF Cases
<1> HIDE DEF f
<1> QED BY <1>7, <1>8, <1>9, <1>10, <1>11, <1>12, <1>13, <1>14 DEF Clear, f

(* Then every request in flight is of the screen. *)
LEMMA OfTheScreen ==
  ASSUME Inv, Clear(ui, flight), NEW i \in Slots, flight[i] # Idle
  PROVE  /\ IsRequest(flight[i]) /\ Asked(flight[i]) /\ Replies(flight[i]) /\ Waiter(ui, flight[i]) /\ flight[i].owner # {}
         /\ flight[i].fn # "login" => ui.at \in {"providers", "library", "list", "detail"}
         /\ ui.at = "providers" => flight[i].fn \in {"listProviders", "checkProviderConnection"} \cup DOMAIN BusyOf
         /\ ui.at = "library" => flight[i].fn \in {"listTemplateLibrary"} \cup LibraryWrites
         /\ ui.at = "list" => flight[i].fn \in {"listWorkspaces", "createWorkspace"}
<1> DEFINE r == flight[i]
<1>1. IsRequest(r) /\ Asked(r) /\ Replies(r) /\ Waiter(ui, r)
  BY DEF Inv, Calls, CallsTyped, Flights, Screen, Waiters
<1>2. r.owner # {}
  <2>1. CASE Writing(r)
    BY <2>1 DEF Clear, Writes
  <2>2. CASE ~Writing(r)
    BY <1>1, <2>2 DEF Waiter
  <2> QED BY <2>1, <2>2
<1>3. r.owner \subseteq Parts
  BY <1>1 DEF IsRequest
<1>4. ui.at \in {"login", "home", "providers", "library", "list", "detail"}
  BY DEF Inv, Screen, ScreenTyped
<1>5. PICK p \in {"screen", "tab", "dialog"} : p \in r.owner
  BY <1>2, <1>3 DEF Parts
<1> HIDE DEF r
<1>6. ui.at # "home" /\ (ui.at = "login" => r.fn = "login")
  BY <1>1, <1>2 DEF Waiter
<1>7. ui.at = "providers" => r.fn \in {"listProviders", "checkProviderConnection"} \cup DOMAIN BusyOf
  BY <1>1, <1>5 DEF Waiter
<1>8. ui.at = "library" => r.fn \in {"listTemplateLibrary"} \cup LibraryWrites
  BY <1>1, <1>5 DEF Waiter, LibraryWrites
<1>9. ui.at = "list" => r.fn \in {"listWorkspaces", "createWorkspace"}
  BY <1>1, <1>5 DEF Waiter
<1> QED BY <1>1, <1>2, <1>4, <1>6, <1>7, <1>8, <1>9 DEF r

-----------------------------------------------------------------------------
(* What the server does.                                                   *)

(* A table that nothing is joined to. *)
Refused(r) == r.fn # "login" /\ Rejects(r)
Served(i, reply) ==
  /\ flight[i] # Idle /\ flight[i].reply = Pending /\ IsRequest(flight[i]) /\ Asked(flight[i])
  /\ ui' = ui /\ writes' = writes /\ Flights(flight')
  /\ \A j \in Slots : j # i => flight'[j] = flight[j]
  /\ LET r == flight[i]
         s == flight'[i]
     IN /\ s # Idle /\ s.fn = r.fn /\ s.table = r.table /\ s.row = r.row /\ s.value = r.value
        /\ s.memo = r.memo /\ s.latest = r.latest /\ s.owner = r.owner
        /\ s.reply = reply
  /\ \/ reply \in {Error, Unauthorized} /\ db' = db
     \/ reply = NotFound /\ flight[i].fn = "getWorkspace" /\ Rejects(flight[i]) /\ db' = db
     \/ reply = OK(Body(flight[i])) /\ ~Refused(flight[i]) /\ db' = After(flight[i])

(* With no answer lost a request is answered in one of these ways. *)
LEMMA ServeIs ==
  ASSUME Inv, Clear(ui', flight'), NEW i \in Slots, Serve(i)
  PROVE  \E reply : Served(i, reply)
<1> DEFINE r == flight[i]
<1>1. /\ r # Idle /\ IsRequest(r) /\ Asked(r) /\ r.reply = Pending /\ Flights(flight)
      /\ UNCHANGED <<expired, token, strays, ui, refused, writes, moves, sessions>>
  BY DEF Serve, Inv, Calls, CallsTyped, Flights
<1>2. PICK reply :
        /\ flight' = [flight EXCEPT ![i].reply = reply]
        /\ \/ reply \in {Error, Unauthorized} /\ db' = db
           \/ reply = NotFound /\ r.fn = "getWorkspace" /\ Rejects(r) /\ db' = db
           \/ reply = OK(Body(r)) /\ ~Refused(r) /\ db' = After(r)
           \/ reply = Lost /\ Writing(r) /\ db' = After(r)
  BY DEF Serve, Answer, Refused
<1>3. IsReply(reply)
  BY <1>2 DEF IsReply, OK
<1> DEFINE s == [r EXCEPT !.reply = reply]
<1>4. flight' = [flight EXCEPT ![i] = s]
  BY <1>2
<1>5. /\ IsRequest(s)
      /\ s.fn = r.fn /\ s.table = r.table /\ s.row = r.row /\ s.value = r.value
      /\ s.memo = r.memo /\ s.token = r.token /\ s.latest = r.latest /\ s.owner = r.owner
      /\ s.reply = reply
  <2>1. IsRequest(r)
    BY <1>1
  <2> HIDE DEF r
  <2> QED BY <1>3, <2>1, Replied
<1> HIDE DEF s
<1>6. flight'[i] = s /\ DOMAIN flight' = Slots /\ \A j \in Slots : j # i => flight'[j] = flight[j]
  BY <1>1, <1>4 DEF Flights
<1>7. Flights(flight')
  BY <1>1, <1>5, <1>6 DEF Flights
<1>8. s # Idle
  BY <1>5, IdleIsNone
<1>9. ~(reply = Lost /\ Writing(r))
  <2>1. reply = Lost /\ Writing(r) => Writes(flight'[i])
    BY <1>5, <1>6, <1>8 DEF Writes, Writing
  <2> QED BY <1>5, <1>6, <2>1 DEF Clear
<1> QED BY <1>1, <1>2, <1>5, <1>6, <1>7, <1>8, <1>9 DEF Served

-----------------------------------------------------------------------------
(* The providers.                                                          *)

(* An answer that is to come leads to another refetch. *)
Refetching(f) == Took(f, DOMAIN BusyOf) \/ \E i \in Slots : f[i].fn = "rotateProviderKey"
ProvidersTrue(u, f, content) ==
  /\ \A i \in Slots : f[i].fn = "listProviders" /\ f[i].reply[1] = "ok" =>
       Fits(f[i].reply[2], content) \/ Refetching(f)
  /\ u.failed \/ Coming(f, {"listProviders"}, "screen") \/ Fits(u.rows, content) \/ Refetching(f)

(* And so does the refetch that will follow. *)
LEMMA RefetchingOn ==
  ASSUME NEW f, NEW g, NEW gone, NEW parts, NEW new, Turns(f, g, gone, parts, {}, new), Refetching(f),
         \A i \in gone : f[i].fn \in DOMAIN BusyOf => f[i].reply[1] # "ok" /\ f[i].fn # "rotateProviderKey"
  PROVE  Refetching(g)
<1>1. CASE Took(f, DOMAIN BusyOf)
  BY <1>1, Writers, TookOn DEF Refetching
<1>2. CASE \E i \in Slots : f[i].fn = "rotateProviderKey"
  <2>1. PICK i \in Slots : f[i].fn = "rotateProviderKey"
    BY <1>2
  <2>2. f[i] # Idle /\ Writing(f[i]) /\ i \notin gone
    BY <2>1, IdleIsNone DEF Verb, Writing, BusyOf
  <2>3. g[i].fn = f[i].fn
    BY <2>2, WritesStay
  <2> QED BY <2>1, <2>3 DEF Refetching
<1> QED BY <1>1, <1>2 DEF Refetching

(* Nothing that matters has happened. *)
LEMMA ProvidersStay ==
  ASSUME NEW u, NEW v, NEW f, NEW g, NEW gone, NEW parts, NEW new, NEW content, ProvidersTrue(u, f, content),
         Turns(f, g, gone, parts, {}, new), "screen" \notin parts, \A r \in new : r.reply = Pending,
         \A i \in gone : f[i].fn # "listProviders",
         \A i \in gone : f[i].fn \in DOMAIN BusyOf => f[i].reply[1] # "ok" /\ f[i].fn # "rotateProviderKey",
         v.failed = u.failed, v.rows = u.rows
  PROVE  ProvidersTrue(v, g, content)
<1>1. Refetching(f) => Refetching(g)
  BY RefetchingOn
<1>2. Coming(f, {"listProviders"}, "screen") => Coming(g, {"listProviders"}, "screen")
  BY ComingOn
<1>3. ASSUME NEW i \in Slots, g[i].fn = "listProviders", g[i].reply[1] = "ok"
      PROVE  f[i].fn = "listProviders" /\ f[i].reply = g[i].reply
  <2>1. g[i] \notin new
    BY <1>3 DEF Pending
  <2> QED BY <1>3, <2>1, SentOrStayed
<1> QED BY <1>1, <1>2, <1>3 DEF ProvidersTrue

(* An answer for the listing of the providers is shown. *)
LEMMA RefetchedTrue ==
  ASSUME Inv, ui.at = "providers", ProvidersTrue(ui, flight, db[Providers]), NEW i \in Slots, Refetched(i)
  PROVE  ProvidersTrue(ui', flight', db'[Providers])
<1> DEFINE content == db[Providers]
<1>1. flight[i].fn = "listProviders" /\ Flights(flight)
      /\ DOMAIN ui = {"at", "loading", "failed", "rows", "dialog", "busy", "checking"}
  BY AtProviders DEF Refetched, Answered
<1>2. /\ Within /\ flight' = Done(i)
      /\ ui' = IF Got(i) THEN [ui EXCEPT !.rows = Result(i), !.failed = FALSE, !.loading = FALSE]
                         ELSE [ui EXCEPT !.failed = TRUE, !.loading = FALSE]
  BY ClientWithin DEF Refetched
<1>3. db'[Providers] = content
  BY <1>2 DEF Within
<1>4. Turns(flight, flight', {i}, {}, {}, {})
  BY <1>1, <1>2, DoneTurns
<1> HIDE DEF content
<1>5. Refetching(flight) => Refetching(flight')
  BY <1>1, <1>4, RefetchingOn DEF BusyOf
<1>6. ASSUME NEW j \in Slots, flight'[j].fn = "listProviders" PROVE flight[j].fn = "listProviders" /\ flight[j].reply = flight'[j].reply
  BY <1>4, <1>6, SentOrStayed
<1>7. ui'.failed \/ (Got(i) /\ ui'.rows = flight[i].reply[2])
  BY <1>1, <1>2 DEF Result
<1>8. Got(i) => Fits(flight[i].reply[2], content) \/ Refetching(flight)
  BY <1>1 DEF Got, ProvidersTrue, content
<1>9. ProvidersTrue(ui', flight', content)
  BY <1>5, <1>6, <1>7, <1>8 DEF ProvidersTrue, content
<1> QED BY <1>3, <1>9

(* After a write the list is loaded again, alone. *)
LEMMA ProviderSavedTrue ==
  ASSUME Inv, Clear(ui, flight), Clear(ui', flight'), ui.at = "providers", ProvidersTrue(ui, flight, db[Providers]),
         \A i \in Slots : flight[i] # Idle /\ flight[i].reply = NotFound => flight[i].fn = "getWorkspace",
         NEW i \in Slots, ProviderSaved(i)
  PROVE  ProvidersTrue(ui', flight', db'[Providers])
<1> DEFINE r == ListProviders
           b == BusyOf[flight[i].fn]
<1>1. /\ flight[i] # Idle /\ flight[i].fn \in DOMAIN BusyOf /\ Flights(flight) /\ token \in Nat
      /\ flight[i].reply \notin {Pending, Unauthorized} /\ IsReply(flight[i].reply)
      /\ DOMAIN ui = {"at", "loading", "failed", "rows", "dialog", "busy", "checking"}
  BY AtProviders DEF ProviderSaved, Answered, Flights, IsRequest
<1>2. Turns(flight, Done(i), {i}, {}, {}, {})
  BY <1>1, DoneTurns
<1>3. Awaits(i, "screen")
  <2>1. Writes(flight[i]) /\ flight[i].fn \notin TabWrites
    BY <1>1 DEF Writes, Writing, Verb, BusyOf, TabWrites
  <2> QED BY <2>1 DEF Clear, Awaits
<1>4. CASE ~Got(i)
  <2>1. Within /\ ui' = [ui EXCEPT !.busy = @ \ {b}] /\ flight' = Done(i)
    <3>1. Client([ui EXCEPT !.busy = @ \ {b}], Done(i))
      BY <1>3, <1>4 DEF ProviderSaved
    <3> QED BY <3>1, ClientWithin
  <2> HIDE DEF b
  <2>2. ui'.failed = ui.failed /\ ui'.rows = ui.rows
    BY <1>1, <2>1
  <2>3. flight[i].fn # "rotateProviderKey" /\ flight[i].reply[1] # "ok" /\ flight[i].fn # "listProviders"
    <3>1. flight[i].reply \in {Error, NotFound, Lost}
      BY <1>1, <1>4 DEF IsReply, Got, OK
    <3>2. flight[i].fn # "rotateProviderKey"
      BY <1>1, <3>1 DEF Clear
    <3> QED BY <1>1, <1>4, <3>2 DEF Got, BusyOf
  <2>4. Turns(flight, flight', {i}, {}, {}, {})
    BY <1>2, <2>1
  <2>5. ProvidersTrue(ui', flight', db[Providers])
    BY <2>2, <2>3, <2>4, ProvidersStay
  <2> QED BY <2>1, <2>5 DEF Within
<1>5. CASE Got(i)
  <2> DEFINE g == Unmount(Done(i), {"dialog"})
  <2>1. /\ Within /\ flight' = Send(g, r)
    <3>1. Client(Close([ui EXCEPT !.busy = @ \ {b}]), Send(g, r))
      BY <1>3, <1>5 DEF ProviderSaved
    <3> QED BY <3>1, ClientWithin
  <2>2. Turns(flight, g, {i}, {"dialog"}, {}, {}) /\ FreeSlots(g) # {}
    <3>1. FreeSlots(Done(i)) # {} /\ Flights(Done(i))
      BY <1>1, WasDone
    <3> QED BY <1>2, <3>1, PartsTurn, StillFree
  <2>3. New(r) /\ r.fn = "listProviders" /\ r.owner = {"screen"}
    BY <1>1, ListProvidersIs
  <2> HIDE DEF b, g, r
  <2>4. Turns(flight, flight', {i}, {"dialog"}, {}, {r})
    <3>1. Flights(g) /\ IsRequest(r)
      BY <2>2, <2>3 DEF Turns, New
    <3>2. Turns(g, Send(g, r), {}, {}, {}, {r})
      BY <2>2, <3>1, SendTurns
    <3> QED BY <2>1, <2>2, <3>2, ThenTurns
  <2>5. Coming(flight', {"listProviders"}, "screen")
    BY <2>3, <2>4, NewComes DEF New
  <2>6. PICK j \in Slots : flight'[j] = r
    BY <2>4 DEF Turns
  <2>7. ASSUME NEW k \in Slots, flight'[k].fn = "listProviders" PROVE flight'[k].reply[1] # "ok"
    <3>1. k = j
      BY <2>3, <2>6, <2>7 DEF Clear
    <3> QED BY <2>3, <2>6, <3>1 DEF New, Pending
  <2> QED BY <2>5, <2>7 DEF ProvidersTrue
<1> QED BY <1>4, <1>5

(* The answer to the PATCH sends the key. *)
LEMMA RotateKeyTrue ==
  ASSUME Inv, NEW i \in Slots, RotateKey(i)
  PROVE  ProvidersTrue(ui', flight', db'[Providers])
<1> DEFINE r == Call("rotateProviderKey", Providers, flight[i].row, flight[i].value + MaxWrites, flight[i].owner, 0)
<1>1. flight' = [flight EXCEPT ![i] = r] /\ r.fn = "rotateProviderKey" /\ i \in DOMAIN flight
  BY ClientWithin DEF RotateKey, Call, Inv, Calls, CallsTyped, Flights
<1> HIDE DEF r
<1>2. flight'[i].fn = "rotateProviderKey"
  BY <1>1
<1> QED BY <1>2 DEF ProvidersTrue, Refetching

(* A write is asked for. *)
LEMMA ProviderClickTrue ==
  ASSUME Inv, ui.at = "providers", ProvidersTrue(ui, flight, db[Providers]), NEW b, NEW r, New(r),
         Click([ui EXCEPT !.busy = @ \cup {b}], r)
  PROVE  ProvidersTrue(ui', flight', db'[Providers])
<1>1. DOMAIN ui = {"at", "loading", "failed", "rows", "dialog", "busy", "checking"}
  BY AtProviders
<1>2. Within /\ ui' = [ui EXCEPT !.busy = @ \cup {b}] /\ Turns(flight, flight', {}, {}, {}, {r})
  BY ClickWithin DEF New
<1>3. ui'.failed = ui.failed /\ ui'.rows = ui.rows
  BY <1>1, <1>2
<1>4. \A q \in {r} : q.reply = Pending
  BY DEF New
<1>5. \A i \in {} : flight[i].fn # "listProviders"
  OBVIOUS
<1>6. \A i \in {} : flight[i].fn \in DOMAIN BusyOf => flight[i].reply[1] # "ok" /\ flight[i].fn # "rotateProviderKey"
  OBVIOUS
<1>8. "screen" \notin {}
  OBVIOUS
<1>9. Turns(flight, flight', {}, {}, {}, {r})
  BY <1>2
<1>7. ProvidersTrue(ui', flight', db[Providers])
  BY <1>3, <1>4, <1>5, <1>6, <1>8, <1>9, ProvidersStay
<1> QED BY <1>2, <1>7 DEF Within

(* The buttons of its dialogs. *)
LEMMA ProviderClicksTrue ==
  ASSUME Inv, ui.at = "providers", ProvidersTrue(ui, flight, db[Providers]),
         CreateProvider \/ (\E newKey \in BOOLEAN : EditProvider(newKey)) \/ DeleteProvider
  PROVE  ProvidersTrue(ui', flight', db'[Providers])
<1>1. ProvidersTyped(ui) /\ token \in Nat /\ Fresh \in Nat /\ ui.dialog.row \in Nat /\ {"screen"} \in SUBSET Parts
  BY AtProviders DEF Inv, Calls, CallsTyped, Fresh, ProvidersTyped, IsDialog, Parts
<1>2. CASE CreateProvider
  <2> DEFINE r == Call("createProvider", Providers, 0, Fresh, {"screen"}, 0)
  <2>1. New(r)
    BY <1>1, ProviderWrites DEF BusyOf
  <2>2. Click([ui EXCEPT !.busy = @ \cup {"create"}], r)
    BY <1>2 DEF CreateProvider
  <2> HIDE DEF r
  <2> QED BY <2>1, <2>2, ProviderClickTrue
<1>3. ASSUME NEW newKey \in BOOLEAN, EditProvider(newKey) PROVE ProvidersTrue(ui', flight', db'[Providers])
  <2> DEFINE r == Call("updateProvider", Providers, ui.dialog.row, Fresh, {"screen"}, newKey)
  <2>1. New(r)
    BY <1>1, ProviderWrites DEF BusyOf
  <2>2. Click([ui EXCEPT !.busy = @ \cup {"edit"}], r)
    BY <1>3 DEF EditProvider
  <2> HIDE DEF r
  <2> QED BY <2>1, <2>2, ProviderClickTrue
<1>4. CASE DeleteProvider
  <2> DEFINE r == Call("deleteProvider", Providers, ui.dialog.row, 0, {"screen"}, 0)
  <2>1. New(r)
    BY <1>1, ProviderWrites DEF BusyOf
  <2>2. Click([ui EXCEPT !.busy = @ \cup {"delete"}], r)
    BY <1>4 DEF DeleteProvider
  <2> HIDE DEF r
  <2> QED BY <2>1, <2>2, ProviderClickTrue
<1> QED BY <1>2, <1>3, <1>4

(* The dialogs, the checks and a retry leave the rows as they are. *)
LEMMA ProviderRestTrue ==
  ASSUME Inv, ui.at = "providers", ProvidersTrue(ui, flight, db[Providers]),
         \/ RetryProviders \/ CloseProviderDialog \/ RunCheck \/ PickKind
         \/ \E kind \in {"create", "edit", "delete"}, row \in RowOf(Providers) \cup {0} : OpenProviderDialog(kind, row)
         \/ \E i \in Slots : Checked(i)
  PROVE  ProvidersTrue(ui', flight', db'[Providers])
<1>1. /\ Flights(flight) /\ token \in Nat
      /\ DOMAIN ui = {"at", "loading", "failed", "rows", "dialog", "busy", "checking"}
  BY AtProviders
<1>2. SUFFICES ASSUME NEW v, NEW f, NEW gone, NEW parts, NEW new, Client(v, f), Turns(flight, f, gone, parts, {}, new),
                      "screen" \notin parts, \A r \in new : r.reply = Pending,
                      \A i \in gone : flight[i].fn \notin {"listProviders"} \cup DOMAIN BusyOf,
                      v.failed = ui.failed /\ v.rows = ui.rows
               PROVE  ProvidersTrue(ui', flight', db'[Providers])
  <2>1. CASE RetryProviders
    <3>1. New(ListProviders)
      BY <1>1, ListProvidersIs
    <3>2. Turns(flight, Send(flight, ListProviders), {}, {}, {}, {ListProviders})
      BY <1>1, <2>1, <3>1, RoomIsFree, SendTurns DEF New, RetryProviders
    <3> DEFINE v == [ui EXCEPT !.loading = TRUE]
    <3>3. Client(v, Send(flight, ListProviders)) /\ v.failed = ui.failed /\ v.rows = ui.rows
      BY <1>1, <2>1 DEF RetryProviders
    <3> HIDE DEF v
    <3> QED BY <1>2, <3>1, <3>2, <3>3 DEF New
  <2>2. CASE CloseProviderDialog
    <3> DEFINE v == Close(ui)
    <3>1. Client(v, Unmount(flight, {"dialog"})) /\ v.failed = ui.failed /\ v.rows = ui.rows
      BY <1>1, <2>2 DEF CloseProviderDialog, Close
    <3> HIDE DEF v
    <3> QED BY <1>1, <1>2, <3>1, UnmountTurns
  <2>3. CASE RunCheck
    <3> DEFINE r == Load("checkProviderConnection", Providers, {"dialog"})
               v == [ui EXCEPT !.checking = TRUE]
    <3>1. IsRequest(r) /\ r.reply = Pending
      BY <1>1, LoadIs DEF Verb, Table, Parts
    <3>2. Client(v, Send(flight, r)) /\ v.failed = ui.failed /\ v.rows = ui.rows
      BY <1>1, <2>3 DEF RunCheck
    <3> HIDE DEF r, v
    <3>3. Turns(flight, Send(flight, r), {}, {}, {}, {r})
      BY <1>1, <2>3, <3>1, RoomIsFree, SendTurns DEF RunCheck
    <3> QED BY <1>2, <3>1, <3>2, <3>3
  <2>4. CASE PickKind
    <3> DEFINE v == [ui EXCEPT !.checking = FALSE]
    <3>1. Client(v, flight) /\ v.failed = ui.failed /\ v.rows = ui.rows
      BY <1>1, <2>4 DEF PickKind
    <3> HIDE DEF v
    <3> QED BY <1>1, <1>2, <3>1, TurnsAsIs
  <2>5. ASSUME NEW kind \in {"create", "edit", "delete"}, NEW row \in RowOf(Providers) \cup {0}, OpenProviderDialog(kind, row)
        PROVE  ProvidersTrue(ui', flight', db'[Providers])
    <3> DEFINE v == [ui EXCEPT !.dialog = Dialog(kind, row), !.checking = FALSE]
    <3>1. Client(v, Unmount(flight, {"dialog"})) /\ v.failed = ui.failed /\ v.rows = ui.rows
      BY <1>1, <2>5 DEF OpenProviderDialog
    <3> HIDE DEF v
    <3> QED BY <1>1, <1>2, <3>1, UnmountTurns
  <2>6. ASSUME NEW i \in Slots, Checked(i) PROVE ProvidersTrue(ui', flight', db'[Providers])
    <3> DEFINE v == [ui EXCEPT !.checking = FALSE]
    <3>1. Client(v, Done(i)) /\ v.failed = ui.failed /\ v.rows = ui.rows
      BY <1>1, <2>6 DEF Checked
    <3>2. flight[i].fn \notin {"listProviders"} \cup DOMAIN BusyOf
      BY <2>6 DEF Checked, Answered, BusyOf
    <3> HIDE DEF v
    <3>3. \A k \in {i} : flight[k].fn \notin {"listProviders"} \cup DOMAIN BusyOf
      BY <3>2
    <3>4. Turns(flight, Done(i), {i}, {}, {}, {})
      BY <1>1, DoneTurns
    <3> QED BY <1>2, <3>1, <3>3, <3>4
  <2> QED BY <2>1, <2>2, <2>3, <2>4, <2>5, <2>6
<1>3. Within /\ ui' = v /\ flight' = f
  BY <1>2, ClientWithin
<1>4. ProvidersTrue(v, f, db[Providers])
  BY <1>2, ProvidersStay
<1> QED BY <1>3, <1>4 DEF Within

(* The server takes a request. *)
LEMMA ProviderServedTrue ==
  ASSUME Inv, Clear(ui, flight), ui.at = "providers", ProvidersTrue(ui, flight, db[Providers]),
         NEW i \in Slots, NEW reply, Served(i, reply)
  PROVE  ProvidersTrue(ui', flight', db'[Providers])
<1> DEFINE r == flight[i]
           s == flight'[i]
<1>1. /\ r # Idle /\ IsRequest(r) /\ Asked(r) /\ r.reply = Pending /\ ui' = ui
      /\ s # Idle /\ s.fn = r.fn /\ s.owner = r.owner /\ s.reply = reply
      /\ \A j \in Slots : j # i => flight'[j] = flight[j]
  BY DEF Served
<1>2. DbTyped /\ Providers \in Table
  BY DEF Inv, Calls, CallsTyped, Table
<1>3. Content(Providers) = db[Providers]
  BY DEF Content, Providers, T
<1>4. r.fn \in {"listProviders", "checkProviderConnection"} \cup DOMAIN BusyOf
  BY <1>1, OfTheScreen
<1>5. Coming(flight, {"listProviders"}, "screen") => Coming(flight', {"listProviders"}, "screen")
  BY <1>1 DEF Coming
<1>6. Refetching(flight) => Refetching(flight')
  <2>1. r.reply[1] # "ok"
    BY <1>1 DEF Pending
  <2> QED BY <1>1, <2>1 DEF Refetching, Took
<1>7. CASE r.fn \in DOMAIN BusyOf /\ reply[1] = "ok"
  <2>1. Refetching(flight')
    BY <1>1, <1>7 DEF Refetching, Took
  <2> QED BY <2>1 DEF ProvidersTrue
<1>8. CASE ~(r.fn \in DOMAIN BusyOf /\ reply[1] = "ok")
  <2>1. db' = db
    <3>1. CASE reply = OK(Body(r))
      <4>1. r.fn \in {"listProviders", "checkProviderConnection"}
        BY <1>4, <1>8, <3>1 DEF OK
      <4>2. ~Writing(r)
        BY <4>1 DEF Writing, Verb
      <4>3. reply # Error /\ reply # Unauthorized /\ reply # NotFound
        BY <3>1 DEF OK, Error, Unauthorized, NotFound
      <4> QED BY <4>2, <4>3, ReadIs DEF Served
    <3>2. CASE reply # OK(Body(r))
      BY <3>2 DEF Served
    <3> QED BY <3>1, <3>2
  <2>2. ASSUME r.fn = "listProviders", reply[1] = "ok" PROVE Fits(reply[2], db[Providers])
    <3>1. reply = OK(Body(r))
      BY <2>2 DEF Served, Error, Unauthorized, NotFound
    <3>2. Body(r) = Listing(r.table) /\ r.table = Providers
      BY <1>1, <2>2 DEF Body, Verb, Asked, TableOf
    <3>3. reply[2] = Listing(Providers)
      BY <3>1, <3>2 DEF OK
    <3> QED BY <1>2, <1>3, <3>3, ListingFits
  <2> HIDE DEF r, s
  <2>3. \A j \in Slots : flight'[j].fn = "listProviders" /\ flight'[j].reply[1] = "ok" =>
          Fits(flight'[j].reply[2], db[Providers]) \/ Refetching(flight')
    BY <1>1, <1>6, <2>2 DEF ProvidersTrue, r, s
  <2>4. ui'.failed \/ Coming(flight', {"listProviders"}, "screen") \/ Fits(ui'.rows, db[Providers]) \/ Refetching(flight')
    BY <1>1, <1>5, <1>6 DEF ProvidersTrue
  <2> QED BY <2>1, <2>3, <2>4 DEF ProvidersTrue
<1> QED BY <1>7, <1>8

-----------------------------------------------------------------------------
(* The library.                                                            *)

(* Loads whose answer will be shown. *)
Latest(f, fn) == {i \in Slots : f[i].fn = fn /\ f[i].latest}

(* A write, and what its answer says of its row. *)
WriteTrue(r, content, ahead) ==
  /\ Target(r) \in DOMAIN content \ ahead
  /\ r.fn # "deleteTemplate" => r.value # 0 /\ (r.memo = "create" <=> r.fn = "createTemplate")
  /\ r.reply[1] = "ok" =>
       /\ content[Target(r)] = IF r.fn = "deleteTemplate" THEN 0 ELSE r.value
       /\ r.fn # "deleteTemplate" => r.reply[2] = <<Target(r), r.value>>
  /\ r.fn = "createTemplate" /\ r.reply[1] # "ok" => content[Target(r)] = 0

(* Every row but those whose write has not been answered. *)
LibraryShown(rows, f, content) ==
  /\ Near(rows, content)
  /\ \A i \in Slots : f[i].fn = "createTemplate" => Target(f[i]) \notin RowsOf(rows)
  /\ \A i \in Slots : f[i].fn = "updateTemplate" /\ f[i].reply[1] = "ok" => f[i].row \in RowsOf(rows)
  /\ \A x \in DOMAIN content :
       \/ \E i \in Slots : f[i].fn \in LibraryWrites /\ f[i].reply[1] = "ok" /\ Target(f[i]) = x
       \/ Agrees(rows, content, x)

(* The dialog is of a row that no write in flight makes. *)
DialogTrue(d, f, content, ahead) ==
  /\ d.row \notin ahead
  /\ d.kind \in {"edit", "delete"} => d.row \in DOMAIN content
  /\ \A i \in Slots : f[i].fn = "createTemplate" => Target(f[i]) # d.row

LibraryTrue(u, f, content, ahead) ==
  /\ \A i, j \in Latest(f, "listTemplateLibrary") : i = j
  /\ \A i \in Latest(f, "listTemplateLibrary") :
       u.loading /\ (f[i].reply[1] = "ok" => Fits(f[i].reply[2], content))
  /\ \A i \in Slots : f[i].fn \in LibraryWrites => WriteTrue(f[i], content, ahead)
  /\ \A i, j \in Slots : f[i].fn \in LibraryWrites /\ f[j].fn \in LibraryWrites /\ Target(f[i]) = Target(f[j]) => i = j
  /\ DialogTrue(u.dialog, f, content, ahead)
  /\ u.loading \/ u.failed \/ LibraryShown(u.rows, f, content)

(* Ids are positive numbers. *)
LEMMA LibraryIds == RowOf(Library) \subseteq Nat \ {0}
BY RowsOfTable DEF Table

(* Requests of the library that stay as they are. *)
LEMMA TargetsStay ==
  ASSUME NEW f, NEW g, NEW gone, NEW parts, NEW fns, NEW new, Turns(f, g, gone, parts, fns, new),
         NEW i \in Slots, g[i].fn \in LibraryWrites, g[i] \notin new
  PROVE  /\ f[i].fn = g[i].fn /\ f[i].reply = g[i].reply /\ f[i].row = g[i].row /\ Target(f[i]) = Target(g[i])
         /\ \A content, ahead : WriteTrue(f[i], content, ahead) <=> WriteTrue(g[i], content, ahead)
<1>1. g[i].fn # "none"
  BY DEF LibraryWrites
<1>2. /\ f[i].fn = g[i].fn /\ f[i].row = g[i].row /\ f[i].value = g[i].value
      /\ f[i].memo = g[i].memo /\ f[i].reply = g[i].reply
  BY <1>1, SentOrStayed
<1>3. Target(f[i]) = Target(g[i])
  BY <1>2 DEF Target
<1> QED BY <1>2, <1>3 DEF WriteTrue

(* The rows that are shown stay as they should be. *)
LEMMA ShownStays ==
  ASSUME NEW f, NEW g, NEW gone, NEW parts, NEW fns, NEW new, Turns(f, g, gone, parts, fns, new),
         NEW rows, NEW content, LibraryShown(rows, f, content),
         \A i \in gone : f[i].fn \in LibraryWrites => f[i].reply[1] # "ok",
         \A r \in new : r.reply = Pending /\ (r.fn = "createTemplate" => Target(r) \notin RowsOf(rows))
  PROVE  LibraryShown(rows, g, content)
<1>1. \A i \in Slots : g[i].fn = "createTemplate" => Target(g[i]) \notin RowsOf(rows)
  BY TargetsStay DEF LibraryWrites, LibraryShown
<1>2. ASSUME NEW i \in Slots, g[i].fn = "updateTemplate", g[i].reply[1] = "ok" PROVE g[i].row \in RowsOf(rows)
  <2>1. g[i] \notin new
    BY <1>2 DEF Pending
  <2> QED BY <1>2, <2>1, TargetsStay DEF LibraryWrites, LibraryShown
<1>3. ASSUME NEW x \in DOMAIN content
      PROVE  \/ \E i \in Slots : g[i].fn \in LibraryWrites /\ g[i].reply[1] = "ok" /\ Target(g[i]) = x
             \/ Agrees(rows, content, x)
  <2>1. SUFFICES ASSUME NEW i \in Slots, f[i].fn \in LibraryWrites, f[i].reply[1] = "ok", Target(f[i]) = x
                 PROVE  g[i].fn \in LibraryWrites /\ g[i].reply[1] = "ok" /\ Target(g[i]) = x
    BY DEF LibraryShown
  <2>2. i \notin gone /\ f[i] # Idle /\ Writing(f[i])
    BY <2>1 DEF LibraryWrites, Idle, Writing, Verb
  <2>3. g[i].fn = f[i].fn /\ g[i].row = f[i].row /\ g[i].value = f[i].value /\ g[i].reply = f[i].reply
    BY <2>2, WritesStay
  <2> QED BY <2>1, <2>3 DEF Target
<1> QED BY <1>1, <1>2, <1>3 DEF LibraryShown

(* Only the dialog changes, or a request comes to nothing. *)
LEMMA LibraryStays ==
  ASSUME NEW f, NEW g, NEW gone, NEW parts, NEW fns, Turns(f, g, gone, parts, fns, {}),
         NEW u, NEW v, NEW content, NEW ahead, LibraryTrue(u, f, content, ahead),
         \A i \in gone : f[i].fn \in LibraryWrites => f[i].reply[1] # "ok",
         v.loading = u.loading, v.failed = u.failed, v.rows = u.rows, DialogTrue(v.dialog, f, content, ahead)
  PROVE  LibraryTrue(v, g, content, ahead)
<1>1. ASSUME NEW i \in Slots, g[i].fn = "listTemplateLibrary", g[i].latest
      PROVE  f[i].fn = "listTemplateLibrary" /\ f[i].latest /\ f[i].reply = g[i].reply
  BY <1>1, SentOrStayed
<1>2. ASSUME NEW i \in Slots, g[i].fn \in LibraryWrites
      PROVE  f[i].fn = g[i].fn /\ Target(f[i]) = Target(g[i]) /\ WriteTrue(g[i], content, ahead)
  <2>1. f[i].fn = g[i].fn /\ Target(f[i]) = Target(g[i]) /\ (WriteTrue(f[i], content, ahead) <=> WriteTrue(g[i], content, ahead))
    BY <1>2, TargetsStay
  <2> QED BY <1>2, <2>1 DEF LibraryTrue
<1>3. DialogTrue(v.dialog, g, content, ahead)
  BY <1>2 DEF DialogTrue, LibraryWrites
<1>4. v.loading \/ v.failed \/ LibraryShown(v.rows, g, content)
  <2>1. \A r \in {} : r.reply = Pending /\ (r.fn = "createTemplate" => Target(r) \notin RowsOf(u.rows))
    OBVIOUS
  <2>2. LibraryShown(u.rows, f, content) => LibraryShown(u.rows, g, content)
    BY <2>1, ShownStays
  <2> QED BY <2>2 DEF LibraryTrue
<1>5. \A i, j \in Latest(g, "listTemplateLibrary") : i = j
  BY <1>1 DEF LibraryTrue, Latest
<1>6. \A i \in Latest(g, "listTemplateLibrary") :
        v.loading /\ (g[i].reply[1] = "ok" => Fits(g[i].reply[2], content))
  BY <1>1 DEF LibraryTrue, Latest
<1>7. \A i, j \in Slots : g[i].fn \in LibraryWrites /\ g[j].fn \in LibraryWrites /\ Target(g[i]) = Target(g[j]) => i = j
  BY <1>2 DEF LibraryTrue
<1> QED BY <1>2, <1>3, <1>4, <1>5, <1>6, <1>7 DEF LibraryTrue

(* The load is answered. *)
LEMMA LibraryLoadedTrue ==
  ASSUME Inv, Clear(ui, flight), ui.at = "library", LibraryTrue(ui, flight, db[Library], Ahead),
         NEW i \in Slots, LibraryLoaded(i)
  PROVE  LibraryTrue(ui', flight', db'[Library], Ahead')
<1> DEFINE content == db[Library]
<1>1. /\ flight[i].fn = "listTemplateLibrary" /\ Flights(flight) /\ flight[i] # Idle /\ flight[i].latest \in BOOLEAN
      /\ DOMAIN ui = {"at", "loading", "failed", "rows", "dialog", "busy"}
  BY AtLibrary DEF LibraryLoaded, Answered, Flights, IsRequest
<1>2. PICK v : Client(v, Done(i)) /\ v = CASE ~flight[i].latest -> ui
              [] flight[i].latest /\ Got(i) -> [ui EXCEPT !.rows = Result(i), !.loading = FALSE]
              [] OTHER -> [ui EXCEPT !.loading = FALSE, !.failed = TRUE]
  BY DEF LibraryLoaded
<1>3. ui' = v /\ flight' = Done(i) /\ db'[Library] = content /\ Ahead' = Ahead
  BY <1>2 DEF Client, serverVars, countVars, Ahead
<1>4. Turns(flight, flight', {i}, {}, {}, {})
  BY <1>1, <1>3, DoneTurns
<1>5. \A k \in {i} : flight[k].fn \in LibraryWrites => flight[k].reply[1] # "ok"
  BY <1>1 DEF LibraryWrites
<1> DEFINE ahead == Ahead
<1> HIDE DEF content, ahead
<1>6. LibraryTrue(ui, flight, content, ahead) /\ DialogTrue(ui.dialog, flight, content, ahead)
  BY DEF LibraryTrue, content, ahead
<1>7. CASE ~flight[i].latest
  <2>1. v = ui
    BY <1>2, <1>7
  <2>2. LibraryTrue(ui, flight', content, ahead)
    BY <1>4, <1>5, <1>6, LibraryStays
  <2> QED BY <1>3, <2>1, <2>2 DEF ahead
<1>8. CASE flight[i].latest
  <2>1. ui.loading /\ (Got(i) => Fits(flight[i].reply[2], content))
    BY <1>1, <1>6, <1>8 DEF LibraryTrue, Latest, Got
  <2>2. \A k \in Slots : flight[k].fn \notin LibraryWrites
    BY <2>1 DEF Clear
  <2>3. v.dialog = ui.dialog /\ (v.failed \/ (Got(i) /\ v.rows = flight[i].reply[2]))
    <3>1. CASE Got(i)
      <4>1. v = [ui EXCEPT !.rows = Result(i), !.loading = FALSE]
        BY <1>2, <1>8, <3>1
      <4> QED BY <1>1, <3>1, <4>1 DEF Result
    <3>2. CASE ~Got(i)
      <4>1. v = [ui EXCEPT !.loading = FALSE, !.failed = TRUE]
        BY <1>2, <1>8, <3>2
      <4> QED BY <1>1, <4>1
    <3> QED BY <3>1, <3>2
  <2>4. ASSUME NEW k \in Slots, flight'[k].fn = "listTemplateLibrary" PROVE ~flight'[k].latest
    <3>1. k # i /\ flight[k].fn = "listTemplateLibrary" /\ (flight'[k].latest => flight[k].latest)
      BY <1>4, <2>4, SentOrStayed
    <3> QED BY <1>1, <1>6, <1>8, <3>1 DEF LibraryTrue, Latest
  <2>5. \A k \in Slots : flight'[k].fn \notin LibraryWrites
    BY <1>4, <2>2, TargetsStay
  <2>6. LibraryShown(flight[i].reply[2], flight', content) \/ ~Got(i)
    BY <2>1, <2>5, FitsIsNear DEF LibraryShown, LibraryWrites
  <2>7. DialogTrue(v.dialog, flight', content, ahead)
    BY <1>6, <2>3, <2>5 DEF DialogTrue, LibraryWrites
  <2>8. v.loading \/ v.failed \/ LibraryShown(v.rows, flight', content)
    BY <2>3, <2>6
  <2>9. LibraryTrue(v, flight', content, ahead)
    BY <2>4, <2>5, <2>7, <2>8 DEF LibraryTrue, Latest
  <2> QED BY <1>3, <2>9 DEF ahead
<1> QED BY <1>1, <1>7, <1>8

(* What is loaded again is the only one of its kind that counts. *)
LEMMA Reloaded ==
  ASSUME NEW f, Flights(f), FreeSlots(f) # {}, NEW fns, "none" \notin fns, NEW r, IsRequest(r)
  PROVE  \E k \in Slots : LET g == Send(Supersede(f, fns), r)
                          IN /\ g[k] = r /\ f[k] = Idle
                             /\ \A i \in Slots : g[i].fn \in fns /\ g[i].latest => i = k
<1> DEFINE h == Supersede(f, fns)
<1>1. /\ Flights(h) /\ \A i \in Slots : f[i] = Idle <=> h[i] = Idle
      /\ \A i \in Slots : f[i] # Idle => Same(f[i], h[i]) /\ (h[i].latest <=> f[i].latest /\ f[i].fn \notin fns)
  BY Superseded
<1> HIDE DEF h
<1>2. FreeSlots(h) # {}
  BY <1>1 DEF FreeSlots, Flights
<1>3. PICK k \in Slots : h[k] = Idle /\ Send(h, r) = [h EXCEPT ![k] = r]
  BY <1>1, <1>2, Sent
<1> DEFINE g == Send(h, r)
<1>4. g[k] = r /\ f[k] = Idle /\ \A i \in Slots : i # k => g[i] = h[i]
  BY <1>1, <1>3 DEF Flights
<1> HIDE DEF g
<1>5. ASSUME NEW i \in Slots, g[i].fn \in fns, g[i].latest PROVE i = k
  <2>1. SUFFICES ASSUME i # k PROVE FALSE
    OBVIOUS
  <2>2. h[i].fn \in fns /\ h[i].latest /\ f[i] # Idle
    BY <1>1, <1>4, <1>5, <2>1, IdleIsNone
  <2> QED BY <1>1, <2>2 DEF Same
<1> QED BY <1>4, <1>5 DEF g, h

(* The library is loaded again. *)
LEMMA RetryLibraryTrue ==
  ASSUME Inv, Clear(ui, flight), Clear(ui', flight'), ui.at = "library", LibraryTrue(ui, flight, db[Library], Ahead), RetryLibrary
  PROVE  LibraryTrue(ui', flight', db'[Library], Ahead')
<1> DEFINE r == ListTemplates
           g == Supersede(flight, {"listTemplateLibrary"})
           v == [ui EXCEPT !.loading = TRUE, !.failed = FALSE]
           content == db[Library]
           ahead == Ahead
<1>1. /\ Flights(flight) /\ token \in Nat /\ DOMAIN ui = {"at", "loading", "failed", "rows", "dialog", "busy"}
  BY AtLibrary
<1>2. ui' = v /\ flight' = Send(g, r) /\ db'[Library] = content /\ Ahead' = ahead
  BY DEF RetryLibrary, Client, serverVars, countVars, Ahead
<1>3. v.loading /\ v.dialog = ui.dialog /\ v.at = ui.at
  BY <1>1
<1>4. New(r) /\ r.fn = "listTemplateLibrary"
  BY <1>1, ListTemplatesIs
<1>5. Turns(flight, flight', {}, {}, {"listTemplateLibrary"}, {r})
  BY <1>1, <1>2, <1>4, RoomIsFree, ReloadTurns DEF RetryLibrary, New
<1>6. PICK k \in Slots : /\ flight'[k] = r
                         /\ \A i \in Slots : flight'[i].fn = "listTemplateLibrary" /\ flight'[i].latest => i = k
  <2>1. FreeSlots(flight) # {} /\ "none" \notin {"listTemplateLibrary"} /\ IsRequest(r)
    BY <1>1, <1>4, RoomIsFree DEF RetryLibrary, New
  <2> HIDE DEF r
  <2>2. PICK k \in Slots : /\ flight'[k] = r
                           /\ \A i \in Slots : flight'[i].fn \in {"listTemplateLibrary"} /\ flight'[i].latest => i = k
    BY <1>1, <1>2, <2>1, Reloaded
  <2> QED BY <2>2
<1>7. DialogTrue(ui.dialog, flight, content, ahead) /\ LibraryTrue(ui, flight, content, ahead)
  BY DEF LibraryTrue
<1>8. \A i \in Slots : flight'[i].fn \notin LibraryWrites
  <2>1. ui'.at = "library" /\ ui'.loading
    BY <1>2, <1>3
  <2> QED BY <2>1 DEF Clear
<1> HIDE DEF r, g, v, content, ahead
<1>9. flight'[k].reply[1] # "ok"
  BY <1>4, <1>6 DEF New, Pending
<1>10. DialogTrue(v.dialog, flight', content, ahead)
  BY <1>3, <1>7, <1>8 DEF DialogTrue, LibraryWrites
<1>11. LibraryTrue(v, flight', content, ahead)
  BY <1>3, <1>6, <1>8, <1>9, <1>10 DEF LibraryTrue, Latest
<1> QED BY <1>2, <1>11 DEF content, ahead

(* Of a row that is still to be made nothing is shown. *)
LEMMA ShownBehind ==
  ASSUME NEW rows, NEW f, NEW content, NEW ahead, LibraryShown(rows, f, content), \A x \in ahead : content[x] = 0,
         \A i \in Slots : f[i].fn \in LibraryWrites => WriteTrue(f[i], content, ahead), NEW x \in RowsOf(rows)
  PROVE  x \in DOMAIN content \ ahead
<1>1. PICK n \in DOMAIN rows : x = rows[n][1]
  BY DEF RowsOf
<1>2. rows[n] \in Row
  BY <1>1 DEF LibraryShown, Near
<1>3. rows[n] = <<x, rows[n][2]>> /\ rows[n][2] \in Nat /\ rows[n] \in ToSet(rows)
  BY <1>1, <1>2 DEF Row, ToSet
<1>4. x \in DOMAIN content
  BY DEF LibraryShown, Near
<1>5. SUFFICES ASSUME x \in ahead PROVE FALSE
  BY <1>4
<1>6. ~Agrees(rows, content, x)
  BY <1>3, <1>5 DEF Agrees
<1>7. PICK i \in Slots : f[i].fn \in LibraryWrites /\ Target(f[i]) = x
  BY <1>4, <1>6 DEF LibraryShown
<1> QED BY <1>5, <1>7 DEF WriteTrue

(* The dialogs are opened and closed. *)
LEMMA TemplateDialogTrue ==
  ASSUME Inv, ui.at = "library", LibraryTrue(ui, flight, db[Library], Ahead),
         NEW d, DialogTrue(d, flight, db[Library], Ahead), NEW f, NEW parts, Turns(flight, f, {}, parts, {}, {}),
         Client([ui EXCEPT !.dialog = d, !.busy = {}], f)
  PROVE  LibraryTrue(ui', flight', db'[Library], Ahead')
<1> DEFINE content == db[Library]
           ahead == Ahead
           v == [ui EXCEPT !.dialog = d, !.busy = {}]
<1>1. DOMAIN ui = {"at", "loading", "failed", "rows", "dialog", "busy"}
  BY AtLibrary
<1>2. v.loading = ui.loading /\ v.failed = ui.failed /\ v.rows = ui.rows /\ v.dialog = d
  BY <1>1
<1>3. ui' = v /\ flight' = f /\ db'[Library] = content /\ Ahead' = ahead
  BY DEF Client, serverVars, countVars, Ahead
<1>4. LibraryTrue(ui, flight, content, ahead) /\ DialogTrue(d, flight, content, ahead)
  OBVIOUS
<1> HIDE DEF v, content, ahead
<1>5. \A i \in {} : flight[i].fn \in LibraryWrites => flight[i].reply[1] # "ok"
  OBVIOUS
<1>6. LibraryTrue(v, f, content, ahead)
  BY <1>2, <1>4, <1>5, LibraryStays
<1> QED BY <1>3, <1>6 DEF content, ahead

(* A dialog is opened over a row that is shown. *)
LEMMA OpenTemplateDialogTrue ==
  ASSUME Inv, Clear(ui, flight), Numbered, ui.at = "library", LibraryTrue(ui, flight, db[Library], Ahead),
         NEW kind \in {"create", "edit", "delete"}, NEW row \in RowOf(Library) \cup {0}, OpenTemplateDialog(kind, row)
  PROVE  LibraryTrue(ui', flight', db'[Library], Ahead')
<1> DEFINE content == db[Library]
           ahead == Ahead
           d == Dialog(kind, row)
<1>1. Turns(flight, flight, {}, {}, {}, {})
  BY TurnsAsIs DEF Inv, Calls, CallsTyped
<1>2. writes \in Nat /\ Flights(flight) /\ DbTyped /\ Library \in Table
  BY DEF Inv, Calls, CallsTyped, Table
<1>3. \A i \in Slots : flight[i].fn = "createTemplate" => Target(flight[i]) # 0
  BY <1>2 DEF Target, Verb, Flights, IsRequest, Idle
<1>4. 0 \notin ahead
  BY <1>2, ConsoleAssumption DEF Ahead
<1>5. CASE kind = "create"
  <2>1. row = 0
    BY <1>5 DEF OpenTemplateDialog
  <2> HIDE DEF content, ahead
  <2>2. DialogTrue(d, flight, content, ahead)
    BY <1>3, <1>4, <1>5, <2>1 DEF DialogTrue, Dialog
  <2> HIDE DEF d
  <2> QED BY <1>1, <2>2, TemplateDialogTrue DEF OpenTemplateDialog, content, ahead, d
<1>6. CASE kind # "create"
  <2>1. ~ui.loading /\ ~ui.failed /\ row \in RowsOf(ui.rows)
    BY <1>6 DEF OpenTemplateDialog, Ready
  <2>2. LibraryTrue(ui, flight, content, ahead) /\ \A x \in ahead : content[x] = 0
    BY DEF Numbered
  <2> HIDE DEF content, ahead
  <2>3. /\ LibraryShown(ui.rows, flight, content)
        /\ \A i \in Slots : flight[i].fn \in LibraryWrites => WriteTrue(flight[i], content, ahead)
    BY <2>1, <2>2 DEF LibraryTrue
  <2>4. row \in DOMAIN content \ ahead
    BY <2>1, <2>2, <2>3, ShownBehind
  <2>5. DialogTrue(d, flight, content, ahead)
    BY <2>1, <2>3, <2>4 DEF DialogTrue, Dialog, LibraryShown
  <2> HIDE DEF d
  <2> QED BY <1>1, <2>5, TemplateDialogTrue DEF OpenTemplateDialog, content, ahead, d
<1> QED BY <1>5, <1>6

(* Or closed. *)
LEMMA CloseTemplateDialogTrue ==
  ASSUME Inv, ui.at = "library", LibraryTrue(ui, flight, db[Library], Ahead), CloseTemplateDialog
  PROVE  LibraryTrue(ui', flight', db'[Library], Ahead')
<1> DEFINE content == db[Library]
           ahead == Ahead
<1>1. writes \in Nat /\ Flights(flight)
  BY DEF Inv, Calls, CallsTyped
<1>2. \A i \in Slots : flight[i].fn = "createTemplate" => Target(flight[i]) # 0
  BY <1>1 DEF Target, Verb, Flights, IsRequest, Idle
<1>3. 0 \notin ahead
  BY <1>1, ConsoleAssumption DEF Ahead
<1>4. Turns(flight, Unmount(flight, {"dialog"}), {}, {"dialog"}, {}, {})
  BY <1>1, UnmountTurns
<1> HIDE DEF content, ahead
<1>5. DialogTrue(Closed, flight, content, ahead)
  BY <1>2, <1>3 DEF DialogTrue, Closed
<1>6. Client([ui EXCEPT !.dialog = Closed, !.busy = {}], Unmount(flight, {"dialog"}))
  BY DEF CloseTemplateDialog, Shut
<1> QED BY <1>4, <1>5, <1>6, TemplateDialogTrue DEF content, ahead

(* A click sends one request. *)
LEMMA ClickSends ==
  ASSUME Inv, NEW v, NEW r, Click(v, r)
  PROVE  /\ ui' = v /\ UNCHANGED <<db, expired, token, refused>> /\ writes < MaxWrites /\ writes' = writes + 1
         /\ \E k \in Slots : flight[k] = Idle /\ flight'[k] = r /\ \A j \in Slots : j # k => flight'[j] = flight[j]
<1>1. Flights(flight) /\ FreeSlots(flight) # {}
  BY RoomIsFree DEF Inv, Calls, CallsTyped, Click
<1>2. PICK k \in Slots : flight[k] = Idle /\ flight' = [flight EXCEPT ![k] = r]
  BY <1>1, Sent DEF Click
<1>3. flight'[k] = r /\ \A j \in Slots : j # k => flight'[j] = flight[j]
  BY <1>1, <1>2 DEF Flights
<1> QED BY <1>2, <1>3 DEF Click, serverVars

(* A template is to be written. *)
LEMMA TemplateClickTrue ==
  ASSUME Inv, Clear(ui, flight), Clear(ui', flight'), Numbered, ui.at = "library",
         LibraryTrue(ui, flight, db[Library], Ahead), NEW b, NEW r, New(r), Click([ui EXCEPT !.busy = b], r),
         r.fn \in LibraryWrites, r.fn # "deleteTemplate" => r.value = Fresh /\ (r.memo = "create" <=> r.fn = "createTemplate"),
         r.fn # "createTemplate" => r.row = ui.dialog.row /\ ui.dialog.kind \in {"edit", "delete"}
  PROVE  LibraryTrue(ui', flight', db'[Library], Ahead')
<1> DEFINE content == db[Library]
           ahead == Ahead
           next == Ahead'
           v == [ui EXCEPT !.busy = b]
           x == Target(r)
<1>1. /\ ui' = v /\ db'[Library] = content /\ writes < MaxWrites /\ writes' = writes + 1
      /\ \E k \in Slots : flight[k] = Idle /\ flight'[k] = r /\ \A j \in Slots : j # k => flight'[j] = flight[j]
  BY ClickSends
<1>2. PICK k \in Slots : flight[k] = Idle /\ flight'[k] = r /\ \A j \in Slots : j # k => flight'[j] = flight[j]
  BY <1>1
<1>3. DOMAIN ui = {"at", "loading", "failed", "rows", "dialog", "busy"}
  BY AtLibrary
<1>4. v.at = "library" /\ v.loading = ui.loading /\ v.failed = ui.failed /\ v.rows = ui.rows /\ v.dialog = ui.dialog
  BY <1>3
<1>5. writes \in Nat /\ MaxWrites \in Nat /\ DbTyped /\ DOMAIN content = RowOf(Library) /\ Flights(flight)
  BY ConsoleAssumption DEF Inv, Calls, CallsTyped, DbTyped, Table
<1>6. ahead \subseteq DOMAIN content
  BY <1>5, ConsoleAssumption DEF Ahead, RowOf, Library, T
<1>7. next = ahead \ {writes + 3} /\ writes + 3 \in ahead
  BY <1>1, <1>5 DEF Ahead
<1>8. /\ LibraryTrue(ui, flight, content, ahead) /\ \A y \in ahead : content[y] = 0
      /\ 0 \notin DOMAIN content
  BY <1>5, LibraryIds DEF Numbered
<1>9. Fresh + 1 = writes + 3 /\ Fresh # 0
  BY <1>5 DEF Fresh
<1>10. r.reply[1] # "ok" /\ r.table = Library /\ IsRequest(r)
  BY DEF New, Pending, Asked, TableOf
<1>11. x = IF r.fn = "createTemplate" THEN writes + 3 ELSE ui.dialog.row
  BY <1>9 DEF Target, Verb, LibraryWrites
<1>12. ~ui.loading
  BY <1>1, <1>2, <1>4 DEF Clear
<1> HIDE DEF content, ahead, next, v, x
<1>13. x \in DOMAIN content \ next
  BY <1>6, <1>7, <1>8, <1>11 DEF LibraryTrue, DialogTrue
<1>14. WriteTrue(r, content, next)
  BY <1>7, <1>8, <1>9, <1>10, <1>11, <1>13 DEF WriteTrue, LibraryWrites, x
<1>15. ASSUME NEW j \in Slots, j # k, flight[j].fn \in LibraryWrites
       PROVE  WriteTrue(flight[j], content, next) /\ Target(flight[j]) # x
  <2>1. WriteTrue(flight[j], content, ahead)
    BY <1>8, <1>15 DEF LibraryTrue
  <2>2. WriteTrue(flight[j], content, next)
    BY <1>7, <2>1 DEF WriteTrue
  <2>3. ASSUME Target(flight[j]) = x PROVE FALSE
    <3>1. CASE r.fn = "createTemplate"
      BY <1>7, <1>11, <2>1, <2>3, <3>1 DEF WriteTrue
    <3>2. CASE r.fn # "createTemplate" /\ flight[j].fn = "createTemplate"
      BY <1>8, <1>11, <2>3, <3>2 DEF LibraryTrue, DialogTrue
    <3>3. CASE r.fn # "createTemplate" /\ flight[j].fn # "createTemplate"
      <4>1. flight[j].row = r.row /\ r.row # 0
        BY <1>8, <1>11, <1>13, <1>15, <2>3, <3>3 DEF Target, Verb, LibraryWrites, x
      <4>2. flight[j] # Idle
        BY <1>15 DEF Idle, LibraryWrites
      <4>3. flight[j].table = Library
        BY <1>15, <4>2 DEF Inv, Calls, CallsTyped, Asked, TableOf
      <4>4. Writes(r) /\ Writes(flight[j])
        BY <1>10, <1>15, <4>2, IdleIsNone DEF Writes, Writing, Verb, LibraryWrites
      <4>5. Writes(flight'[k]) /\ Writes(flight'[j]) /\ flight'[k].row # 0
            /\ flight'[k].table = flight'[j].table /\ flight'[k].row = flight'[j].row
        BY <1>2, <1>10, <1>15, <4>1, <4>3, <4>4
      <4> QED BY <1>15, <4>5 DEF Clear
    <3> QED BY <3>1, <3>2, <3>3
  <2> QED BY <2>2, <2>3
<1>16. \A i \in Slots : flight'[i].fn \in LibraryWrites => WriteTrue(flight'[i], content, next)
  BY <1>2, <1>14, <1>15
<1>17. \A i, j \in Slots : flight'[i].fn \in LibraryWrites /\ flight'[j].fn \in LibraryWrites /\ Target(flight'[i]) = Target(flight'[j]) => i = j
  BY <1>2, <1>8, <1>15 DEF LibraryTrue, x
<1>18. DialogTrue(v.dialog, flight', content, next)
  <2>1. DialogTrue(ui.dialog, flight, content, ahead)
    BY <1>8 DEF LibraryTrue
  <2>2. r.fn = "createTemplate" => x # ui.dialog.row
    BY <1>7, <1>11, <2>1 DEF DialogTrue
  <2> QED BY <1>2, <1>4, <1>7, <2>1, <2>2 DEF DialogTrue, x
<1>19. \A i \in Latest(flight', "listTemplateLibrary") : FALSE
  BY <1>2, <1>8, <1>12 DEF LibraryTrue, Latest, LibraryWrites
<1>20. v.failed \/ LibraryShown(v.rows, flight', content)
  <2>1. SUFFICES ASSUME LibraryShown(ui.rows, flight, content) PROVE LibraryShown(ui.rows, flight', content)
    BY <1>4, <1>8, <1>12 DEF LibraryTrue
  <2>2. r.fn = "createTemplate" => x \notin RowsOf(ui.rows)
    BY <1>7, <1>8, <1>11, <2>1, ShownBehind DEF LibraryTrue
  <2>3. \A i \in Slots : flight[i].fn \in LibraryWrites => flight'[i] = flight[i]
    BY <1>2 DEF Idle, LibraryWrites
  <2>4. \A y \in DOMAIN content :
          (\E i \in Slots : flight[i].fn \in LibraryWrites /\ flight[i].reply[1] = "ok" /\ Target(flight[i]) = y) =>
          (\E i \in Slots : flight'[i].fn \in LibraryWrites /\ flight'[i].reply[1] = "ok" /\ Target(flight'[i]) = y)
    BY <2>3
  <2>5. \A i \in Slots : flight'[i].fn = "createTemplate" => Target(flight'[i]) \notin RowsOf(ui.rows)
    BY <1>2, <2>1, <2>2 DEF LibraryShown, x
  <2>6. \A i \in Slots : flight'[i].fn = "updateTemplate" /\ flight'[i].reply[1] = "ok" => flight'[i].row \in RowsOf(ui.rows)
    BY <1>2, <1>10, <2>1 DEF LibraryShown
  <2> QED BY <2>1, <2>4, <2>5, <2>6 DEF LibraryShown
<1>21. LibraryTrue(v, flight', content, next)
  BY <1>16, <1>17, <1>18, <1>19, <1>20 DEF LibraryTrue
<1> QED BY <1>1, <1>21 DEF content, next

(* The buttons of its dialogs. *)
LEMMA TemplateClicksTrue ==
  ASSUME Inv, Clear(ui, flight), Clear(ui', flight'), Numbered, ui.at = "library",
         LibraryTrue(ui, flight, db[Library], Ahead), SaveTemplate \/ DeleteTemplate
  PROVE  LibraryTrue(ui', flight', db'[Library], Ahead')
<1>1. /\ token \in Nat /\ Fresh \in Nat /\ 0 \in Nat /\ ui.dialog.row \in Nat
      /\ {"screen"} \in SUBSET Parts /\ {"screen", "dialog"} \in SUBSET Parts
  BY AtLibrary DEF Inv, Calls, CallsTyped, Fresh, LibraryTyped, IsDialog, Parts
<1>2. CASE SaveTemplate
  <2> DEFINE fn == IF ui.dialog.kind = "create" THEN "createTemplate" ELSE "updateTemplate"
             r == Call(fn, Library, ui.dialog.row, Fresh, {"screen", "dialog"}, ui.dialog.kind)
  <2>1. /\ fn \in {"createTemplate", "updateTemplate"} /\ fn \in LibraryWrites /\ ui.dialog.kind \in {"create", "edit"}
        /\ fn = "createTemplate" <=> ui.dialog.kind = "create"
    BY <1>2 DEF LibraryWrites, SaveTemplate
  <2>2. Click([ui EXCEPT !.busy = {"save"}], r)
    BY <1>2 DEF SaveTemplate
  <2> HIDE DEF fn
  <2>3. New(r)
    BY <1>1, <2>1, TemplateWrites
  <2>4. r.fn = fn /\ r.row = ui.dialog.row /\ r.value = Fresh /\ r.memo = ui.dialog.kind
    BY DEF Call
  <2> HIDE DEF r
  <2>5. /\ r.fn \in LibraryWrites /\ r.fn # "deleteTemplate" => r.value = Fresh /\ (r.memo = "create" <=> r.fn = "createTemplate")
        /\ r.fn # "createTemplate" => r.row = ui.dialog.row /\ ui.dialog.kind \in {"edit", "delete"}
    BY <2>1, <2>4
  <2>6. r.fn \in LibraryWrites
    BY <2>1, <2>4
  <2> QED BY <2>2, <2>3, <2>5, <2>6, TemplateClickTrue
<1>3. CASE DeleteTemplate
  <2> DEFINE r == Call("deleteTemplate", Library, ui.dialog.row, 0, {"screen"}, 0)
  <2>1. "deleteTemplate" \in LibraryWrites /\ ui.dialog.kind = "delete"
    BY <1>3 DEF LibraryWrites, DeleteTemplate
  <2>2. Click([ui EXCEPT !.busy = {"delete"}], r)
    BY <1>3 DEF DeleteTemplate
  <2>3. New(r)
    BY <1>1, <2>1, TemplateWrites
  <2>4. r.fn = "deleteTemplate" /\ r.row = ui.dialog.row
    BY DEF Call
  <2> HIDE DEF r
  <2> QED BY <2>1, <2>2, <2>3, <2>4, TemplateClickTrue
<1> QED BY <1>2, <1>3

(* The server takes a request of the library. *)
LEMMA LibraryServedTrue ==
  ASSUME Inv, Clear(ui, flight), ui.at = "library", LibraryTrue(ui, flight, db[Library], Ahead),
         NEW i \in Slots, NEW reply, Served(i, reply)
  PROVE  LibraryTrue(ui', flight', db'[Library], Ahead')
<1> DEFINE content == db[Library]
           after == db'[Library]
           ahead == Ahead
           r == flight[i]
           s == flight'[i]
           x == Target(r)
<1>1. /\ r # Idle /\ IsRequest(r) /\ Asked(r) /\ r.reply = Pending /\ ui' = ui /\ Ahead' = ahead
      /\ s.fn = r.fn /\ s.row = r.row /\ s.value = r.value /\ s.memo = r.memo /\ s.latest = r.latest /\ s.reply = reply
      /\ \A j \in Slots : j # i => flight'[j] = flight[j]
  BY DEF Served, Ahead
<1>2. DbTyped /\ Library \in Table
  BY DEF Inv, Calls, CallsTyped, Table
<1>3. Content(Library) = content
  BY DEF Content, Library, T
<1>4. r.fn \in {"listTemplateLibrary"} \cup LibraryWrites
  BY <1>1, OfTheScreen
<1>5. Target(s) = x /\ r.reply[1] # "ok" /\ r.table = Library
  BY <1>1, <1>4 DEF Target, Pending, Asked, TableOf
<1>6. LibraryTrue(ui, flight, content, ahead)
  OBVIOUS
<1>7. CASE r.fn = "listTemplateLibrary" \/ reply[1] # "ok"
  <2>1. after = content
    <3>1. CASE reply = OK(Body(r))
      <4>1. r.fn = "listTemplateLibrary"
        BY <1>7, <3>1 DEF OK
      <4>2. ~Writing(r)
        BY <4>1 DEF Writing, Verb
      <4>3. reply # Error /\ reply # Unauthorized /\ reply # NotFound
        BY <3>1 DEF OK, Error, Unauthorized, NotFound
      <4> QED BY <4>2, <4>3, ReadIs DEF Served
    <3>2. CASE reply # OK(Body(r))
      BY <3>2 DEF Served
    <3> QED BY <3>1, <3>2
  <2>2. ASSUME r.fn = "listTemplateLibrary", reply[1] = "ok" PROVE Fits(reply[2], content)
    <3>1. reply = OK(Body(r))
      BY <2>2 DEF Served, Error, Unauthorized, NotFound
    <3>2. Body(r) = Listing(r.table)
      BY <1>1, <2>2 DEF Body, Verb
    <3>3. reply[2] = Listing(Library)
      BY <1>5, <3>1, <3>2 DEF OK
    <3> QED BY <1>2, <1>3, <3>3, ListingFits
  <2> HIDE DEF content, after, ahead, r, s, x
  <2>3. \A j \in Slots : /\ flight'[j].fn = flight[j].fn /\ (flight'[j].latest <=> flight[j].latest)
                         /\ flight'[j].row = flight[j].row /\ Target(flight'[j]) = Target(flight[j])
    BY <1>1, <1>5 DEF r, s, x
  <2>4. \A j \in Slots : flight[j].fn \in LibraryWrites => (flight'[j].reply[1] = "ok" <=> flight[j].reply[1] = "ok")
    BY <1>1, <1>5, <1>7 DEF r, s, LibraryWrites
  <2>5. ASSUME NEW j \in Slots, flight'[j].fn \in LibraryWrites PROVE WriteTrue(flight'[j], content, ahead)
    <3>1. WriteTrue(flight[j], content, ahead)
      BY <1>6, <2>3, <2>5 DEF LibraryTrue
    <3>2. j # i => flight'[j] = flight[j]
      BY <1>1
    <3>3. j = i => WriteTrue(s, content, ahead)
      BY <1>1, <1>5, <1>7, <2>3, <2>5, <3>1 DEF WriteTrue, r, s, x, LibraryWrites
    <3> QED BY <3>1, <3>2, <3>3 DEF s
  <2>6. \A j, k \in Latest(flight', "listTemplateLibrary") : j = k
    BY <1>6, <2>3 DEF LibraryTrue, Latest
  <2>7. \A j \in Latest(flight', "listTemplateLibrary") : ui.loading /\ (flight'[j].reply[1] = "ok" => Fits(flight'[j].reply[2], content))
    <3> SUFFICES ASSUME NEW j \in Latest(flight', "listTemplateLibrary")
                 PROVE  ui.loading /\ (flight'[j].reply[1] = "ok" => Fits(flight'[j].reply[2], content))
      OBVIOUS
    <3>1. j \in Latest(flight, "listTemplateLibrary")
      BY <2>3 DEF Latest
    <3>2. ui.loading /\ (flight[j].reply[1] = "ok" => Fits(flight[j].reply[2], content))
      BY <1>6, <3>1 DEF LibraryTrue
    <3>3. j = i => r.fn = "listTemplateLibrary"
      BY <3>1 DEF Latest, r
    <3> QED BY <1>1, <2>2, <3>2, <3>3 DEF s, Latest
  <2>8. \A j, k \in Slots : flight'[j].fn \in LibraryWrites /\ flight'[k].fn \in LibraryWrites /\ Target(flight'[j]) = Target(flight'[k]) => j = k
    BY <1>6, <2>3 DEF LibraryTrue
  <2>9. DialogTrue(ui.dialog, flight', content, ahead)
    BY <1>6, <2>3 DEF LibraryTrue, DialogTrue
  <2>10. LibraryShown(ui.rows, flight, content) => LibraryShown(ui.rows, flight', content)
    BY <2>3, <2>4 DEF LibraryShown, LibraryWrites
  <2>11. ui.loading \/ ui.failed \/ LibraryShown(ui.rows, flight', content)
    BY <1>6, <2>10 DEF LibraryTrue
  <2>12. LibraryTrue(ui, flight', content, ahead)
    BY <2>5, <2>6, <2>7, <2>8, <2>9, <2>11 DEF LibraryTrue
  <2> QED BY <1>1, <2>1, <2>12 DEF content, after
<1>8. CASE r.fn \in LibraryWrites /\ reply[1] = "ok"
  <2>1. reply = OK(Body(r)) /\ ~Refused(r) /\ db' = After(r)
    BY <1>8 DEF Served, Error, Unauthorized, NotFound
  <2>2. Writing(r)
    BY <1>8 DEF Writing, Verb, LibraryWrites
  <2>3. /\ DOMAIN after = DOMAIN content
        /\ \A y \in DOMAIN content : y # x => after[y] = content[y]
        /\ x \in DOMAIN content => after[x] = IF Verb[r.fn] = "delete" THEN 0 ELSE r.value
    BY <1>2, <1>5, <2>1, <2>2, WriteIs
  <2>4. Verb[r.fn] = "delete" <=> r.fn = "deleteTemplate"
    BY <1>8 DEF Verb, LibraryWrites
  <2>5. reply[2] = <<x, r.value>>
    <3>1. Body(r) = <<x, r.value>>
      <4>1. Verb[r.fn] # "load" /\ r.fn \notin {"listWorkspaces", "getWorkspace", "listMemberCandidates"}
        BY <1>8 DEF Verb, LibraryWrites
      <4> QED BY <4>1 DEF Body
    <3> QED BY <2>1, <3>1 DEF OK
  <2>6. r.fn = "updateTemplate" => content[r.row] # 0
    BY <1>5, <2>1 DEF Refused, Rejects, Verb
  <2>7. ~ui.loading
    BY <1>8 DEF Clear
  <2>8. r.fn = "updateTemplate" => x = r.row
    BY DEF Target, Verb
  <2>9. content \in [DOMAIN content -> Nat]
    BY <1>2 DEF DbTyped
  <2> HIDE DEF content, after, ahead, r, s, x
  <2>10. \A j \in Slots : /\ flight'[j].fn = flight[j].fn /\ (flight'[j].latest <=> flight[j].latest)
                          /\ flight'[j].row = flight[j].row /\ Target(flight'[j]) = Target(flight[j])
    BY <1>1, <1>5 DEF r, s, x
  <2>11. \A j \in Slots : flight[j].fn \in LibraryWrites => WriteTrue(flight[j], content, ahead)
    BY <1>6 DEF LibraryTrue
  <2>12. x \in DOMAIN content /\ after[x] = IF r.fn = "deleteTemplate" THEN 0 ELSE r.value
    BY <1>8, <2>3, <2>4, <2>11 DEF WriteTrue, r, x
  <2>13. \A j \in Slots : flight[j].fn \in LibraryWrites /\ j # i => Target(flight[j]) # x
    BY <1>6, <1>8 DEF LibraryTrue, r, x
  <2>14. ASSUME NEW j \in Slots, flight'[j].fn \in LibraryWrites PROVE WriteTrue(flight'[j], after, ahead)
    <3>1. WriteTrue(flight[j], content, ahead)
      BY <2>10, <2>11, <2>14
    <3>2. CASE j # i
      <4>1. flight'[j] = flight[j] /\ Target(flight[j]) # x
        BY <1>1, <2>13, <2>14, <3>2
      <4>2. after[Target(flight[j])] = content[Target(flight[j])]
        BY <2>3, <3>1, <4>1 DEF WriteTrue
      <4> QED BY <2>3, <3>1, <4>1, <4>2 DEF WriteTrue
    <3>3. CASE j = i
      <4>1. WriteTrue(s, after, ahead)
        BY <1>1, <1>5, <1>8, <2>3, <2>5, <2>12, <3>1, <3>3 DEF WriteTrue, r, s, x
      <4> QED BY <3>3, <4>1 DEF s
    <3> QED BY <3>2, <3>3
  <2>15. \A j \in Latest(flight', "listTemplateLibrary") : FALSE
    BY <1>6, <2>7, <2>10 DEF LibraryTrue, Latest
  <2>16. \A j, k \in Slots : flight'[j].fn \in LibraryWrites /\ flight'[k].fn \in LibraryWrites /\ Target(flight'[j]) = Target(flight'[k]) => j = k
    BY <1>6, <2>10 DEF LibraryTrue
  <2>17. DialogTrue(ui.dialog, flight', after, ahead)
    BY <1>6, <2>3, <2>10 DEF LibraryTrue, DialogTrue
  <2>18. ASSUME LibraryShown(ui.rows, flight, content) PROVE LibraryShown(ui.rows, flight', after)
    <3>1. Near(ui.rows, after)
      BY <2>3, <2>18 DEF LibraryShown, Near
    <3>2. \A j \in Slots : flight'[j].fn = "createTemplate" => Target(flight'[j]) \notin RowsOf(ui.rows)
      BY <2>10, <2>18 DEF LibraryShown
    <3>3. ASSUME r.fn = "updateTemplate" PROVE x \in RowsOf(ui.rows)
      <4>1. Agrees(ui.rows, content, x)
        BY <1>5, <2>12, <2>13, <2>18 DEF LibraryShown, r, x
      <4>2. content[x] \in Nat /\ content[x] # 0
        BY <2>6, <2>8, <2>9, <2>12, <3>3
      <4>3. <<x, content[x]>> \in ToSet(ui.rows)
        BY <4>1, <4>2 DEF Agrees
      <4>4. <<x, content[x]>>[1] = x
        OBVIOUS
      <4> QED BY <4>3, <4>4, RowsOfSet
    <3>4. \A j \in Slots : flight'[j].fn = "updateTemplate" /\ flight'[j].reply[1] = "ok" => flight'[j].row \in RowsOf(ui.rows)
      BY <1>1, <2>8, <2>18, <3>3 DEF LibraryShown, r, s
    <3>5. ASSUME NEW y \in DOMAIN after
          PROVE  \/ \E j \in Slots : flight'[j].fn \in LibraryWrites /\ flight'[j].reply[1] = "ok" /\ Target(flight'[j]) = y
                 \/ Agrees(ui.rows, after, y)
      <4>1. CASE y = x
        BY <1>1, <1>5, <1>8, <4>1 DEF r, s
      <4>2. CASE y # x
        <5>1. y \in DOMAIN content /\ after[y] = content[y]
          BY <2>3, <3>5, <4>2
        <5>2. CASE Agrees(ui.rows, content, y)
          BY <5>1, <5>2 DEF Agrees
        <5>3. CASE \E j \in Slots : flight[j].fn \in LibraryWrites /\ flight[j].reply[1] = "ok" /\ Target(flight[j]) = y
          BY <1>1, <4>2, <5>3 DEF r, x
        <5> QED BY <2>18, <5>1, <5>2, <5>3 DEF LibraryShown
      <4> QED BY <4>1, <4>2
    <3> QED BY <3>1, <3>2, <3>4, <3>5 DEF LibraryShown
  <2>19. ui.failed \/ LibraryShown(ui.rows, flight', after)
    BY <1>6, <2>7, <2>18 DEF LibraryTrue
  <2>20. LibraryTrue(ui, flight', after, ahead)
    BY <2>14, <2>15, <2>16, <2>17, <2>19 DEF LibraryTrue
  <2> QED BY <1>1, <2>20 DEF after
<1> QED BY <1>4, <1>7, <1>8

(* A template has been written. *)
LEMMA TemplateSavedTrue ==
  ASSUME Inv, Clear(ui, flight), ui.at = "library", LibraryTrue(ui, flight, db[Library], Ahead),
         NEW i \in Slots, TemplateSaved(i)
  PROVE  LibraryTrue(ui', flight', db'[Library], Ahead')
<1> DEFINE content == db[Library]
           ahead == Ahead
           r == flight[i]
           x == Target(r)
<1>1. /\ r # Idle /\ r.fn \in LibraryWrites /\ Flights(flight) /\ IsRequest(r)
      /\ DOMAIN ui = {"at", "loading", "failed", "rows", "dialog", "busy"}
  BY AtLibrary DEF TemplateSaved, Answered, Flights
<1>2. Turns(flight, Done(i), {i}, {}, {}, {})
  BY <1>1, DoneTurns
<1>3. Awaits(i, "screen")
  <2>1. Writes(r) /\ r.fn \notin TabWrites
    BY <1>1 DEF Writes, Writing, Verb, LibraryWrites, TabWrites
  <2> QED BY <2>1 DEF Clear, Awaits
<1>4. ~ui.loading
  BY <1>1 DEF Clear
<1>5. LibraryTrue(ui, flight, content, ahead)
  OBVIOUS
<1>6. CASE ~Got(i)
  <2>1. PICK v : /\ Client(v, Done(i))
                 /\ v.loading = ui.loading /\ v.failed = ui.failed /\ v.rows = ui.rows /\ v.dialog = ui.dialog
    <3>1. CASE r.fn = "deleteTemplate"
      <4>1. Client([ui EXCEPT !.busy = @ \ {"delete"}], Done(i))
        BY <1>3, <1>6, <3>1 DEF TemplateSaved
      <4> QED BY <1>1, <4>1
    <3>2. CASE r.fn # "deleteTemplate" /\ Awaits(i, "dialog")
      <4>1. Client([ui EXCEPT !.busy = {}], Done(i))
        BY <1>3, <1>6, <3>2 DEF TemplateSaved
      <4> QED BY <1>1, <4>1
    <3>3. CASE r.fn # "deleteTemplate" /\ ~Awaits(i, "dialog")
      <4>1. Client(ui, Done(i))
        BY <1>3, <1>6, <3>3 DEF TemplateSaved
      <4> QED BY <4>1
    <3> QED BY <3>1, <3>2, <3>3
  <2>2. ui' = v /\ flight' = Done(i) /\ db'[Library] = content /\ Ahead' = ahead
    BY <2>1 DEF Client, serverVars, countVars, Ahead
  <2>3. \A k \in {i} : flight[k].fn \in LibraryWrites => flight[k].reply[1] # "ok"
    BY <1>6 DEF Got
  <2> HIDE DEF content, ahead
  <2>4. DialogTrue(v.dialog, flight, content, ahead)
    BY <1>5, <2>1 DEF LibraryTrue
  <2>5. LibraryTrue(v, flight', content, ahead)
    BY <1>2, <1>5, <2>1, <2>2, <2>3, <2>4, LibraryStays
  <2> QED BY <2>2, <2>5 DEF content, ahead
<1>7. CASE Got(i)
  <2> DEFINE u == IF Ready THEN [ui EXCEPT !.rows = Patched(@, i)] ELSE ui
             v == Shut(u)
             f == Unmount(Done(i), {"dialog"})
             rows == ui.rows
             new == Patched(ui.rows, i)
  <2>1. Client(v, f)
    BY <1>3, <1>7 DEF TemplateSaved
  <2>2. ui' = v /\ flight' = f /\ db'[Library] = content /\ Ahead' = ahead
    BY <2>1 DEF Client, serverVars, countVars, Ahead
  <2>3. v.dialog = Closed /\ v.loading = ui.loading /\ v.failed = ui.failed /\ (v.failed \/ v.rows = new)
    <3>1. CASE Ready
      <4> HIDE DEF new
      <4>1. u = [ui EXCEPT !.rows = new]
        BY <3>1 DEF new
      <4>2. v = [[ui EXCEPT !.rows = new] EXCEPT !.dialog = Closed, !.busy = {}]
        BY <4>1 DEF Shut
      <4> QED BY <1>1, <4>2
    <3>2. CASE ~Ready
      <4>1. v = [ui EXCEPT !.dialog = Closed, !.busy = {}]
        BY <3>2 DEF Shut
      <4>2. ui.failed
        BY <1>4, <3>2 DEF Ready
      <4> HIDE DEF v
      <4> QED BY <1>1, <4>1, <4>2
    <3> QED BY <3>1, <3>2
  <2>4. Turns(flight, f, {i}, {"dialog"}, {}, {})
    BY <1>2, PartsTurn
  <2>5. r.value \in Nat /\ content \in [DOMAIN content -> Nat] /\ DOMAIN content \subseteq Nat \ {0}
    <3>1. DbTyped /\ Library \in Table
      BY DEF Inv, Calls, CallsTyped, Table
    <3> QED BY <1>1, <3>1, LibraryIds DEF DbTyped, IsRequest
  <2>6. 0 \notin ahead
    <3>1. writes \in Nat /\ MaxWrites \in Nat
      BY ConsoleAssumption DEF Inv, Calls, CallsTyped
    <3> QED BY <3>1 DEF Ahead
  <2>7. /\ r.fn = "deleteTemplate" => new = Drop(rows, r.row)
        /\ r.fn # "deleteTemplate" /\ r.memo = "create" => new = <<r.reply[2]>> \o rows
        /\ r.fn # "deleteTemplate" /\ r.memo # "create" =>
             new = [n \in DOMAIN rows |-> IF rows[n][1] = r.reply[2][1] THEN r.reply[2] ELSE rows[n]]
    <3>1. ASSUME r.fn = "deleteTemplate" PROVE new = Drop(rows, r.row)
      BY <3>1 DEF Patched
    <3>2. ASSUME r.fn # "deleteTemplate", r.memo = "create" PROVE new = <<r.reply[2]>> \o rows
      BY <3>2 DEF Patched, Result
    <3>3. ASSUME r.fn # "deleteTemplate", r.memo # "create"
          PROVE  new = [n \in DOMAIN rows |-> IF rows[n][1] = r.reply[2][1] THEN r.reply[2] ELSE rows[n]]
      BY <3>3 DEF Patched, Result
    <3> HIDE DEF new
    <3> QED BY <3>1, <3>2, <3>3
  <2>8. r.reply[1] = "ok"
    BY <1>7 DEF Got
  <2>9. r.fn # "createTemplate" => x = r.row
    BY <1>1 DEF Target, Verb, LibraryWrites
  <2> HIDE DEF content, ahead, r, x, u, v, f, rows, new
  <2>10. /\ x \in DOMAIN content /\ content[x] = (IF r.fn = "deleteTemplate" THEN 0 ELSE r.value)
         /\ r.fn # "deleteTemplate" => r.value # 0 /\ (r.memo = "create" <=> r.fn = "createTemplate") /\ r.reply[2] = <<x, r.value>>
    <3>1. WriteTrue(r, content, ahead)
      BY <1>1, <1>5 DEF LibraryTrue, r
    <3> QED BY <2>8, <3>1 DEF WriteTrue, x
  <2>11. ASSUME NEW j \in Slots, f[j].fn \in LibraryWrites
         PROVE  /\ j # i /\ flight[j].fn = f[j].fn /\ flight[j].reply = f[j].reply /\ flight[j].row = f[j].row
                /\ Target(flight[j]) = Target(f[j]) /\ Target(f[j]) # x /\ WriteTrue(f[j], content, ahead)
    <3>1. j # i
      BY <2>4, <2>11, SentOrStayed DEF LibraryWrites
    <3>2. /\ flight[j].fn = f[j].fn /\ flight[j].reply = f[j].reply /\ flight[j].row = f[j].row
          /\ Target(flight[j]) = Target(f[j]) /\ (WriteTrue(flight[j], content, ahead) <=> WriteTrue(f[j], content, ahead))
      BY <2>4, <2>11, TargetsStay
    <3> QED BY <1>1, <1>5, <2>11, <3>1, <3>2 DEF LibraryTrue, r, x
  <2>12. DialogTrue(v.dialog, f, content, ahead)
    BY <2>3, <2>5, <2>6, <2>11 DEF DialogTrue, Closed, WriteTrue, LibraryWrites
  <2>13. \A j \in Latest(f, "listTemplateLibrary") : FALSE
    <3>1. ASSUME NEW j \in Slots, f[j].fn = "listTemplateLibrary", f[j].latest
          PROVE  flight[j].fn = "listTemplateLibrary" /\ flight[j].latest
      BY <2>4, <3>1, SentOrStayed
    <3> QED BY <1>4, <1>5, <3>1 DEF LibraryTrue, Latest
  <2>14. \A j, k \in Slots : f[j].fn \in LibraryWrites /\ f[k].fn \in LibraryWrites /\ Target(f[j]) = Target(f[k]) => j = k
    BY <1>5, <2>11 DEF LibraryTrue
  <2>15. v.failed \/ LibraryShown(v.rows, f, content)
    <3>1. SUFFICES ASSUME LibraryShown(rows, flight, content) PROVE LibraryShown(new, f, content)
      BY <1>4, <1>5, <2>3 DEF LibraryTrue, rows
    <3>2. /\ Near(new, content)
          /\ RowsOf(new) \subseteq RowsOf(rows) \cup {x}
          /\ RowsOf(rows) \ {x} \subseteq RowsOf(new)
          /\ \A y : y[1] # x => (y \in ToSet(new) <=> y \in ToSet(rows))
          /\ Agrees(new, content, x)
      <4>1. Near(rows, content)
        BY <3>1 DEF LibraryShown
      <4>2. CASE r.fn = "deleteTemplate"
        <5>1. Near(new, content) /\ ToSet(new) = {y \in ToSet(rows) : y[1] # x}
          BY <2>7, <2>9, <4>1, <4>2, DropNear
        <5>2. Agrees(new, content, x)
          <6>1. \A c \in Nat : <<x, c>>[1] = x
            OBVIOUS
          <6> QED BY <2>10, <4>2, <5>1, <6>1 DEF Agrees
        <5> QED BY <5>1, <5>2, RowsOfSet
      <4>3. CASE r.fn = "createTemplate"
        <5>1. new = <<<<x, r.value>>>> \o rows
          BY <2>7, <2>10, <4>3
        <5>2. x \notin RowsOf(rows)
          BY <3>1, <4>3 DEF LibraryShown, r, x
        <5>3. Near(new, content) /\ RowsOf(new) = RowsOf(rows) \cup {x} /\ ToSet(new) = ToSet(rows) \cup {<<x, r.value>>}
          <6>1. x \in Nat \ {0} /\ x \in DOMAIN content
            BY <2>5, <2>10
          <6>2. new = Append(rows, <<x, r.value>>) \/ new = <<<<x, r.value>>>> \o rows
            BY <5>1
          <6> QED BY <2>5, <4>1, <5>2, <6>1, <6>2, AddNear
        <5>4. Agrees(new, content, x)
          <6>1. \A c \in Nat : <<x, c>> \notin ToSet(rows)
            <7>1. \A c \in Nat : <<x, c>>[1] = x
              OBVIOUS
            <7> QED BY <5>2, <7>1, RowsOfSet
          <6> QED BY <2>5, <2>10, <4>3, <5>3, <6>1 DEF Agrees
        <5>5. \A y : y = <<x, r.value>> => y[1] = x
          OBVIOUS
        <5> QED BY <5>3, <5>4, <5>5
      <4>4. CASE r.fn = "updateTemplate"
        <5>1. new = Switch(rows, x, r.value)
          <6>1. r.reply[2] = <<x, r.value>> /\ r.fn # "deleteTemplate" /\ r.memo # "create"
            BY <2>10, <4>4
          <6>2. r.reply[2][1] = x
            BY <6>1
          <6>3. new = [n \in DOMAIN rows |-> IF rows[n][1] = r.reply[2][1] THEN r.reply[2] ELSE rows[n]]
            BY <2>7, <6>1
          <6>4. new = [n \in DOMAIN rows |-> IF rows[n][1] = x THEN <<x, r.value>> ELSE rows[n]]
            BY <6>1, <6>2, <6>3
          <6> QED BY <6>4 DEF Switch
        <5>2. x \in RowsOf(rows)
          BY <2>8, <2>9, <3>1, <4>4 DEF LibraryShown, r
        <5>3. /\ Near(new, content) /\ RowsOf(new) = RowsOf(rows)
              /\ \A y : y \in ToSet(new) <=> \/ y \in ToSet(rows) /\ y[1] # x
                                             \/ x \in RowsOf(rows) /\ y = <<x, r.value>>
          <6>1. x \in Nat \ {0}
            BY <2>5, <2>10
          <6>2. r.value \in Nat
            BY <2>5
          <6>3. Near(new, content) /\ RowsOf(new) = RowsOf(rows) /\ Replaced(new, rows, x, r.value)
            BY <4>1, <5>1, <6>1, <6>2, ReplaceNear
          <6> QED BY <6>3 DEF Replaced
        <5>4. Agrees(new, content, x)
          <6>1. \A c \in Nat : <<x, c>> \in ToSet(new) <=> c = r.value
            BY <5>2, <5>3
          <6> QED BY <2>5, <2>10, <4>4, <6>1 DEF Agrees
        <5>5. \A y : y = <<x, r.value>> => y[1] = x
          OBVIOUS
        <5> QED BY <5>2, <5>3, <5>4, <5>5
      <4> QED BY <1>1, <4>2, <4>3, <4>4 DEF LibraryWrites, r
    <3>3. ASSUME NEW j \in Slots, f[j].fn = "createTemplate" PROVE Target(f[j]) \notin RowsOf(new)
      <4>1. flight[j].fn = "createTemplate" /\ Target(flight[j]) = Target(f[j]) /\ Target(f[j]) # x
        BY <2>11, <3>3 DEF LibraryWrites
      <4> QED BY <3>1, <3>2, <4>1 DEF LibraryShown
    <3>4. ASSUME NEW j \in Slots, f[j].fn = "updateTemplate", f[j].reply[1] = "ok" PROVE f[j].row \in RowsOf(new)
      <4>1. /\ flight[j].fn = "updateTemplate" /\ flight[j].reply[1] = "ok" /\ flight[j].row = f[j].row
            /\ Target(f[j]) = f[j].row /\ Target(f[j]) # x
        BY <2>11, <3>4 DEF LibraryWrites, Target, Verb
      <4> QED BY <3>1, <3>2, <4>1 DEF LibraryShown
    <3>5. ASSUME NEW y \in DOMAIN content
          PROVE  \/ \E j \in Slots : f[j].fn \in LibraryWrites /\ f[j].reply[1] = "ok" /\ Target(f[j]) = y
                 \/ Agrees(new, content, y)
      <4>1. CASE y = x
        BY <3>2, <4>1
      <4>2. CASE y # x
        <5>1. \A c \in Nat : <<y, c>> \in ToSet(new) <=> <<y, c>> \in ToSet(rows)
          <6>1. \A c \in Nat : <<y, c>>[1] # x
            BY <4>2
          <6> QED BY <3>2, <6>1
        <5>2. CASE Agrees(rows, content, y)
          BY <5>1, <5>2 DEF Agrees
        <5>3. CASE \E j \in Slots : flight[j].fn \in LibraryWrites /\ flight[j].reply[1] = "ok" /\ Target(flight[j]) = y
          <6>1. PICK j \in Slots : flight[j].fn \in LibraryWrites /\ flight[j].reply[1] = "ok" /\ Target(flight[j]) = y
            BY <5>3
          <6>2. j \notin {i}
            BY <4>2, <6>1 DEF r, x
          <6>3. flight[j] # Idle /\ Writing(flight[j])
            BY <6>1 DEF LibraryWrites, Idle, Writing, Verb
          <6>4. f[j].fn = flight[j].fn /\ f[j].row = flight[j].row /\ f[j].value = flight[j].value /\ f[j].reply = flight[j].reply
            BY <2>4, <6>2, <6>3, WritesStay
          <6>5. Target(f[j]) = y
            BY <6>1, <6>4 DEF Target
          <6> QED BY <6>1, <6>4, <6>5
        <5> QED BY <3>1, <5>2, <5>3 DEF LibraryShown
      <4> QED BY <4>1, <4>2
    <3> QED BY <3>2, <3>3, <3>4, <3>5 DEF LibraryShown
  <2>16. LibraryTrue(v, f, content, ahead)
    BY <2>11, <2>12, <2>13, <2>14, <2>15 DEF LibraryTrue
  <2> QED BY <2>2, <2>16 DEF content, ahead
<1> QED BY <1>6, <1>7

-----------------------------------------------------------------------------
(* The list.                                                               *)

(* A page changes while it is shown or loaded only by a workspace that is  *)
(* created, whose answer loads the page again.                             *)
ListTrue(u, f, page) ==
  /\ \A i \in Latest(f, "listWorkspaces") :
       /\ f[i].row = u.page
       /\ f[i].reply[1] = "ok" => f[i].reply[2] = page \/ Took(f, {"createWorkspace"})
  /\ u.loading \/ u.failed \/ (u.rows = page.rows /\ u.total = page.total) \/ Took(f, {"createWorkspace"})

(* The page is as it was. *)
LEMMA ListStays ==
  ASSUME NEW f, NEW g, NEW gone, NEW new, Turns(f, g, gone, {}, {}, new),
         NEW u, NEW v, NEW page, ListTrue(u, f, page), v.page = u.page,
         \A i \in gone : f[i].fn = "createWorkspace" => f[i].reply[1] # "ok",
         \A r \in new : r.fn # "listWorkspaces",
         v.loading \/ v.failed \/ (v.rows = page.rows /\ v.total = page.total) \/ Took(f, {"createWorkspace"})
  PROVE  ListTrue(v, g, page)
<1>1. Took(f, {"createWorkspace"}) => Took(g, {"createWorkspace"})
  BY Writers, TookOn
<1>2. ASSUME NEW i \in Slots, g[i].fn = "listWorkspaces", g[i].latest
      PROVE  /\ f[i].fn = "listWorkspaces" /\ f[i].latest /\ f[i].row = g[i].row /\ f[i].reply = g[i].reply
  BY <1>2, SentOrStayed
<1> QED BY <1>1, <1>2 DEF ListTrue, Latest

(* The page is loaded again. *)
LEMMA LoadPageTrue ==
  ASSUME Inv, NEW v, ListTyped(v), NEW f, Flights(f), FreeSlots(f) # {},
         LoadPage(v, f, v.page) \/ SnapBack(v, f, v.page)
  PROVE  ListTrue(ui', flight', PageOf(ui.page)')
<1> DEFINE r == ListWorkspaces(v.page)
           w == [v EXCEPT !.loading = TRUE, !.failed = FALSE, !.rows = <<>>, !.total = 0, !.busy = {}]
<1>1. ui' = w /\ flight' = Send(Supersede(f, {"listWorkspaces"}), r)
  BY DEF LoadPage, SnapBack, Reloading, LoadLatest, Client
<1>2. w.loading /\ w.page = v.page
  BY DEF ListTyped, ListScreen
<1>3. New(r) /\ r.row = v.page
  BY ListWorkspacesIs DEF Inv, Calls, CallsTyped, ListTyped
<1> HIDE DEF r, w
<1>4. PICK k \in Slots : /\ flight'[k] = r
                         /\ \A i \in Slots : flight'[i].fn \in {"listWorkspaces"} /\ flight'[i].latest => i = k
  <2>1. "none" \notin {"listWorkspaces"}
    OBVIOUS
  <2>2. IsRequest(r)
    BY <1>3 DEF New
  <2> QED BY <1>1, <2>1, <2>2, Reloaded
<1>5. \A i \in Latest(flight', "listWorkspaces") : flight'[i] = r
  BY <1>4 DEF Latest
<1>6. r.row = ui'.page /\ ui'.loading /\ r.reply[1] # "ok"
  BY <1>1, <1>2, <1>3 DEF New, Pending
<1> DEFINE page == PageOf(ui.page)'
<1> HIDE DEF page
<1>7. ListTrue(ui', flight', page)
  BY <1>5, <1>6 DEF ListTrue
<1> QED BY <1>7 DEF page

(* A page depends on the workspaces there are. *)
LEMMA PageStays ==
  ASSUME db' = db, ui'.page = ui.page
  PROVE  PageOf(ui.page)' = PageOf(ui.page)
<1>1. Content(Workspaces) = db[Workspaces] /\ Content(Workspaces)' = db'[Workspaces]
  BY DEF Content, Workspaces, T
<1>2. Listing(Workspaces)' = Listing(Workspaces)
  <2>1. Listing(Workspaces) = Rows(db[Workspaces])
    BY <1>1 DEF Listing
  <2>2. Listing(Workspaces)' = Rows(db[Workspaces])
    BY <1>1 DEF Listing
  <2> QED BY <2>1, <2>2
<1> QED BY <1>2 DEF PageOf

(* A client's step that keeps the page. *)
LEMMA ListStepTrue ==
  ASSUME Inv, NEW gone, NEW new, Turns(flight, flight', gone, {}, {}, new), Within,
         ListTrue(ui, flight, PageOf(ui.page)), ui'.page = ui.page,
         \A i \in gone : flight[i].fn = "createWorkspace" => flight[i].reply[1] # "ok",
         \A r \in new : r.fn # "listWorkspaces",
         \/ ui'.loading = ui.loading /\ ui'.failed = ui.failed /\ ui'.rows = ui.rows /\ ui'.total = ui.total
         \/ ui'.failed
         \/ ui'.rows = PageOf(ui.page).rows /\ ui'.total = PageOf(ui.page).total
         \/ Took(flight, {"createWorkspace"})
  PROVE  ListTrue(ui', flight', PageOf(ui.page)')
<1> DEFINE page == PageOf(ui.page)
<1>1. PageOf(ui.page)' = page
  BY PageStays DEF Within
<1> HIDE DEF page
<1>2. ui'.loading \/ ui'.failed \/ (ui'.rows = page.rows /\ ui'.total = page.total) \/ Took(flight, {"createWorkspace"})
  BY DEF ListTrue, page
<1>3. ListTrue(ui, flight, page)
  BY DEF page
<1>4. ListTrue(ui', flight', page)
  BY <1>2, <1>3, ListStays
<1> QED BY <1>1, <1>4

(* The answer for a page: it is shown, or leads to the last page. *)
LEMMA PageLoadedTrue ==
  ASSUME Inv, ui.at = "list", ListTrue(ui, flight, PageOf(ui.page)), NEW i \in Slots, PageLoaded(i)
  PROVE  ListTrue(ui', flight', PageOf(ui.page)')
<1>1. flight[i] # Idle /\ flight[i].fn = "listWorkspaces" /\ flight[i].latest \in BOOLEAN
  BY DEF PageLoaded, Answered, Inv, Calls, CallsTyped, Flights, IsRequest
<1>2. /\ ListTyped(ui) /\ Flights(flight)
      /\ DOMAIN ui = {"at", "loading", "failed", "rows", "total", "page", "dialog", "busy"}
  BY AtList
<1>3. Turns(flight, Done(i), {i}, {}, {}, {}) /\ FreeSlots(Done(i)) # {} /\ Flights(Done(i))
  BY <1>2, DoneTurns, WasDone
<1>4. ASSUME Within, flight' = Done(i), ui'.page = ui.page,
             \/ ui'.loading = ui.loading /\ ui'.failed = ui.failed /\ ui'.rows = ui.rows /\ ui'.total = ui.total
             \/ ui'.failed
             \/ ui'.rows = PageOf(ui.page).rows /\ ui'.total = PageOf(ui.page).total
             \/ Took(flight, {"createWorkspace"})
      PROVE  ListTrue(ui', flight', PageOf(ui.page)')
  <2>1. \A k \in {i} : flight[k].fn = "createWorkspace" => flight[k].reply[1] # "ok"
    BY <1>1
  <2>2. \A r \in {} : r.fn # "listWorkspaces"
    OBVIOUS
  <2>3. Turns(flight, flight', {i}, {}, {}, {})
    BY <1>3, <1>4
  <2> QED BY <1>4, <2>1, <2>2, <2>3, ListStepTrue
<1>5. CASE ~flight[i].latest
  <2>1. Client(ui, Done(i))
    BY <1>5 DEF PageLoaded
  <2>2. Within /\ flight' = Done(i) /\ ui' = ui
    BY <2>1, ClientWithin
  <2> QED BY <1>4, <2>2
<1>6. CASE flight[i].latest /\ Got(i)
  <2> DEFINE last == Pages(Result(i).total)
  <2>1. CASE ui.page > last
    <3> DEFINE v == [ui EXCEPT !.page = last]
    <3>1. LoadPage(v, Done(i), last)
      BY <1>6, <2>1 DEF PageLoaded
    <3>2. last \in Nat
      <4>1. Result(i).total \in Nat
        BY <1>1, <1>6 DEF Inv, Calls, CallsTyped, Replies, Got, Result
      <4> QED BY <4>1, PagesTyped
    <3> HIDE DEF last
    <3>3. /\ DOMAIN v = DOMAIN ui /\ v.at = "list" /\ v.loading = ui.loading /\ v.failed = ui.failed /\ v.total = ui.total
          /\ v.page = last /\ v.dialog = ui.dialog /\ v.busy = ui.busy
      BY <1>2
    <3> HIDE DEF v
    <3>4. ListTyped(v) /\ LoadPage(v, Done(i), v.page)
      BY <1>2, <3>1, <3>2, <3>3 DEF ListTyped
    <3> QED BY <1>3, <3>4, LoadPageTrue
  <2>2. CASE ~(ui.page > last)
    <3> DEFINE v == [ui EXCEPT !.rows = Result(i).rows, !.total = Result(i).total, !.loading = FALSE, !.busy = {}]
    <3>1. Client(v, Done(i))
      BY <1>6, <2>2 DEF PageLoaded
    <3>2. Within /\ flight' = Done(i) /\ ui' = v
      BY <3>1, ClientWithin
    <3>3. ui'.page = ui.page /\ ui'.rows = Result(i).rows /\ ui'.total = Result(i).total
      BY <1>2, <3>2
    <3>4. Result(i) = PageOf(ui.page) \/ Took(flight, {"createWorkspace"})
      BY <1>1, <1>6 DEF ListTrue, Latest, Got, Result
    <3> QED BY <1>4, <3>2, <3>3, <3>4
  <2> QED BY <2>1, <2>2
<1>7. CASE flight[i].latest /\ ~Got(i)
  <2> DEFINE v == [ui EXCEPT !.loading = FALSE, !.failed = TRUE, !.busy = {}]
  <2>1. Client(v, Done(i))
    BY <1>7 DEF PageLoaded
  <2>2. Within /\ flight' = Done(i) /\ ui' = v
    BY <2>1, ClientWithin
  <2>3. ui'.page = ui.page /\ ui'.failed
    BY <1>2, <2>2
  <2> QED BY <1>4, <2>2, <2>3
<1> QED BY <1>1, <1>5, <1>6, <1>7

(* Another page, the same page again, the form for a new workspace. *)
LEMMA ListClicksTrue ==
  ASSUME Inv, ui.at = "list", ListTrue(ui, flight, PageOf(ui.page)),
         (\E p : PickPage(p)) \/ RetryList \/ ToggleCreate \/ CreateWorkspace
  PROVE  ListTrue(ui', flight', PageOf(ui.page)')
<1>1. /\ ListTyped(ui) /\ Flights(flight) /\ token \in Nat
      /\ DOMAIN ui = {"at", "loading", "failed", "rows", "total", "page", "dialog", "busy"}
  BY AtList
<1>2. ASSUME NEW p, PickPage(p) PROVE ListTrue(ui', flight', PageOf(ui.page)')
  <2> DEFINE v == [ui EXCEPT !.page = p]
  <2>1. Room(1) /\ LoadPage(v, flight, p) /\ p \in 1 .. Pages(ui.total)
    BY <1>2 DEF PickPage
  <2>2. p \in Nat /\ FreeSlots(flight) # {}
    BY <1>1, <2>1, PagesTyped, RoomIsFree DEF ListTyped
  <2>3. /\ DOMAIN v = DOMAIN ui /\ v.at = "list" /\ v.loading = ui.loading /\ v.failed = ui.failed /\ v.total = ui.total
        /\ v.page = p /\ v.dialog = ui.dialog /\ v.busy = ui.busy
    BY <1>1
  <2> HIDE DEF v
  <2>4. ListTyped(v) /\ LoadPage(v, flight, v.page)
    BY <1>1, <2>1, <2>2, <2>3 DEF ListTyped
  <2> QED BY <1>1, <2>2, <2>4, LoadPageTrue
<1>3. CASE RetryList
  <2>1. Room(1) /\ LoadPage(ui, flight, ui.page)
    BY <1>3 DEF RetryList
  <2> QED BY <1>1, <2>1, RoomIsFree, LoadPageTrue
<1>4. CASE ToggleCreate
  <2> DEFINE v == [ui EXCEPT !.dialog = IF @ = Closed THEN Dialog("create", 0) ELSE Closed, !.busy = {}]
  <2>1. Client(v, flight)
    BY <1>4 DEF ToggleCreate
  <2>2. v.page = ui.page /\ v.loading = ui.loading /\ v.failed = ui.failed /\ v.rows = ui.rows /\ v.total = ui.total
    BY <1>1
  <2> HIDE DEF v
  <2>3. Within /\ ui' = v /\ flight' = flight
    BY <2>1, ClientWithin
  <2>4. Turns(flight, flight', {}, {}, {}, {})
    BY <1>1, <2>3, TurnsAsIs
  <2>5. \A i \in {} : flight[i].fn = "createWorkspace" => flight[i].reply[1] # "ok"
    OBVIOUS
  <2>6. \A r \in {} : r.fn # "listWorkspaces"
    OBVIOUS
  <2> QED BY <2>2, <2>3, <2>4, <2>5, <2>6, ListStepTrue
<1>5. CASE CreateWorkspace
  <2> DEFINE m == [page |-> ui.page, total |-> ui.total]
             r == Call("createWorkspace", Workspaces, 0, Fresh, {"screen"}, m)
             v == [ui EXCEPT !.busy = {"create"}]
  <2>1. Click(v, r)
    BY <1>5 DEF CreateWorkspace
  <2>2. v.page = ui.page /\ v.loading = ui.loading /\ v.failed = ui.failed /\ v.rows = ui.rows /\ v.total = ui.total
    BY <1>1
  <2> HIDE DEF m
  <2>3. IsRequest(r) /\ r.fn = "createWorkspace"
    <3>1. "createWorkspace" \in DOMAIN Verb /\ Workspaces \in Table /\ {"screen"} \in SUBSET Parts /\ Fresh \in Nat
      BY DEF Verb, Table, Parts, Fresh, Inv, Calls, CallsTyped
    <3> QED BY <1>1, <3>1, CallIs
  <2> HIDE DEF r, v
  <2>4. Within /\ ui' = v /\ Turns(flight, flight', {}, {}, {}, {r})
    BY <2>1, <2>3, ClickWithin
  <2>5. \A i \in {} : flight[i].fn = "createWorkspace" => flight[i].reply[1] # "ok"
    OBVIOUS
  <2>6. \A q \in {r} : q.fn # "listWorkspaces"
    BY <2>3
  <2>7. Turns(flight, flight', {}, {}, {}, {r})
    BY <2>4
  <2> QED BY <2>2, <2>4, <2>5, <2>6, <2>7, ListStepTrue
<1> QED BY <1>2, <1>3, <1>4, <1>5

(* After a creation a page is loaded, unless it is the one shown. *)
LEMMA WorkspaceCreatedTrue ==
  ASSUME Inv, Clear(ui, flight), ui.at = "list", ListTrue(ui, flight, PageOf(ui.page)), NEW i \in Slots, WorkspaceCreated(i)
  PROVE  ListTrue(ui', flight', PageOf(ui.page)')
<1> DEFINE m == flight[i].memo
           last == Pages(m.total + 1)
           screen == [ui EXCEPT !.dialog = Closed, !.busy = {}]
<1>1. flight[i] # Idle /\ flight[i].fn = "createWorkspace" /\ Flights(flight) /\ m.total \in Nat
  BY DEF WorkspaceCreated, Answered, Inv, Calls, CallsTyped, Asked, Flights
<1>2. /\ ListTyped(ui)
      /\ DOMAIN ui = {"at", "loading", "failed", "rows", "total", "page", "dialog", "busy"}
  BY AtList
<1>3. Turns(flight, Done(i), {i}, {}, {}, {}) /\ FreeSlots(Done(i)) # {} /\ Flights(Done(i))
  BY <1>1, DoneTurns, WasDone
<1>4. Awaits(i, "screen") /\ m.page = ui.page
  <2>1. Writes(flight[i]) /\ flight[i].fn \notin TabWrites
    BY <1>1 DEF Writes, Writing, Verb, TabWrites
  <2> QED BY <1>1, <2>1 DEF Clear, Awaits
<1>5. last \in Nat
  BY <1>1, PagesTyped
<1>6. CASE ~Got(i)
  <2> DEFINE v == [ui EXCEPT !.busy = {}]
  <2>1. Client(v, Done(i))
    BY <1>4, <1>6 DEF WorkspaceCreated
  <2>2. v.page = ui.page /\ v.loading = ui.loading /\ v.failed = ui.failed /\ v.rows = ui.rows /\ v.total = ui.total
    BY <1>2
  <2> HIDE DEF v
  <2>3. Within /\ ui' = v /\ flight' = Done(i)
    BY <2>1, ClientWithin
  <2>4. Turns(flight, flight', {i}, {}, {}, {})
    BY <1>3, <2>3
  <2>5. \A k \in {i} : flight[k].fn = "createWorkspace" => flight[k].reply[1] # "ok"
    BY <1>6 DEF Got
  <2>6. \A r \in {} : r.fn # "listWorkspaces"
    OBVIOUS
  <2> QED BY <2>2, <2>3, <2>4, <2>5, <2>6, ListStepTrue
<1>7. CASE Got(i) /\ last = m.page
  <2>1. LoadPage(screen, Done(i), m.page)
    BY <1>4, <1>7 DEF WorkspaceCreated
  <2> HIDE DEF m, last
  <2>2. /\ DOMAIN screen = DOMAIN ui /\ screen.at = "list" /\ screen.loading = ui.loading /\ screen.failed = ui.failed
        /\ screen.total = ui.total /\ screen.page = ui.page /\ screen.dialog = Closed /\ screen.busy = {}
    BY <1>2
  <2> HIDE DEF screen
  <2>3. ListTyped(screen) /\ LoadPage(screen, Done(i), screen.page)
    BY <1>2, <1>4, <2>1, <2>2 DEF ListTyped, IsDialog, Dialog, Closed
  <2> QED BY <1>3, <2>3, LoadPageTrue
<1>8. CASE Got(i) /\ last # m.page
  <2> DEFINE w(p) == [screen EXCEPT !.page = p]
             back == Pages(ui.total)
  <2>1. LoadPage(w(last), Done(i), last) \/ SnapBack(w(back), Done(i), back)
    BY <1>4, <1>8 DEF WorkspaceCreated
  <2>2. back \in Nat
    BY <1>2, PagesTyped DEF ListTyped
  <2> HIDE DEF m, last, back
  <2>3. PICK p \in {last, back} : LoadPage(w(p), Done(i), p) \/ SnapBack(w(p), Done(i), p)
    BY <2>1
  <2>4. PICK v : v = w(p)
    OBVIOUS
  <2>5. /\ DOMAIN v = DOMAIN ui /\ v.at = "list" /\ v.loading = ui.loading /\ v.failed = ui.failed
        /\ v.total = ui.total /\ v.page = p /\ v.dialog = Closed /\ v.busy = {}
    BY <1>2, <2>4
  <2> HIDE DEF w
  <2>6. p \in Nat
    BY <1>5, <2>2
  <2>7. ListTyped(v) /\ (LoadPage(v, Done(i), v.page) \/ SnapBack(v, Done(i), v.page))
    BY <1>2, <2>3, <2>4, <2>5, <2>6 DEF ListTyped, IsDialog, Dialog, Closed
  <2> QED BY <1>3, <2>7, LoadPageTrue
<1> QED BY <1>6, <1>7, <1>8

(* The server takes a request of the list. *)
LEMMA ListServedTrue ==
  ASSUME Inv, Clear(ui, flight), ui.at = "list", ListTrue(ui, flight, PageOf(ui.page)),
         NEW i \in Slots, NEW reply, Served(i, reply)
  PROVE  ListTrue(ui', flight', PageOf(ui.page)')
<1> DEFINE r == flight[i]
           s == flight'[i]
           page == PageOf(ui.page)
           next == PageOf(ui.page)'
<1>1. /\ r # Idle /\ r.reply = Pending /\ ui' = ui
      /\ s.fn = r.fn /\ s.row = r.row /\ s.latest = r.latest /\ s.reply = reply
      /\ \A j \in Slots : j # i => flight'[j] = flight[j]
  BY DEF Served
<1>2. r.fn \in {"listWorkspaces", "createWorkspace"} /\ r.reply[1] # "ok"
  BY <1>1, OfTheScreen DEF Pending
<1>3. Took(flight, {"createWorkspace"}) => Took(flight', {"createWorkspace"})
  BY <1>1, <1>2 DEF Took
<1>4. CASE r.fn = "createWorkspace" /\ reply[1] = "ok"
  <2>1. Took(flight', {"createWorkspace"})
    BY <1>1, <1>4 DEF Took
  <2>2. \A j \in Latest(flight', "listWorkspaces") : flight'[j].row = ui.page
    BY <1>1, <1>4 DEF ListTrue, Latest
  <2> HIDE DEF next
  <2>3. ListTrue(ui', flight', next)
    BY <1>1, <2>1, <2>2 DEF ListTrue
  <2> QED BY <2>3 DEF next
<1>5. CASE ~(r.fn = "createWorkspace" /\ reply[1] = "ok")
  <2>1. db' = db
    <3>1. CASE reply = OK(Body(r))
      <4>1. r.fn = "listWorkspaces"
        BY <1>2, <1>5, <3>1 DEF OK
      <4>2. ~Writing(r)
        BY <4>1 DEF Writing, Verb
      <4>3. reply # Error /\ reply # Unauthorized /\ reply # NotFound
        BY <3>1 DEF OK, Error, Unauthorized, NotFound
      <4> QED BY <4>2, <4>3, ReadIs DEF Served
    <3>2. CASE reply # OK(Body(r))
      BY <3>2 DEF Served
    <3> QED BY <3>1, <3>2
  <2>2. next = page
    BY <1>1, <2>1, PageStays
  <2>3. ASSUME r.fn = "listWorkspaces", reply[1] = "ok" PROVE reply[2] = PageOf(r.row)
    <3>1. reply = OK(Body(r))
      BY <2>3 DEF Served, Error, Unauthorized, NotFound
    <3>2. Body(r) = PageOf(r.row)
      BY <2>3 DEF Body, Verb
    <3> QED BY <3>1, <3>2 DEF OK
  <2> HIDE DEF next, r, s
  <2>4. ASSUME NEW j \in Latest(flight', "listWorkspaces")
        PROVE  /\ flight'[j].row = ui.page
               /\ flight'[j].reply[1] = "ok" => flight'[j].reply[2] = page \/ Took(flight', {"createWorkspace"})
    <3>1. j \in Latest(flight, "listWorkspaces") /\ flight'[j].row = flight[j].row
      BY <1>1 DEF Latest, r, s
    <3>2. /\ flight[j].row = ui.page
          /\ flight[j].reply[1] = "ok" => flight[j].reply[2] = page \/ Took(flight, {"createWorkspace"})
      BY <3>1 DEF ListTrue
    <3>3. CASE j = i
      BY <1>1, <2>3, <3>1, <3>2, <3>3 DEF Latest, r, s
    <3>4. CASE j # i
      BY <1>1, <1>3, <3>1, <3>2, <3>4 DEF Latest
    <3> QED BY <3>3, <3>4
  <2>5. ListTrue(ui, flight, page)
    OBVIOUS
  <2> HIDE DEF page
  <2>6. ListTrue(ui', flight', page)
    BY <1>1, <1>3, <2>4, <2>5 DEF ListTrue
  <2> QED BY <2>2, <2>6 DEF next
<1> QED BY <1>4, <1>5

-----------------------------------------------------------------------------
(* One workspace.                                                          *)

(* What a table has when its rows are joined, of tables d. *)
Joined(d, t) ==
  CASE t[1] = "switches" ->
         [r \in RowOf(t) |-> IF d[Providers][r] = 0 THEN 0 ELSE IF d[t][r] = 0 THEN 2 ELSE d[t][r]]
    [] t[1] = "templates" -> [r \in RowOf(t) |-> IF d[t][r] = 0 THEN 0 ELSE d[Library][r]]
    [] OTHER -> d[t]
MembersOf(d, u) == d[T("members", u.id)]
PanelOf(d, u) == Joined(d, T(PanelTable[u.tab], u.id))

(* What getWorkspace gave, or is to give. *)
TookOf(f, fns, row) == \E i \in Slots : f[i].fn \in fns /\ f[i].reply[1] = "ok" /\ f[i].row = row
RowTrue(u, f, content) ==
  /\ \A i, j \in Latest(f, "getWorkspace") : i = j
  /\ \A i \in Latest(f, "getWorkspace") :
       /\ u.loading /\ f[i].row = u.id
       /\ f[i].reply[1] = "ok" =>
            f[i].reply[2] = <<<<u.id, content[u.id]>>>> \/ TookOf(f, {"deleteWorkspace"}, u.id)
       /\ f[i].reply = NotFound => content[u.id] = 0
  /\ u.gone => content[u.id] = 0
  /\ \A i \in Slots : f[i].fn = "updateWorkspace" =>
       IsSettled(u) /\ (f[i].reply[1] = "ok" => content[f[i].row] = f[i].value)
  /\ IsSettled(u) =>
       /\ u.rows[1][1] = u.id
       /\ u.rows = <<<<u.id, content[u.id]>>>> \/ TookOf(f, {"updateWorkspace", "deleteWorkspace"}, u.id)

(* The members, which every write of them loads again. *)
MemberWrites == {"replaceMemberRoles", "addMember"}
RosterTrue(u, f, content) ==
  /\ \A i \in Latest(f, "listMembers") : f[i].reply[1] = "ok" =>
       Fits(f[i].reply[2], content) \/ Took(f, MemberWrites)
  /\ \A i \in Slots : f[i].fn \in MemberWrites => f[i].memo = f[i].table[2]
  /\ u.rosterFailed \/ ComingLast(f, "listMembers") \/ Fits(u.roster, content) \/ Took(f, MemberWrites)

(* The templates that are there to be attached. *)
PoolTrue(u, f, library) ==
  /\ \A i \in Slots : f[i].fn = "listTemplateLibrary" /\ f[i].reply[1] = "ok" => Fits(f[i].reply[2], library)
  /\ u.dialog.kind = "addTemplate" => u.pool = NoList \/ u.pool = <<>> \/ Fits(u.pool, library)

(* The attached templates: without those that are being attached.  While   *)
(* one is detached nothing else is, and the rows are kept for a failure.   *)
TemplatesTrue(rows, f, content, library) ==
  /\ \A i \in Slots : f[i].fn = "attachTemplate" =>
       /\ f[i].memo = <<f[i].row, library[f[i].row]>> /\ library[f[i].row] # 0 /\ f[i].value # 0
       /\ f[i].row \in DOMAIN content /\ f[i].row \notin RowsOf(rows)
       /\ f[i].reply[1] = "ok" => content[f[i].row] = library[f[i].row]
  /\ \A i \in Slots : f[i].fn = "detachTemplate" =>
       rows = Drop(f[i].memo, f[i].row) /\ (f[i].reply[1] # "ok" => Fits(f[i].memo, content))
  /\ \/ \E i \in Slots : f[i].fn = "detachTemplate" /\ f[i].reply[1] # "ok"
     \/ /\ Near(rows, content)
        /\ \A x \in DOMAIN content :
             \/ \E i \in Slots : f[i].fn = "attachTemplate" /\ f[i].reply[1] = "ok" /\ f[i].row = x
             \/ Agrees(rows, content, x)

(* The switches: thrown before the answer. *)
SwitchesTrue(rows, f, content) ==
  /\ Near(rows, content)
  /\ \A i \in Slots : f[i].fn = "setProviderEnabled" =>
       /\ f[i].row \in DOMAIN content
       /\ f[i].reply[1] = "ok" => content[f[i].row] = f[i].value
       /\ f[i].reply[1] # "ok" => content[f[i].row] = f[i].memo[2]
       /\ <<f[i].row, f[i].value>> \in ToSet(rows)
  /\ \A x \in DOMAIN content :
       (\E i \in Slots : f[i].fn = "setProviderEnabled" /\ f[i].row = x) \/ Agrees(rows, content, x)

(* The policy: shown when it is saved. *)
PolicyTrue(rows, f, content) ==
  /\ \A i \in Slots : f[i].fn = "saveGuardrailPolicy" =>
       f[i].value # 0 /\ (f[i].reply[1] = "ok" => content[1] = f[i].value)
  /\ Fits(rows, content) \/ Took(f, {"saveGuardrailPolicy"})

(* What the tab shows, or is to show.  It writes of what it shows. *)
TabTrue(tab, rows, f, content, library) ==
  /\ tab = "templates" => TemplatesTrue(rows, f, content, library)
  /\ tab = "providers" => SwitchesTrue(rows, f, content)
  /\ tab = "guardrails" => PolicyTrue(rows, f, content)
TabFns == PanelFns \cup TabWrites
PanelTrue(u, f, content, library) ==
  /\ ~IsSettled(u) => u.panel = NoList
  /\ u.panelFailed /\ u.tab # "guardrails" => u.panel = NoList
  /\ \A i \in Slots : f[i].fn \in TabFns => f[i].table[2] = u.id
  /\ \A i \in Slots : f[i].fn \in TabWrites => u.panel # NoList /\ ~u.panelFailed
  /\ \A i \in Slots : f[i].fn \in PanelFns =>
       u.panel = NoList /\ ~u.panelFailed /\ (f[i].reply[1] = "ok" => Fits(f[i].reply[2], content))
  /\ \A i, j \in Slots : f[i].fn \in PanelFns /\ f[j].fn \in PanelFns => i = j
  /\ u.panel = NoList \/ u.panelFailed \/ TabTrue(u.tab, u.panel, f, content, library)

RestTrue(u, f, d) ==
  /\ RowTrue(u, f, d[Workspaces])
  /\ RosterTrue(u, f, MembersOf(d, u))
  /\ PoolTrue(u, f, d[Library])
DetailTrue(u, f, d) == RestTrue(u, f, d) /\ PanelTrue(u, f, PanelOf(d, u), d[Library])

-----------------------------------------------------------------------------
(* One workspace: what stays true of it.                                   *)

(* What the server lists. *)
LEMMA JoinedIs ==
  ASSUME DbTyped, NEW t \in Table
  PROVE  Content(t) = Joined(db, t) /\ Joined(db, t) \in [RowOf(t) -> Nat] /\ RowOf(t) \subseteq Nat \ {0}
<1>1. Content(t) = Joined(db, t)
  BY DEF Content, Joined
<1> QED BY <1>1, ContentTyped, RowsOfTable

(* Requests of the tab that is open. *)
LEMMA OfTheTab ==
  ASSUME Inv, Clear(ui, flight), NEW i \in Slots, flight[i].fn \in TabFns
  PROVE  /\ flight[i] # Idle /\ IsRequest(flight[i]) /\ Asked(flight[i]) /\ Replies(flight[i])
         /\ "tab" \in flight[i].owner /\ ui.at = "detail" /\ IsSettled(ui) /\ TabWaiter(ui, flight[i])
<1>1. flight[i] # Idle
  BY DEF Idle, TabFns, PanelFns, TabWrites
<1>2. /\ IsRequest(flight[i]) /\ Asked(flight[i]) /\ Replies(flight[i]) /\ Waiter(ui, flight[i]) /\ flight[i].owner # {}
  BY <1>1, OfTheScreen
<1>3. ui.at = "detail"
  <2>1. flight[i].fn \in DOMAIN AskedOf
    BY DEF TabFns, PanelFns, TabWrites, AskedOf
  <2> QED BY <1>1, <1>2, <2>1, WhereItIs
<1>4. "tab" \in flight[i].owner
  <2>1. CASE flight[i].fn \in TabWrites
    <3>1. Writes(flight[i])
      BY <1>1, <2>1 DEF Writes, Writing, TabWrites, Verb
    <3> QED BY <2>1, <3>1 DEF Clear
  <2>2. CASE flight[i].fn \in PanelFns
    <3>1. "screen" \notin flight[i].owner /\ "dialog" \notin flight[i].owner
      BY <1>2, <1>3, <2>2 DEF Waiter, PanelFns, DialogWaiter
    <3> QED BY <1>2, <3>1 DEF IsRequest, Parts
  <2> QED BY <2>1, <2>2 DEF TabFns
<1>5. IsSettled(ui) /\ TabWaiter(ui, flight[i])
  <2>1. flight[i].fn # "listMembers"
    BY DEF TabFns, PanelFns, TabWrites
  <2> QED BY <1>2, <1>3, <1>4, <2>1 DEF Waiter
<1> QED BY <1>1, <1>2, <1>3, <1>4, <1>5

(* A write that has taken effect, once more. *)
LEMMA TookOfOn ==
  ASSUME NEW f, NEW g, NEW gone, NEW parts, NEW fns, NEW new, Turns(f, g, gone, parts, fns, new),
         NEW S, S \subseteq WriteFns, NEW row, TookOf(f, S, row), \A i \in gone : f[i].fn \in S => f[i].reply[1] # "ok"
  PROVE  TookOf(g, S, row)
<1>1. PICK i \in Slots : f[i].fn \in S /\ f[i].reply[1] = "ok" /\ f[i].row = row
  BY DEF TookOf
<1>2. f[i] # Idle /\ Writing(f[i]) /\ i \notin gone
  BY <1>1, IdleIsNone DEF WriteFns, Writing
<1>3. g[i].fn = f[i].fn /\ g[i].reply = f[i].reply /\ g[i].row = f[i].row
  BY <1>2, WritesStay
<1> QED BY <1>1, <1>3 DEF TookOf

(* The workspace is as it was. *)
LEMMA RowStays ==
  ASSUME NEW f, NEW g, NEW gone, NEW parts, NEW fns, NEW new, Turns(f, g, gone, parts, fns, new),
         NEW u, NEW v, NEW content, RowTrue(u, f, content),
         v.at = u.at, v.id = u.id, v.loading = u.loading, v.failed = u.failed, v.gone = u.gone, v.rows = u.rows,
         \A i \in gone : f[i].fn \in {"updateWorkspace", "deleteWorkspace"} => f[i].reply[1] # "ok",
         \A r \in new : r.fn # "getWorkspace" /\ (r.fn = "updateWorkspace" => IsSettled(u) /\ r.reply = Pending)
  PROVE  RowTrue(v, g, content)
<1>1. ASSUME NEW i \in Slots, g[i].fn = "getWorkspace", g[i].latest
      PROVE  f[i].fn = "getWorkspace" /\ f[i].latest /\ f[i].row = g[i].row /\ f[i].reply = g[i].reply
  BY <1>1, SentOrStayed
<1>2. \A i, j \in Latest(g, "getWorkspace") : i = j
  BY <1>1 DEF RowTrue, Latest
<1>3. ASSUME TookOf(f, {"deleteWorkspace"}, u.id) PROVE TookOf(g, {"deleteWorkspace"}, u.id)
  BY <1>3, TookOfOn, Writers
<1>4. ASSUME TookOf(f, {"updateWorkspace", "deleteWorkspace"}, u.id)
      PROVE  TookOf(g, {"updateWorkspace", "deleteWorkspace"}, u.id)
  BY <1>4, TookOfOn, Writers
<1>5. IsSettled(v) <=> IsSettled(u)
  BY DEF IsSettled
<1>6. ASSUME NEW i \in Slots, g[i].fn = "updateWorkspace"
      PROVE  IsSettled(v) /\ (g[i].reply[1] = "ok" => content[g[i].row] = g[i].value)
  <2>1. CASE g[i] \in new
    BY <1>5, <1>6, <2>1 DEF Pending
  <2>2. CASE g[i] \notin new
    <3>1. f[i].fn = g[i].fn /\ f[i].row = g[i].row /\ f[i].value = g[i].value /\ f[i].reply = g[i].reply
      BY <1>6, <2>2, SentOrStayed
    <3> QED BY <1>5, <1>6, <3>1 DEF RowTrue
  <2> QED BY <2>1, <2>2
<1>7. \A i \in Latest(g, "getWorkspace") :
        /\ v.loading /\ g[i].row = v.id
        /\ g[i].reply[1] = "ok" =>
             g[i].reply[2] = <<<<v.id, content[v.id]>>>> \/ TookOf(g, {"deleteWorkspace"}, v.id)
        /\ g[i].reply = NotFound => content[v.id] = 0
  BY <1>1, <1>3 DEF RowTrue, Latest
<1>8. /\ v.gone => content[v.id] = 0
      /\ IsSettled(v) => v.rows[1][1] = v.id
      /\ IsSettled(v) => v.rows = <<<<v.id, content[v.id]>>>> \/ TookOf(g, {"updateWorkspace", "deleteWorkspace"}, v.id)
  BY <1>4, <1>5 DEF RowTrue
<1> QED BY <1>2, <1>6, <1>7, <1>8 DEF RowTrue

(* The members are as they were, or are there. *)
LEMMA RosterStays ==
  ASSUME NEW f, NEW g, NEW gone, NEW parts, NEW fns, NEW new, Turns(f, g, gone, parts, fns, new),
         NEW u, NEW v, NEW content, RosterTrue(u, f, content),
         \A i \in gone : f[i].fn \in MemberWrites => f[i].reply[1] # "ok",
         \A r \in new : r.reply = Pending /\ (r.fn \in MemberWrites => r.memo = r.table[2]),
         \/ v.rosterFailed \/ ComingLast(g, "listMembers") \/ Fits(v.roster, content) \/ Took(f, MemberWrites)
         \/ /\ v.roster = u.roster /\ v.rosterFailed = u.rosterFailed /\ "listMembers" \notin fns /\ "screen" \notin parts
            /\ \A i \in gone : f[i].fn # "listMembers"
  PROVE  RosterTrue(v, g, content)
<1>1. MemberWrites \subseteq WriteFns
  BY Writers DEF MemberWrites
<1>2. Took(f, MemberWrites) => Took(g, MemberWrites)
  BY <1>1, TookOn
<1>3. ASSUME NEW i \in Slots, g[i].fn = "listMembers", g[i].latest, g[i].reply[1] = "ok"
      PROVE  Fits(g[i].reply[2], content) \/ Took(g, MemberWrites)
  <2>1. g[i] \notin new
    BY <1>3 DEF Pending
  <2>2. f[i].fn = "listMembers" /\ f[i].latest /\ f[i].reply = g[i].reply
    BY <1>3, <2>1, SentOrStayed
  <2> QED BY <1>2, <1>3, <2>2 DEF RosterTrue, Latest
<1>4. ASSUME NEW i \in Slots, g[i].fn \in MemberWrites PROVE g[i].memo = g[i].table[2]
  <2>1. CASE g[i] \notin new
    <3>1. g[i].fn # "none"
      BY <1>4 DEF MemberWrites
    <3>2. f[i].fn = g[i].fn /\ f[i].table = g[i].table /\ f[i].memo = g[i].memo
      BY <2>1, <3>1, SentOrStayed
    <3> QED BY <1>4, <3>2 DEF RosterTrue
  <2> QED BY <1>4, <2>1
<1>5. v.rosterFailed \/ ComingLast(g, "listMembers") \/ Fits(v.roster, content) \/ Took(g, MemberWrites)
  <2>1. CASE /\ v.roster = u.roster /\ v.rosterFailed = u.rosterFailed /\ "listMembers" \notin fns /\ "screen" \notin parts
             /\ \A i \in gone : f[i].fn # "listMembers"
    <3>1. \A i \in gone : ~(f[i].fn = "listMembers" /\ f[i].latest)
      BY <2>1
    <3>2. ComingLast(f, "listMembers") => ComingLast(g, "listMembers")
      BY <2>1, <3>1, ComingLastOn
    <3> QED BY <1>2, <2>1, <3>2 DEF RosterTrue
  <2> QED BY <1>2, <2>1
<1> QED BY <1>3, <1>4, <1>5 DEF RosterTrue, Latest

(* The templates there are. *)
LEMMA PoolStays ==
  ASSUME NEW f, NEW g, NEW gone, NEW parts, NEW fns, NEW new, Turns(f, g, gone, parts, fns, new),
         NEW u, NEW v, NEW library, PoolTrue(u, f, library),
         \A r \in new : r.reply = Pending,
         v.dialog.kind = "addTemplate" =>
           \/ v.pool = NoList \/ v.pool = <<>> \/ Fits(v.pool, library)
           \/ v.pool = u.pool /\ u.dialog.kind = "addTemplate"
  PROVE  PoolTrue(v, g, library)
<1>1. ASSUME NEW i \in Slots, g[i].fn = "listTemplateLibrary", g[i].reply[1] = "ok" PROVE Fits(g[i].reply[2], library)
  <2>1. g[i] \notin new
    BY <1>1 DEF Pending
  <2>2. f[i].fn = "listTemplateLibrary" /\ f[i].reply = g[i].reply
    BY <1>1, <2>1, SentOrStayed
  <2> QED BY <1>1, <2>2 DEF PoolTrue
<1> QED BY <1>1 DEF PoolTrue

(* The tab is as it was. *)
LEMMA PanelStays ==
  ASSUME NEW f, NEW g, NEW gone, NEW parts, NEW fns, NEW new, Turns(f, g, gone, parts, fns, new),
         NEW u, NEW v, NEW content, NEW library, PanelTrue(u, f, content, library),
         v.tab = u.tab, v.id = u.id, v.panel = u.panel, v.panelFailed = u.panelFailed, IsSettled(u) => IsSettled(v),
         \A i \in gone : f[i].fn \notin TabFns, \A r \in new : r.fn \notin TabFns
  PROVE  PanelTrue(v, g, content, library)
<1>1. ASSUME NEW i \in Slots, g[i].fn \in TabFns
      PROVE  /\ f[i].fn = g[i].fn /\ f[i].table = g[i].table /\ f[i].row = g[i].row /\ f[i].value = g[i].value
             /\ f[i].memo = g[i].memo /\ f[i].reply = g[i].reply
  <2>1. g[i].fn # "none"
    BY <1>1 DEF TabFns, PanelFns, TabWrites
  <2> QED BY <1>1, <2>1, SentOrStayed
<1>2. ASSUME NEW i \in Slots, f[i].fn \in TabWrites
      PROVE  /\ f[i].fn = g[i].fn /\ f[i].row = g[i].row /\ f[i].value = g[i].value /\ f[i].reply = g[i].reply
  <2>1. f[i] # Idle /\ Writing(f[i]) /\ i \notin gone
    BY <1>2, IdleIsNone DEF TabFns, TabWrites, Writing, Verb
  <2> QED BY <2>1, WritesStay
<1>3. \A rows : TemplatesTrue(rows, f, content, library) => TemplatesTrue(rows, g, content, library)
  BY <1>1, <1>2 DEF TemplatesTrue, TabFns, TabWrites
<1>4. \A rows : SwitchesTrue(rows, f, content) => SwitchesTrue(rows, g, content)
  BY <1>1, <1>2 DEF SwitchesTrue, TabFns, TabWrites
<1>5. \A rows : PolicyTrue(rows, f, content) => PolicyTrue(rows, g, content)
  BY <1>1, <1>2 DEF PolicyTrue, TabFns, TabWrites, Took
<1>6. \A i \in Slots : g[i].fn \in TabFns => g[i].table[2] = v.id
  BY <1>1 DEF PanelTrue
<1>7. \A i \in Slots : g[i].fn \in TabWrites => v.panel # NoList /\ ~v.panelFailed
  BY <1>1 DEF PanelTrue, TabFns
<1>8. \A i \in Slots : g[i].fn \in PanelFns =>
        v.panel = NoList /\ ~v.panelFailed /\ (g[i].reply[1] = "ok" => Fits(g[i].reply[2], content))
  BY <1>1 DEF PanelTrue, TabFns
<1>9. \A i, j \in Slots : g[i].fn \in PanelFns /\ g[j].fn \in PanelFns => i = j
  BY <1>1 DEF PanelTrue, TabFns
<1>10. v.panel = NoList \/ v.panelFailed \/ TabTrue(v.tab, v.panel, g, content, library)
  BY <1>3, <1>4, <1>5 DEF PanelTrue, TabTrue
<1> QED BY <1>6, <1>7, <1>8, <1>9, <1>10 DEF PanelTrue

(* A step of the tab alone. *)
LEMMA RestStays ==
  ASSUME NEW f, NEW g, NEW gone, NEW parts, NEW new, Turns(f, g, gone, parts, {}, new),
         NEW u, NEW v, NEW d, RestTrue(u, f, d), "screen" \notin parts,
         v.at = u.at, v.id = u.id, v.loading = u.loading, v.failed = u.failed, v.gone = u.gone, v.rows = u.rows,
         v.roster = u.roster, v.rosterFailed = u.rosterFailed,
         v.dialog.kind = "addTemplate" => v.dialog = u.dialog /\ v.pool = u.pool,
         \A i \in gone : f[i].fn \in TabFns, \A r \in new : r.fn \in TabFns /\ r.reply = Pending
  PROVE  RestTrue(v, g, d)
<1> DEFINE content == d[Workspaces]
           members == MembersOf(d, u)
           library == d[Library]
<1>1. members = MembersOf(d, v)
  BY DEF MembersOf
<1>2. RowTrue(u, f, content) /\ RosterTrue(u, f, members) /\ PoolTrue(u, f, library)
  BY DEF RestTrue
<1> HIDE DEF content, members, library
<1>3. /\ \A i \in gone : f[i].fn \in {"updateWorkspace", "deleteWorkspace"} => f[i].reply[1] # "ok"
      /\ \A i \in gone : f[i].fn \in MemberWrites => f[i].reply[1] # "ok"
      /\ \A i \in gone : f[i].fn # "listMembers"
      /\ \A r \in new : r.fn # "getWorkspace" /\ (r.fn = "updateWorkspace" => IsSettled(u) /\ r.reply = Pending)
      /\ \A r \in new : r.reply = Pending /\ (r.fn \in MemberWrites => r.memo = r.table[2])
      /\ \A r \in new : r.reply = Pending
      /\ "listMembers" \notin {}
  BY DEF TabFns, PanelFns, TabWrites, MemberWrites
<1>4. RowTrue(v, g, content)
  BY <1>2, <1>3, RowStays
<1>5. RosterTrue(v, g, members)
  BY <1>2, <1>3, RosterStays
<1>6. PoolTrue(v, g, library)
  BY <1>2, <1>3, PoolStays
<1> QED BY <1>1, <1>4, <1>5, <1>6 DEF RestTrue, content, members, library

(* The members are loaded again. *)
LEMMA RosterReloaded ==
  ASSUME NEW f, NEW g, NEW gone, NEW parts, NEW fns, NEW new, Turns(f, g, gone, parts, fns, new),
         NEW u, NEW v, NEW content, RosterTrue(u, f, content), "listMembers" \in fns, ComingLast(g, "listMembers"),
         \A r \in new : r.reply = Pending /\ (r.fn \in MemberWrites => r.memo = r.table[2])
  PROVE  RosterTrue(v, g, content)
<1>1. ASSUME NEW i \in Slots, g[i].fn = "listMembers", g[i].latest PROVE g[i].reply[1] # "ok"
  <2>1. g[i] \in new
    BY <1>1, SentOrStayed
  <2> QED BY <2>1 DEF Pending
<1>2. ASSUME NEW i \in Slots, g[i].fn \in MemberWrites PROVE g[i].memo = g[i].table[2]
  <2>1. CASE g[i] \notin new
    <3>1. g[i].fn # "none"
      BY <1>2 DEF MemberWrites
    <3>2. f[i].fn = g[i].fn /\ f[i].table = g[i].table /\ f[i].memo = g[i].memo
      BY <2>1, <3>1, SentOrStayed
    <3> QED BY <1>2, <3>2 DEF RosterTrue
  <2> QED BY <1>2, <2>1
<1> QED BY <1>1, <1>2 DEF RosterTrue, Latest

(* A step that leaves the workspace and its tab as they are. *)
LEMMA DetailSame ==
  ASSUME NEW gone, NEW parts, NEW fns, NEW new, Turns(flight, flight', gone, parts, fns, new),
         DetailTrue(ui, flight, db), Within,
         ui'.at = ui.at, ui'.id = ui.id, ui'.loading = ui.loading, ui'.failed = ui.failed, ui'.gone = ui.gone,
         ui'.rows = ui.rows, ui'.tab = ui.tab, ui'.panel = ui.panel, ui'.panelFailed = ui.panelFailed,
         \A i \in gone : flight[i].fn \notin TabFns,
         \A i \in gone : flight[i].fn \in {"updateWorkspace", "deleteWorkspace"} => flight[i].reply[1] # "ok",
         \A r \in new :
           /\ r.reply = Pending /\ r.fn \notin TabFns /\ r.fn # "getWorkspace"
           /\ r.fn = "updateWorkspace" => IsSettled(ui)
           /\ r.fn \in MemberWrites => r.memo = r.table[2],
         \/ "listMembers" \in fns /\ ComingLast(flight', "listMembers")
         \/ /\ \A i \in gone : flight[i].fn \in MemberWrites => flight[i].reply[1] # "ok"
            /\ \/ ui'.rosterFailed \/ ComingLast(flight', "listMembers") \/ Fits(ui'.roster, MembersOf(db, ui))
               \/ Took(flight, MemberWrites)
               \/ /\ ui'.roster = ui.roster /\ ui'.rosterFailed = ui.rosterFailed
                  /\ "listMembers" \notin fns /\ "screen" \notin parts
                  /\ \A i \in gone : flight[i].fn # "listMembers",
         ui'.dialog.kind = "addTemplate" =>
           \/ ui'.pool = NoList \/ ui'.pool = <<>> \/ Fits(ui'.pool, db[Library])
           \/ ui'.pool = ui.pool /\ ui.dialog.kind = "addTemplate"
  PROVE  DetailTrue(ui', flight', db')
<1> DEFINE content == db[Workspaces]
           members == MembersOf(db, ui)
           library == db[Library]
           panel == PanelOf(db, ui)
<1>1. RowTrue(ui, flight, content) /\ RosterTrue(ui, flight, members) /\ PoolTrue(ui, flight, library)
      /\ PanelTrue(ui, flight, panel, library)
  BY DEF DetailTrue, RestTrue
<1>2. db'[Workspaces] = content /\ MembersOf(db', ui') = members /\ db'[Library] = library /\ PanelOf(db', ui') = panel
  BY DEF Within, MembersOf, PanelOf
<1>3. library = db[Library] /\ members = MembersOf(db, ui)
  OBVIOUS
<1> HIDE DEF content, members, library, panel
<1>4. RowTrue(ui', flight', content)
  <2>1. \A r \in new : r.fn # "getWorkspace" /\ (r.fn = "updateWorkspace" => IsSettled(ui) /\ r.reply = Pending)
    OBVIOUS
  <2> QED BY <1>1, <2>1, RowStays
<1>5. RosterTrue(ui', flight', members)
  <2>1. \A r \in new : r.reply = Pending /\ (r.fn \in MemberWrites => r.memo = r.table[2])
    OBVIOUS
  <2>2. CASE "listMembers" \in fns /\ ComingLast(flight', "listMembers")
    BY <1>1, <2>1, <2>2, RosterReloaded
  <2>3. CASE \A i \in gone : flight[i].fn \in MemberWrites => flight[i].reply[1] # "ok"
    <3>1. CASE ui'.rosterFailed \/ ComingLast(flight', "listMembers") \/ Fits(ui'.roster, members) \/ Took(flight, MemberWrites)
      BY <1>1, <2>1, <2>3, <3>1, RosterStays
    <3>2. CASE /\ ui'.roster = ui.roster /\ ui'.rosterFailed = ui.rosterFailed
               /\ "listMembers" \notin fns /\ "screen" \notin parts
               /\ \A i \in gone : flight[i].fn # "listMembers"
      BY <1>1, <2>1, <2>3, <3>2, RosterStays
    <3> QED BY <1>3, <2>2, <3>1, <3>2
  <2> QED BY <2>2, <2>3
<1>6. PoolTrue(ui', flight', library)
  <2>1. \A r \in new : r.reply = Pending
    OBVIOUS
  <2>2. ui'.dialog.kind = "addTemplate" =>
           \/ ui'.pool = NoList \/ ui'.pool = <<>> \/ Fits(ui'.pool, library)
           \/ ui'.pool = ui.pool /\ ui.dialog.kind = "addTemplate"
    BY <1>3
  <2> QED BY <1>1, <2>1, <2>2, PoolStays
<1>7. PanelTrue(ui', flight', panel, library)
  <2>1. IsSettled(ui) => IsSettled(ui')
    BY DEF IsSettled
  <2>2. \A r \in new : r.fn \notin TabFns
    OBVIOUS
  <2> QED BY <1>1, <2>1, <2>2, PanelStays
<1> QED BY <1>2, <1>4, <1>5, <1>6, <1>7 DEF DetailTrue, RestTrue

-----------------------------------------------------------------------------
(* Its members and its dialogs.                                            *)

(* The members are loaded again. *)
LEMMA RetryMembersTrue ==
  ASSUME Inv, DetailTrue(ui, flight, db), RetryMembers
  PROVE  DetailTrue(ui', flight', db')
<1> DEFINE q == ListMembers(ui.id, "load")
           v == [ui EXCEPT !.rosterFailed = FALSE]
<1>1. Settled /\ Room(1) /\ Client(v, Send(Supersede(flight, {"listMembers"}), q))
  BY DEF RetryMembers, LoadMembers
<1>2. /\ ui.at = "detail" /\ Flights(flight) /\ token \in Nat /\ DOMAIN ui = DetailFields /\ ui.id \in WorkspaceIds
  BY <1>1, WhenSettled DEF DetailFields
<1>3. New(q) /\ q.fn = "listMembers" /\ q.owner = {"screen", "tab"} /\ q.latest
  BY <1>2, ListMembersIs, DetailLoadsAreLatest
<1>4. Within /\ ui' = v /\ flight' = Send(Supersede(flight, {"listMembers"}), q)
  BY <1>1, ClientWithin
<1> HIDE DEF q
<1>5. Turns(flight, flight', {}, {}, {"listMembers"}, {q})
  <2>1. FreeSlots(flight) # {}
    BY <1>1, <1>2, RoomIsFree
  <2> QED BY <1>2, <1>3, <1>4, <2>1, ReloadTurns DEF New
<1>6. /\ ui'.at = ui.at /\ ui'.id = ui.id /\ ui'.loading = ui.loading /\ ui'.failed = ui.failed
      /\ ui'.gone = ui.gone /\ ui'.rows = ui.rows
      /\ ui'.tab = ui.tab /\ ui'.panel = ui.panel /\ ui'.panelFailed = ui.panelFailed /\ ui'.dialog = ui.dialog
      /\ ui'.pool = ui.pool
  BY <1>2, <1>4 DEF DetailFields
<1>7. "listMembers" \in {"listMembers"} /\ ComingLast(flight', "listMembers")
  BY <1>3, <1>5, NewComes DEF New
<1>8. \A r \in {q} :
           /\ r.reply = Pending /\ r.fn \notin TabFns /\ r.fn # "getWorkspace"
           /\ r.fn = "updateWorkspace" => IsSettled(ui)
           /\ r.fn \in MemberWrites => r.memo = r.table[2]
  BY <1>3 DEF New, TabFns, PanelFns, TabWrites, MemberWrites
<1>9. /\ \A i \in {} : flight[i].fn \notin TabFns
      /\ \A i \in {} : flight[i].fn \in {"updateWorkspace", "deleteWorkspace"} => flight[i].reply[1] # "ok"
  OBVIOUS
<1>10. ui'.dialog.kind = "addTemplate" => ui'.pool = ui.pool /\ ui.dialog.kind = "addTemplate"
  BY <1>6
<1>11. Within
  BY <1>4
<1> QED BY <1>5, <1>6, <1>7, <1>8, <1>9, <1>10, <1>11, DetailSame

(* A click on the screen that is not of what the tab has loaded. *)
LEMMA DetailClickTrue ==
  ASSUME Inv, IsSettled(ui), DetailTrue(ui, flight, db), NEW v, NEW r, New(r), Click(v, r),
         r.fn \in MemberWrites \cup {"updateWorkspace", "deleteWorkspace"}, r.fn \in MemberWrites => r.memo = r.table[2],
         v.at = ui.at, v.id = ui.id, v.loading = ui.loading, v.failed = ui.failed, v.gone = ui.gone,
         v.rows = ui.rows, v.tab = ui.tab, v.panel = ui.panel, v.panelFailed = ui.panelFailed,
         v.roster = ui.roster, v.rosterFailed = ui.rosterFailed, v.dialog = ui.dialog, v.pool = ui.pool
  PROVE  DetailTrue(ui', flight', db')
<1>1. Within /\ ui' = v /\ Turns(flight, flight', {}, {}, {}, {r})
  BY ClickWithin DEF New
<1>2. /\ ui'.at = ui.at /\ ui'.id = ui.id /\ ui'.loading = ui.loading /\ ui'.failed = ui.failed /\ ui'.gone = ui.gone
      /\ ui'.rows = ui.rows /\ ui'.tab = ui.tab /\ ui'.panel = ui.panel /\ ui'.panelFailed = ui.panelFailed
      /\ ui'.roster = ui.roster /\ ui'.rosterFailed = ui.rosterFailed /\ ui'.dialog = ui.dialog /\ ui'.pool = ui.pool
  BY <1>1
<1>3. \A s \in {r} :
           /\ s.reply = Pending /\ s.fn \notin TabFns /\ s.fn # "getWorkspace"
           /\ s.fn = "updateWorkspace" => IsSettled(ui)
           /\ s.fn \in MemberWrites => s.memo = s.table[2]
  BY DEF New, TabFns, PanelFns, TabWrites, MemberWrites
<1>4. /\ \A i \in {} : flight[i].fn \notin TabFns
      /\ \A i \in {} : flight[i].fn \in {"updateWorkspace", "deleteWorkspace"} => flight[i].reply[1] # "ok"
      /\ \A i \in {} : flight[i].fn \in MemberWrites => flight[i].reply[1] # "ok"
      /\ \A i \in {} : flight[i].fn # "listMembers"
      /\ "listMembers" \notin {} /\ "screen" \notin {}
  OBVIOUS
<1>5. ui'.dialog.kind = "addTemplate" => ui'.pool = ui.pool /\ ui.dialog.kind = "addTemplate"
  BY <1>2
<1>6. Within /\ Turns(flight, flight', {}, {}, {}, {r})
  BY <1>1
<1> QED BY <1>2, <1>3, <1>4, <1>5, <1>6, DetailSame

(* What is shown is of the workspace of the route. *)
LEMMA ShownIs ==
  ASSUME Inv, Settled, DetailTrue(ui, flight, db)
  PROVE  Shown = ui.id
BY WhenSettled DEF DetailTrue, RestTrue, RowTrue, Shown

(* The buttons that write a member or the workspace. *)
LEMMA DetailClicksTrue ==
  ASSUME Inv, DetailTrue(ui, flight, db),
         SaveRoles \/ (\E row \in Id["members"] : AddMember(row)) \/ Rename \/ DeleteWorkspace
  PROVE  DetailTrue(ui', flight', db')
<1>1. Settled
  BY DEF SaveRoles, AddMember, Rename, DeleteWorkspace
<1>2. /\ IsSettled(ui) /\ ui.at = "detail" /\ DetailTyped(ui) /\ token \in Nat /\ Fresh \in Nat /\ 0 \in Nat
      /\ Shown \in WorkspaceIds /\ Shown \in Nat /\ ui.id \in WorkspaceIds /\ ui.dialog.row \in Nat
      /\ DOMAIN ui = {"at", "id", "loading", "failed", "gone", "rows", "roster", "rosterFailed", "tab", "panel",
                      "panelFailed", "dialog", "pool", "busy", "busyId"}
  BY <1>1, WhenSettled
<1>3. Shown = ui.id
  BY <1>1, ShownIs
<1> DEFINE V(b) == [ui EXCEPT !.busy = @ \cup {b}]
<1>4. \A b : LET v == V(b) IN
        /\ v.at = ui.at /\ v.id = ui.id /\ v.loading = ui.loading /\ v.failed = ui.failed /\ v.gone = ui.gone
        /\ v.rows = ui.rows /\ v.tab = ui.tab /\ v.panel = ui.panel /\ v.panelFailed = ui.panelFailed
        /\ v.roster = ui.roster /\ v.rosterFailed = ui.rosterFailed /\ v.dialog = ui.dialog /\ v.pool = ui.pool
  BY <1>2
<1>5. ASSUME NEW b, NEW r, New(r), Click(V(b), r), r.fn \in MemberWrites \cup {"updateWorkspace", "deleteWorkspace"},
             r.fn \in MemberWrites => r.memo = r.table[2]
      PROVE  DetailTrue(ui', flight', db')
  <2> DEFINE v == V(b)
  <2>1. /\ v.at = ui.at /\ v.id = ui.id /\ v.loading = ui.loading /\ v.failed = ui.failed /\ v.gone = ui.gone
        /\ v.rows = ui.rows /\ v.tab = ui.tab /\ v.panel = ui.panel /\ v.panelFailed = ui.panelFailed
        /\ v.roster = ui.roster /\ v.rosterFailed = ui.rosterFailed /\ v.dialog = ui.dialog /\ v.pool = ui.pool
    BY <1>4
  <2>2. Click(v, r)
    BY <1>5
  <2> HIDE DEF v, V
  <2> QED BY <1>2, <1>5, <2>1, <2>2, DetailClickTrue
<1>6. CASE SaveRoles
  <2> DEFINE r == Call("replaceMemberRoles", T("members", Shown), ui.dialog.row, Fresh, {"screen", "tab", "dialog"}, ui.id)
  <2>1. Click(V("roles"), r)
    BY <1>6 DEF SaveRoles
  <2>2. New(r) /\ r.fn = "replaceMemberRoles"
    <3>1. T("members", Shown) = T(AskedOf["replaceMemberRoles"], Shown) /\ {"screen", "tab", "dialog"} \in SUBSET Parts
      BY DEF AskedOf, Parts
    <3> QED BY <1>2, <3>1, DetailWrites
  <2>3. r.memo = r.table[2]
    BY <1>3 DEF Call, T
  <2> HIDE DEF r, V
  <2> QED BY <1>5, <2>1, <2>2, <2>3 DEF MemberWrites
<1>7. CASE \E row \in Id["members"] : AddMember(row)
  <2>1. PICK row \in Id["members"] : AddMember(row)
    BY <1>7
  <2> DEFINE owner == {"screen", "dialog"}
             w == Shown
             memo == ui.id
             value == Fresh
             r == Call("addMember", T("members", w), row, value, owner, memo)
  <2>2. Click(V("addMember"), r)
    BY <2>1 DEF AddMember
  <2>3. r.memo = r.table[2]
    BY <1>3 DEF Call, T
  <2>4. row \in Nat
    BY IdsTyped DEF Kinds
  <2>5. T("members", w) = T(AskedOf["addMember"], w) /\ owner \in SUBSET Parts
    BY DEF AskedOf, Parts
  <2>6. r = Call("addMember", T(AskedOf["addMember"], w), row, value, owner, memo)
    BY <2>5
  <2>7. w \in WorkspaceIds /\ memo \in WorkspaceIds /\ value \in Nat
    BY <1>2
  <2> HIDE DEF r, owner, w, memo, value, V
  <2>8. New(r) /\ r.fn = "addMember"
    BY <1>2, <2>4, <2>5, <2>6, <2>7, DetailWrites
  <2> QED BY <1>5, <2>2, <2>3, <2>8 DEF MemberWrites
<1>8. CASE Rename
  <2> DEFINE r == Call("updateWorkspace", Workspaces, Shown, Fresh, {"screen", "tab"}, 0)
  <2>1. Click(V("rename"), r)
    BY <1>8 DEF Rename
  <2>2. New(r) /\ r.fn = "updateWorkspace"
    BY <1>2, WorkspaceWrites
  <2> HIDE DEF r, V
  <2> QED BY <1>5, <2>1, <2>2 DEF MemberWrites
<1>9. CASE DeleteWorkspace
  <2> DEFINE r == Call("deleteWorkspace", Workspaces, Shown, 0, {"screen", "tab"}, 0)
  <2>1. Click(V("delete"), r)
    BY <1>9 DEF DeleteWorkspace
  <2>2. New(r) /\ r.fn = "deleteWorkspace"
    BY <1>2, WorkspaceWrites
  <2> HIDE DEF r, V
  <2> QED BY <1>5, <2>1, <2>2 DEF MemberWrites
<1> QED BY <1>6, <1>7, <1>8, <1>9

(* A dialog is opened, and loads what can be picked in it. *)
LEMMA OpenDetailDialogTrue ==
  ASSUME Inv, DetailTrue(ui, flight, db),
         NEW kind \in Dialogs \cup {"deleteWorkspace"}, NEW row \in Id["members"] \cup {0}, OpenDetailDialog(kind, row)
  PROVE  DetailTrue(ui', flight', db')
<1> DEFINE d == Dialog(kind, row)
           rs == PoolLoads(d, Shown)
           S == ToSet(rs)
           v == [ui EXCEPT !.dialog = d, !.pool = NoList]
<1>1. Settled /\ Room(Len(rs)) /\ Client(v, SendAll(flight, rs))
  BY DEF OpenDetailDialog
<1>2. /\ Flights(flight) /\ token \in Nat /\ DOMAIN ui = DetailFields /\ Shown \in WorkspaceIds
  BY <1>1, WhenSettled DEF DetailFields
<1>3. /\ rs \in Seq(S) /\ Len(rs) \in {0, 1}
      /\ \A r \in S : New(r) /\ r.fn \in {"listMemberCandidates", "listTemplateLibrary"}
  <2>1. /\ rs \in Seq(S) /\ Len(rs) \in {0, 1}
        /\ \A r \in S :
             /\ New(r) /\ r.owner = {"dialog"}
             /\ \/ d.kind = "addMember" /\ r.fn = "listMemberCandidates"
                \/ d.kind = "addTemplate" /\ r.fn = "listTemplateLibrary"
    BY <1>2, PoolLoadsAre
  <2> QED BY <2>1
<1>4. Within /\ ui' = v /\ flight' = SendAll(flight, rs)
  BY <1>1, ClientWithin
<1> HIDE DEF rs, S, d
<1>5. Turns(flight, flight', {}, {}, {}, S)
  <2>1. Cardinality(FreeSlots(flight)) >= Len(rs) /\ Len(rs) =< 2
    BY <1>1, <1>3, AtMostOne DEF Room
  <2>2. \A r \in S : IsRequest(r)
    BY <1>3 DEF New
  <2>3. ToSet(rs) = S
    BY DEF S
  <2> QED BY <1>2, <1>3, <1>4, <2>1, <2>2, <2>3, LoadsTurn
<1>6. /\ ui'.at = ui.at /\ ui'.id = ui.id /\ ui'.loading = ui.loading /\ ui'.failed = ui.failed
      /\ ui'.gone = ui.gone /\ ui'.rows = ui.rows /\ ui'.roster = ui.roster /\ ui'.rosterFailed = ui.rosterFailed
      /\ ui'.tab = ui.tab /\ ui'.panel = ui.panel /\ ui'.panelFailed = ui.panelFailed
      /\ ui'.pool = NoList
  BY <1>2, <1>4 DEF DetailFields
<1>7. /\ \A i \in {} : flight[i].fn \notin TabFns
      /\ \A i \in {} : flight[i].fn \in {"updateWorkspace", "deleteWorkspace"} => flight[i].reply[1] # "ok"
      /\ \A i \in {} : flight[i].fn \in MemberWrites => flight[i].reply[1] # "ok"
      /\ \A i \in {} : flight[i].fn # "listMembers"
      /\ "listMembers" \notin {} /\ "screen" \notin {}
  OBVIOUS
<1>8. \A s \in S :
           /\ s.reply = Pending /\ s.fn \notin TabFns /\ s.fn # "getWorkspace"
           /\ s.fn = "updateWorkspace" => IsSettled(ui)
           /\ s.fn \in MemberWrites => s.memo = s.table[2]
  BY <1>3 DEF New, TabFns, PanelFns, TabWrites, MemberWrites
<1>9. Within
  BY <1>4
<1> QED BY <1>5, <1>6, <1>7, <1>8, <1>9, DetailSame

(* Or closed. *)
LEMMA CloseDetailDialogTrue ==
  ASSUME Inv, DetailTrue(ui, flight, db), CloseDetailDialog
  PROVE  DetailTrue(ui', flight', db')
<1>1. /\ Settled
      /\ ui' = [ui EXCEPT !.dialog = Closed, !.pool = NoList, !.busy = @ \ Dialogs,
                          !.busyId = IF ui.dialog.kind = "addTemplate" THEN 0 ELSE @]
      /\ flight' = Unmount(flight, {"dialog"})
      /\ strays' = strays \cup Strayed(flight, {"dialog"})
      /\ UNCHANGED <<db, expired, token, refused, writes, sessions>>
  BY DEF CloseDetailDialog, serverVars, countVars
<1>2. Flights(flight) /\ DOMAIN ui = DetailFields
  BY <1>1, WhenSettled DEF DetailFields
<1>3. Within
  <2>1. Turns(flight, flight, {}, {}, {}, {})
    BY <1>2, TurnsAsIs
  <2>2. Strayed(flight, {"dialog"}) \subseteq Given
    BY <1>2, <2>1, StrayedGiven
  <2> QED BY <1>1, <2>2 DEF Within, Given, Inv, Calls, CallsTyped
<1>4. Turns(flight, flight', {}, {"dialog"}, {}, {})
  BY <1>1, <1>2, UnmountTurns
<1>5. /\ ui'.at = ui.at /\ ui'.id = ui.id /\ ui'.loading = ui.loading /\ ui'.failed = ui.failed
      /\ ui'.gone = ui.gone /\ ui'.rows = ui.rows /\ ui'.roster = ui.roster /\ ui'.rosterFailed = ui.rosterFailed
      /\ ui'.tab = ui.tab /\ ui'.panel = ui.panel /\ ui'.panelFailed = ui.panelFailed
      /\ ui'.pool = NoList
  BY <1>1, <1>2 DEF DetailFields
<1>6. /\ \A i \in {} : flight[i].fn \notin TabFns
      /\ \A i \in {} : flight[i].fn \in {"updateWorkspace", "deleteWorkspace"} => flight[i].reply[1] # "ok"
      /\ \A i \in {} : flight[i].fn \in MemberWrites => flight[i].reply[1] # "ok"
      /\ \A i \in {} : flight[i].fn # "listMembers"
      /\ "listMembers" \notin {} /\ "screen" \notin {"dialog"}
      /\ \A s \in {} :
           /\ s.reply = Pending /\ s.fn \notin TabFns /\ s.fn # "getWorkspace"
           /\ s.fn = "updateWorkspace" => IsSettled(ui)
           /\ s.fn \in MemberWrites => s.memo = s.table[2]
  OBVIOUS
<1> QED BY <1>3, <1>4, <1>5, <1>6, DetailSame

(* Members are loaded, and the popover may close with it. *)
LEMMA MembersLoadedTrue ==
  ASSUME Inv, DetailTrue(ui, flight, db), NEW i \in Slots, MembersLoaded(i)
  PROVE  DetailTrue(ui', flight', db')
<1> DEFINE screen == CASE ~flight[i].latest -> ui
                       [] flight[i].latest /\ Got(i) -> [ui EXCEPT !.roster = Result(i)]
                       [] OTHER -> [ui EXCEPT !.rosterFailed = TRUE]
           closes == flight[i].memo = "roles" /\ Awaits(i, "tab") /\ ui.dialog.kind = "roles"
           v == IF closes THEN [screen EXCEPT !.dialog = Closed, !.busy = @ \ {"roles"}] ELSE screen
           parts == IF closes THEN {"dialog"} ELSE {}
<1>1. /\ flight[i] # Idle /\ flight[i].fn = "listMembers" /\ "screen" \in flight[i].owner
      /\ Client(v, Unmount(Done(i), parts))
  BY DEF MembersLoaded, Answered, Awaits
<1>2. ui.at = "detail"
  <2>1. flight[i].owner # {}
    BY <1>1
  <2> QED BY <1>1, <2>1, WhereItIs DEF AskedOf
<1>3. Flights(flight) /\ DOMAIN ui = DetailFields /\ flight[i].latest \in BOOLEAN /\ ui.rosterFailed \in BOOLEAN
  BY <1>1, <1>2, AtDetail DEF DetailFields, DetailTyped, IsRequest
<1>4. Within /\ ui' = v /\ flight' = Unmount(Done(i), parts)
  BY <1>1, ClientWithin
<1>5. Turns(flight, flight', {i}, parts, {}, {})
  BY <1>3, <1>4, DoneTurns, PartsTurn
<1>6. /\ DOMAIN screen = DetailFields /\ screen.at = ui.at /\ screen.id = ui.id /\ screen.loading = ui.loading
      /\ screen.failed = ui.failed /\ screen.gone = ui.gone /\ screen.rows = ui.rows /\ screen.tab = ui.tab
      /\ screen.dialog = ui.dialog /\ screen.panel = ui.panel /\ screen.panelFailed = ui.panelFailed
      /\ screen.pool = ui.pool
      /\ \/ ~flight[i].latest /\ screen.roster = ui.roster /\ screen.rosterFailed = ui.rosterFailed
         \/ flight[i].latest /\ Got(i) /\ screen.roster = Result(i)
         \/ screen.rosterFailed
  <2>1. CASE ~flight[i].latest
    <3>1. screen = ui
      BY <2>1
    <3> HIDE DEF screen
    <3> QED BY <1>3, <2>1, <3>1
  <2>2. CASE flight[i].latest /\ Got(i)
    <3>1. screen = [ui EXCEPT !.roster = Result(i)]
      BY <2>2
    <3> HIDE DEF screen
    <3> QED BY <1>3, <2>2, <3>1 DEF DetailFields
  <2>3. CASE flight[i].latest /\ ~Got(i)
    <3>1. screen = [ui EXCEPT !.rosterFailed = TRUE]
      BY <2>3
    <3> HIDE DEF screen
    <3>2. screen.rosterFailed = TRUE
      BY <1>3, <3>1 DEF DetailFields
    <3> QED BY <1>3, <3>1, <3>2 DEF DetailFields
  <2> HIDE DEF screen
  <2> QED BY <1>3, <2>1, <2>2, <2>3
<1> HIDE DEF screen
<1>7. /\ v.at = ui.at /\ v.id = ui.id /\ v.loading = ui.loading /\ v.failed = ui.failed /\ v.gone = ui.gone
      /\ v.rows = ui.rows /\ v.tab = ui.tab /\ v.panel = ui.panel /\ v.panelFailed = ui.panelFailed
      /\ v.roster = screen.roster /\ v.rosterFailed = screen.rosterFailed /\ v.pool = ui.pool
      /\ v.dialog = ui.dialog \/ v.dialog = Closed
      /\ "screen" \notin parts
  <2>1. CASE closes
    <3>1. v = [screen EXCEPT !.dialog = Closed, !.busy = @ \ {"roles"}] /\ parts = {"dialog"}
      BY <2>1
    <3> HIDE DEF v, parts, closes
    <3> QED BY <1>6, <3>1 DEF DetailFields
  <2>2. CASE ~closes
    <3>1. v = screen /\ parts = {}
      BY <2>2
    <3> HIDE DEF v, parts, closes
    <3> QED BY <1>6, <3>1
  <2> QED BY <2>1, <2>2
<1> HIDE DEF v, parts, closes
<1>8. ui'.rosterFailed \/ ComingLast(flight', "listMembers") \/ Fits(ui'.roster, MembersOf(db, ui)) \/ Took(flight, MemberWrites)
  <2> DEFINE content == MembersOf(db, ui)
  <2>1. RosterTrue(ui, flight, content)
    BY DEF DetailTrue, RestTrue
  <2> HIDE DEF content
  <2>2. CASE ~flight[i].latest /\ screen.roster = ui.roster /\ screen.rosterFailed = ui.rosterFailed
    <3>1. \A j \in {i} : ~(flight[j].fn = "listMembers" /\ flight[j].latest)
      BY <2>2
    <3>2. "listMembers" \notin {}
      OBVIOUS
    <3>3. ComingLast(flight, "listMembers") => ComingLast(flight', "listMembers")
      BY <1>5, <1>7, <3>1, <3>2, ComingLastOn
    <3> QED BY <1>4, <1>7, <2>1, <2>2, <3>3 DEF RosterTrue, content
  <2>3. CASE flight[i].latest /\ Got(i) /\ screen.roster = Result(i)
    <3>1. i \in Latest(flight, "listMembers")
      BY <1>1, <2>3 DEF Latest
    <3> QED BY <1>4, <1>7, <2>1, <2>3, <3>1 DEF RosterTrue, Got, Result, content
  <2>4. CASE screen.rosterFailed
    BY <1>4, <1>7, <2>4
  <2> QED BY <1>6, <2>2, <2>3, <2>4
<1>9. /\ ui'.at = ui.at /\ ui'.id = ui.id /\ ui'.loading = ui.loading /\ ui'.failed = ui.failed
      /\ ui'.gone = ui.gone /\ ui'.rows = ui.rows
      /\ ui'.tab = ui.tab /\ ui'.panel = ui.panel /\ ui'.panelFailed = ui.panelFailed
  BY <1>4, <1>7
<1>10. ui'.dialog.kind = "addTemplate" => ui'.pool = ui.pool /\ ui.dialog.kind = "addTemplate"
  BY <1>4, <1>7 DEF Closed
<1>11. /\ \A j \in {i} : flight[j].fn \notin TabFns
       /\ \A j \in {i} : flight[j].fn \in {"updateWorkspace", "deleteWorkspace"} => flight[j].reply[1] # "ok"
       /\ \A j \in {i} : flight[j].fn \in MemberWrites => flight[j].reply[1] # "ok"
  BY <1>1 DEF TabFns, PanelFns, TabWrites, MemberWrites
<1>12. \A r \in {} :
           /\ r.reply = Pending /\ r.fn \notin TabFns /\ r.fn # "getWorkspace"
           /\ r.fn = "updateWorkspace" => IsSettled(ui)
           /\ r.fn \in MemberWrites => r.memo = r.table[2]
  OBVIOUS
<1>13. Within
  BY <1>4
<1> QED BY <1>5, <1>8, <1>9, <1>10, <1>11, <1>12, <1>13, DetailSame

(* The loads of a dialog are answered. *)
LEMMA PoolLoadedTrue ==
  ASSUME Inv, DetailTrue(ui, flight, db), NEW i \in Slots, PoolLoaded(i)
  PROVE  DetailTrue(ui', flight', db')
<1> DEFINE v == [ui EXCEPT !.pool = IF Got(i) THEN Result(i) ELSE <<>>]
<1>1. /\ flight[i] # Idle /\ flight[i].fn \in {"listMemberCandidates", "listTemplateLibrary"} /\ Client(v, Done(i))
      /\ "dialog" \in flight[i].owner
  BY DEF PoolLoaded, Answered, Awaits
<1>2. Waiter(ui, flight[i])
  BY <1>1 DEF Inv, Screen, Waiters
<1>3. ui.at = "detail"
  <2>1. ui.at \in {"detail", "library"}
    BY <1>1, WhereItIs DEF AskedOf
  <2> QED BY <1>1, <1>2, <2>1 DEF Waiter
<1>4. Flights(flight) /\ DOMAIN ui = DetailFields
  BY <1>1, <1>3, AtDetail DEF DetailFields
<1>5. Within /\ ui' = v /\ flight' = Done(i)
  BY <1>1, ClientWithin
<1>6. Turns(flight, flight', {i}, {}, {}, {})
  BY <1>4, <1>5, DoneTurns
<1>7. /\ v.at = ui.at /\ v.id = ui.id /\ v.loading = ui.loading /\ v.failed = ui.failed
      /\ v.gone = ui.gone /\ v.rows = ui.rows /\ v.tab = ui.tab /\ v.dialog = ui.dialog /\ v.roster = ui.roster
      /\ v.rosterFailed = ui.rosterFailed /\ v.panel = ui.panel /\ v.panelFailed = ui.panelFailed
      /\ v.pool = IF Got(i) THEN Result(i) ELSE <<>>
  BY <1>3, <1>4 DEF DetailFields
<1> HIDE DEF v
<1>8. ui'.dialog.kind = "addTemplate" => ui'.pool = <<>> \/ Fits(ui'.pool, db[Library])
  <2>1. SUFFICES ASSUME ui.dialog.kind = "addTemplate", Got(i) PROVE Fits(Result(i), db[Library])
    BY <1>5, <1>7
  <2>2. flight[i].fn = "listTemplateLibrary"
    BY <1>1, <1>2, <1>3, <2>1 DEF Waiter, DialogWaiter
  <2> QED BY <2>1, <2>2 DEF DetailTrue, RestTrue, PoolTrue, Got, Result
<1>9. /\ ui'.at = ui.at /\ ui'.id = ui.id /\ ui'.loading = ui.loading /\ ui'.failed = ui.failed
      /\ ui'.gone = ui.gone /\ ui'.rows = ui.rows /\ ui'.roster = ui.roster /\ ui'.rosterFailed = ui.rosterFailed
      /\ ui'.tab = ui.tab /\ ui'.panel = ui.panel /\ ui'.panelFailed = ui.panelFailed
  BY <1>5, <1>7
<1>10. /\ \A j \in {i} : flight[j].fn \notin TabFns
       /\ \A j \in {i} : flight[j].fn \in {"updateWorkspace", "deleteWorkspace"} => flight[j].reply[1] # "ok"
       /\ \A j \in {i} : flight[j].fn \in MemberWrites => flight[j].reply[1] # "ok"
       /\ \A j \in {i} : flight[j].fn # "listMembers"
       /\ "listMembers" \notin {} /\ "screen" \notin {}
  BY <1>1 DEF TabFns, PanelFns, TabWrites, MemberWrites
<1>11. \A r \in {} :
           /\ r.reply = Pending /\ r.fn \notin TabFns /\ r.fn # "getWorkspace"
           /\ r.fn = "updateWorkspace" => IsSettled(ui)
           /\ r.fn \in MemberWrites => r.memo = r.table[2]
  OBVIOUS
<1>12. Within
  BY <1>5
<1> QED BY <1>6, <1>8, <1>9, <1>10, <1>11, <1>12, DetailSame

(* A write of the members is answered: they are loaded again. *)
LEMMA MemberSavedTrue ==
  ASSUME Inv, Clear(ui, flight), DetailTrue(ui, flight, db), NEW i \in Slots, MemberSaved(i)
  PROVE  DetailTrue(ui', flight', db')
<1> DEFINE label == IF flight[i].fn = "addMember" THEN "addMember" ELSE "roles"
           added == flight[i].fn = "addMember" /\ ui.dialog.kind = "addMember"
<1>1. flight[i] # Idle /\ flight[i].fn \in {"replaceMemberRoles", "addMember"}
  BY DEF MemberSaved, Answered
<1>2. /\ Flights(flight) /\ Asked(flight[i]) /\ IsRequest(flight[i]) /\ token \in Nat /\ Turns(flight, Done(i), {i}, {}, {}, {})
      /\ Flights(Done(i)) /\ FreeSlots(Done(i)) # {}
  <2>1. Flights(flight)
    BY DEF Inv, Calls, CallsTyped
  <2> QED BY <1>1, <2>1, DoneTurns, WasDone DEF Inv, Calls, CallsTyped, Flights
<1>3. Awaits(i, "screen")
  <2>1. Writes(flight[i]) /\ flight[i].fn \notin TabWrites
    BY <1>1 DEF Writes, Writing, Verb, TabWrites
  <2> QED BY <2>1 DEF Clear, Awaits
<1>4. ui.at = "detail" /\ DetailTyped(ui) /\ DOMAIN ui = DetailFields
  <2>1. ui.at = "detail"
    BY <1>1, <1>3, WhereItIs DEF AskedOf, Awaits
  <2> QED BY <2>1, AtDetail DEF DetailFields
<1>5. /\ \A j \in {i} : flight[j].fn \notin TabFns
      /\ \A j \in {i} : flight[j].fn \in {"updateWorkspace", "deleteWorkspace"} => flight[j].reply[1] # "ok"
      /\ \A j \in {i} : flight[j].fn # "listMembers"
  BY <1>1 DEF TabFns, PanelFns, TabWrites
<1>6. CASE ~Got(i)
  <2> DEFINE v == IF Awaits(i, "dialog") THEN [ui EXCEPT !.busy = @ \ {label}] ELSE ui
  <2>1. Client(v, Done(i))
    BY <1>3, <1>6 DEF MemberSaved
  <2>2. Within /\ ui' = v /\ flight' = Done(i)
    BY <2>1, ClientWithin
  <2> HIDE DEF label
  <2>3. /\ v.at = ui.at /\ v.id = ui.id /\ v.loading = ui.loading
        /\ v.failed = ui.failed /\ v.gone = ui.gone /\ v.rows = ui.rows /\ v.tab = ui.tab /\ v.roster = ui.roster
        /\ v.dialog = ui.dialog /\ v.panel = ui.panel /\ v.panelFailed = ui.panelFailed /\ v.rosterFailed = ui.rosterFailed
        /\ v.pool = ui.pool
    <3>1. CASE Awaits(i, "dialog")
      BY <1>4, <3>1 DEF DetailFields
    <3>2. CASE ~Awaits(i, "dialog")
      BY <1>4, <3>2
    <3> QED BY <3>1, <3>2
  <2> HIDE DEF v
  <2>4. /\ ui'.at = ui.at /\ ui'.id = ui.id /\ ui'.loading = ui.loading /\ ui'.failed = ui.failed
        /\ ui'.gone = ui.gone /\ ui'.rows = ui.rows /\ ui'.roster = ui.roster /\ ui'.rosterFailed = ui.rosterFailed
        /\ ui'.tab = ui.tab /\ ui'.panel = ui.panel /\ ui'.panelFailed = ui.panelFailed
        /\ ui'.dialog.kind = "addTemplate" => ui'.pool = ui.pool /\ ui.dialog.kind = "addTemplate"
    BY <2>2, <2>3
  <2>5. \A j \in {i} : flight[j].fn \in MemberWrites => flight[j].reply[1] # "ok"
    BY <1>6 DEF Got
  <2>6. "listMembers" \notin {} /\ "screen" \notin {}
    OBVIOUS
  <2>7. \A r \in {} :
           /\ r.reply = Pending /\ r.fn \notin TabFns /\ r.fn # "getWorkspace"
           /\ r.fn = "updateWorkspace" => IsSettled(ui)
           /\ r.fn \in MemberWrites => r.memo = r.table[2]
    OBVIOUS
  <2>8. Within /\ Turns(flight, flight', {i}, {}, {}, {})
    BY <1>2, <2>2
  <2> QED BY <1>5, <2>4, <2>5, <2>6, <2>7, <2>8, DetailSame
<1>7. CASE Got(i)
  <2> DEFINE v == [ui EXCEPT !.rosterFailed = FALSE,
                     !.dialog = IF added THEN Closed ELSE @, !.pool = IF added THEN NoList ELSE @,
                     !.busy = IF added THEN @ \ {label} ELSE @]
             parts == IF added THEN {"dialog"} ELSE {}
             f == Unmount(Done(i), parts)
             m == IF label = "roles" /\ Awaits(i, "tab") THEN "roles" ELSE "load"
             q == ListMembers(flight[i].memo, m)
  <2>1. Client(v, Send(Supersede(f, {"listMembers"}), q))
    BY <1>3, <1>7 DEF MemberSaved, LoadMembers
  <2>2. Within /\ ui' = v /\ flight' = Send(Supersede(f, {"listMembers"}), q)
    BY <2>1, ClientWithin
  <2>3. New(q) /\ q.fn = "listMembers" /\ q.owner = {"screen", "tab"} /\ q.latest
    <3>1. flight[i].memo \in WorkspaceIds
      BY <1>1, <1>2 DEF Asked
    <3> HIDE DEF m
    <3> QED BY <1>2, <3>1, ListMembersIs, DetailLoadsAreLatest
  <2> HIDE DEF q
  <2>4. Turns(flight, flight', {i}, parts, {"listMembers"}, {q})
    <3>1. Turns(flight, f, {i}, parts, {}, {})
      BY <1>2, PartsTurn
    <3>2. Flights(f) /\ FreeSlots(f) # {}
      BY <1>2, StillFree, Unmounted
    <3> HIDE DEF f
    <3>3. Turns(f, flight', {}, {}, {"listMembers"}, {q})
      BY <2>2, <2>3, <3>2, ReloadTurns DEF New
    <3> QED BY <3>1, <3>3, ThenTurns
  <2> HIDE DEF f
  <2>5. /\ v.at = ui.at /\ v.id = ui.id /\ v.loading = ui.loading
        /\ v.failed = ui.failed /\ v.gone = ui.gone /\ v.rows = ui.rows /\ v.tab = ui.tab
        /\ v.panel = ui.panel /\ v.panelFailed = ui.panelFailed
        /\ v.dialog = (IF added THEN Closed ELSE ui.dialog)
        /\ v.pool = (IF added THEN NoList ELSE ui.pool)
    <3> HIDE DEF added, label
    <3> QED BY <1>4 DEF DetailFields
  <2> HIDE DEF v, parts, added, label, m
  <2>6. "listMembers" \in {"listMembers"} /\ ComingLast(flight', "listMembers")
    BY <2>3, <2>4, NewComes DEF New
  <2>7. ui'.dialog.kind = "addTemplate" => ui'.pool = ui.pool /\ ui.dialog.kind = "addTemplate"
    <3>1. CASE added
      BY <2>2, <2>5, <3>1 DEF Closed
    <3>2. CASE ~added
      BY <2>2, <2>5, <3>2
    <3> QED BY <3>1, <3>2
  <2>8. /\ ui'.at = ui.at /\ ui'.id = ui.id /\ ui'.loading = ui.loading /\ ui'.failed = ui.failed
        /\ ui'.gone = ui.gone /\ ui'.rows = ui.rows
        /\ ui'.tab = ui.tab /\ ui'.panel = ui.panel /\ ui'.panelFailed = ui.panelFailed
    BY <2>2, <2>5
  <2>9. \A r \in {q} :
           /\ r.reply = Pending /\ r.fn \notin TabFns /\ r.fn # "getWorkspace"
           /\ r.fn = "updateWorkspace" => IsSettled(ui)
           /\ r.fn \in MemberWrites => r.memo = r.table[2]
    BY <2>3 DEF New, TabFns, PanelFns, TabWrites, MemberWrites
  <2>10. Within
    BY <2>2
  <2> QED BY <1>5, <2>4, <2>6, <2>7, <2>8, <2>9, <2>10, DetailSame
<1> QED BY <1>6, <1>7

-----------------------------------------------------------------------------
(* Its tabs.                                                               *)

(* What a tab loads is of the workspace. *)
LEMMA PanelLoadsOf ==
  ASSUME NEW tab \in Tabs, NEW w, NEW rs, rs = PanelLoads(tab, w)
  PROVE  \A r \in ToSet(rs) : r.table[2] = w
<1>1. CASE tab = "templates"
  BY <1>1 DEF PanelLoads, Load, Call, T, ToSet
<1>2. CASE tab = "providers"
  BY <1>2 DEF PanelLoads, Load, Call, T, ToSet
<1>3. CASE tab = "guardrails"
  BY <1>3 DEF PanelLoads, Load, Call, T, ToSet
<1>4. CASE tab \notin {"templates", "providers", "guardrails"}
  <2>1. rs = <<>>
    BY <1>4 DEF PanelLoads
  <2> QED BY <2>1 DEF ToSet
<1> QED BY <1>1, <1>2, <1>3, <1>4

(* At most one request of these is in flight. *)
OneOf(f, fns) == \A i, j \in Slots : f[i].fn \in fns /\ f[j].fn \in fns => i = j

(* Of two requests that are sent only the first is of these. *)
LEMMA OneOfThem ==
  ASSUME NEW f, Flights(f), NEW S, \A r \in S : IsRequest(r), NEW rs \in Seq(S), Len(rs) =< 2,
         Cardinality(FreeSlots(f)) >= Len(rs), NEW fns, \A i \in Slots : f[i].fn \notin fns,
         Len(rs) = 2 => rs[2].fn \notin fns
  PROVE  OneOf(SendAll(f, rs), fns)
<1> SUFFICES \A i, j \in Slots : SendAll(f, rs)[i].fn \in fns /\ SendAll(f, rs)[j].fn \in fns => i = j
  BY DEF OneOf
<1>1. Len(rs) \in {0, 1, 2}
  <2>1. Len(rs) \in Nat
    BY LenProperties
  <2> QED BY <2>1, UpToTwo
<1>2. CASE Len(rs) = 0
  <2>1. rs = <<>>
    BY <1>2
  <2> QED BY <2>1, SentNone
<1>3. ASSUME NEW r, FreeSlots(f) # {}
      PROVE  \A i, j \in Slots : Send(f, r)[i].fn \in fns /\ Send(f, r)[j].fn \in fns => i = j
  <2>1. PICK k \in Slots : f[k] = Idle /\ Send(f, r) = [f EXCEPT ![k] = r]
    BY <1>3, Sent
  <2>2. \A i \in Slots : i # k => Send(f, r)[i] = f[i]
    BY <2>1 DEF Flights
  <2> QED BY <2>2
<1>4. CASE Len(rs) = 1
  <2>1. rs = <<rs[1]>>
    BY <1>4
  <2>2. SendAll(f, rs) = Send(f, rs[1])
    BY <2>1, SentOne
  <2>3. FreeSlots(f) # {}
    BY <1>4, OneFree
  <2> QED BY <1>3, <2>2, <2>3
<1>5. CASE Len(rs) = 2
  <2>1. rs = <<rs[1], rs[2]>> /\ IsRequest(rs[1]) /\ IsRequest(rs[2])
    BY <1>5
  <2> DEFINE q == rs[1]
             r == rs[2]
             g == Send(f, q)
  <2>2. SendAll(f, rs) = Send(g, r)
    BY <2>1, SentTwo
  <2>3. FreeSlots(f) # {} /\ IsFiniteSet(FreeSlots(f)) /\ Cardinality(FreeSlots(f)) >= 2 /\ Cardinality(FreeSlots(f)) \in Nat
    BY <1>5, OneFree, FreeFinite
  <2>4. IsRequest(q) /\ IsRequest(r) /\ r.fn \notin fns
    BY <1>5, <2>1
  <2> HIDE DEF q, r
  <2>5. PICK k \in Slots : f[k] = Idle /\ g = [f EXCEPT ![k] = q]
    BY <2>3, Sent
  <2>6. FreeSlots(g) = FreeSlots(f) \ {k} /\ k \in FreeSlots(f) /\ DOMAIN g = Slots
    BY <2>4, <2>5, IdleIsNone DEF FreeSlots, Flights
  <2>7. Cardinality(FreeSlots(f) \ {k}) = Cardinality(FreeSlots(f)) - 1
    BY <2>3, <2>6, FS_RemoveElement
  <2>8. Sends(f, g, {q})
    BY <2>4, <2>5, FlightsSent
  <2>9. Flights(g) /\ \A i, j \in Slots : g[i].fn \in fns /\ g[j].fn \in fns => i = j
    BY <1>3, <2>3, <2>8 DEF Sends
  <2> HIDE DEF g
  <2>10. Cardinality(FreeSlots(g)) >= 1
    BY <2>3, <2>6, <2>7
  <2>11. FreeSlots(g) # {}
    BY <2>9, <2>10, OneFree
  <2>12. PICK l \in Slots : g[l] = Idle /\ Send(g, r) = [g EXCEPT ![l] = r]
    BY <2>9, <2>11, Sent
  <2>13. \A i \in Slots : Send(g, r)[i].fn \in fns => i # l /\ Send(g, r)[i] = g[i]
    BY <2>4, <2>6, <2>12
  <2> QED BY <2>2, <2>9, <2>13
<1> QED BY <1>1, <1>2, <1>4, <1>5

(* What is left of what the tab has sent when it goes. *)
LEMMA GoneWithTheTab ==
  ASSUME Inv, Clear(ui, flight), NEW g, NEW gone, NEW parts, NEW fns, NEW new,
         Turns(flight, g, gone, parts, fns, new), "tab" \in parts, NEW i \in Slots
  PROVE  /\ g[i].fn \in PanelFns => g[i] \in new
         /\ g[i].fn \in TabWrites => g[i] \in new \/ (Writes(g[i]) /\ "tab" \notin g[i].owner)
<1>1. SUFFICES ASSUME g[i].fn \in TabFns, g[i] \notin new
               PROVE  g[i].fn \in TabWrites /\ Writes(g[i]) /\ "tab" \notin g[i].owner
  BY DEF TabFns, PanelFns, TabWrites
<1>2. g[i] # Idle /\ g[i].fn # "none"
  BY <1>1, IdleIsNone DEF TabFns, PanelFns, TabWrites, Verb
<1>3. flight[i].fn = g[i].fn /\ g[i].owner = flight[i].owner \ parts
  BY <1>1, <1>2, SentOrStayed
<1>4. "tab" \notin g[i].owner
  BY <1>3
<1>5. CASE g[i].fn \in PanelFns
  <2>1. ~Writing(flight[i]) /\ flight[i].owner # {} /\ flight[i].owner \ parts # {}
    <3>1. ~Writing(flight[i])
      BY <1>3, <1>5 DEF PanelFns, Writing, Verb
    <3>2. flight[i].owner # {}
      BY <1>1, <1>3, OfTheTab
    <3> QED BY <1>1, <1>2, <3>1, <3>2 DEF Turns
  <2>2. flight[i].owner = {"tab"}
    <3>1. IsRequest(flight[i]) /\ ui.at = "detail" /\ flight[i] # Idle /\ "tab" \in flight[i].owner
      BY <1>1, <1>3, OfTheTab
    <3>2. Waiter(ui, flight[i])
      BY <3>1 DEF Inv, Screen, Waiters
    <3>3. "screen" \notin flight[i].owner /\ "dialog" \notin flight[i].owner
      BY <1>3, <1>5, <3>1, <3>2 DEF Waiter, PanelFns, DialogWaiter
    <3> QED BY <3>1, <3>3 DEF IsRequest, Parts
  <2> QED BY <2>1, <2>2
<1>6. CASE g[i].fn \in TabWrites
  BY <1>2, <1>4, <1>6 DEF Writes, Writing, TabWrites, Verb
<1> QED BY <1>1, <1>5, <1>6 DEF TabFns

(* A tab of which nothing has been loaded. *)
LEMMA PanelNone ==
  ASSUME NEW v, NEW g, NEW content, NEW library, v.panel = NoList, ~v.panelFailed,
         \A i \in Slots : g[i].fn \in TabFns => g[i].fn \in PanelFns /\ g[i].table[2] = v.id /\ g[i].reply = Pending,
         \A i, j \in Slots : g[i].fn \in PanelFns /\ g[j].fn \in PanelFns => i = j
  PROVE  PanelTrue(v, g, content, library)
<1>1. TabWrites \subseteq TabFns /\ TabWrites \cap PanelFns = {} /\ PanelFns \subseteq TabFns
  BY DEF TabFns, TabWrites, PanelFns
<1>2. Pending[1] # "ok"
  BY DEF Pending
<1> QED BY <1>1, <1>2 DEF PanelTrue

(* A step of the tab. *)
LEMMA TabStep ==
  ASSUME NEW gone, NEW parts, NEW new, Turns(flight, flight', gone, parts, {}, new), Within,
         DetailTrue(ui, flight, db), "screen" \notin parts,
         ui'.at = ui.at, ui'.id = ui.id, ui'.loading = ui.loading, ui'.failed = ui.failed, ui'.gone = ui.gone,
         ui'.rows = ui.rows, ui'.roster = ui.roster, ui'.rosterFailed = ui.rosterFailed,
         ui'.dialog.kind = "addTemplate" => ui'.dialog = ui.dialog /\ ui'.pool = ui.pool,
         \A i \in gone : flight[i].fn \in TabFns, \A r \in new : r.fn \in TabFns /\ r.reply = Pending,
         PanelTrue(ui', flight', PanelOf(db, ui'), db[Library])
  PROVE  DetailTrue(ui', flight', db')
<1>1. RestTrue(ui, flight, db) /\ db' = db
  BY DEF DetailTrue, Within
<1>2. RestTrue(ui', flight', db)
  BY <1>1, RestStays
<1> QED BY <1>1, <1>2 DEF DetailTrue

(* Another tab is picked. *)
LEMMA PickTabTrue ==
  ASSUME Inv, Clear(ui, flight), Clear(ui', flight'), DetailTrue(ui, flight, db), NEW tab \in Tabs, PickTab(tab)
  PROVE  DetailTrue(ui', flight', db')
<1> DEFINE rs == PanelLoads(tab, Shown)
           S == ToSet(rs)
           f == Unmount(flight, {"tab"})
<1>1. /\ Settled /\ ui.dialog = Closed /\ Cardinality(FreeSlots(f)) >= Len(rs)
      /\ ui' = [ui EXCEPT !.tab = tab, !.panel = NoList, !.panelFailed = FALSE, !.busy = {}, !.busyId = 0]
      /\ flight' = SendAll(f, rs)
      /\ strays' = strays \cup Strayed(flight, {"tab"})
      /\ UNCHANGED <<db, expired, token, refused, writes, sessions>>
  BY DEF PickTab, serverVars, countVars
<1>2. /\ Flights(flight) /\ token \in Nat /\ DOMAIN ui = DetailFields /\ Shown \in WorkspaceIds /\ Shown = ui.id
  BY <1>1, WhenSettled, ShownIs DEF DetailFields
<1>3. /\ rs \in Seq(S) /\ Len(rs) \in {0, 1}
      /\ \A r \in S : New(r) /\ r.fn \in PanelFns /\ r.table[2] = ui.id
  BY <1>2, PanelLoadsAre, PanelLoadsOf
<1> HIDE DEF rs, S
<1>4. Within
  <2>1. Turns(flight, flight, {}, {}, {}, {})
    BY <1>2, TurnsAsIs
  <2>2. Strayed(flight, {"tab"}) \subseteq Given
    BY <1>2, <2>1, StrayedGiven
  <2> QED BY <1>1, <2>2 DEF Within, Given, Inv, Calls, CallsTyped
<1>5. Turns(flight, f, {}, {"tab"}, {}, {}) /\ Flights(f)
  BY <1>2, UnmountTurns, Unmounted
<1> HIDE DEF f
<1>6. Len(rs) =< 2 /\ ToSet(rs) = S /\ \A r \in S : IsRequest(r)
  BY <1>3, AtMostOne DEF New, S
<1>7. Turns(flight, flight', {}, {"tab"}, {}, S)
  <2>1. Turns(f, flight', {}, {}, {}, S)
    BY <1>1, <1>3, <1>5, <1>6, LoadsTurn
  <2> QED BY <1>5, <2>1, ThenTurns
<1>8. /\ ui'.at = ui.at /\ ui'.id = ui.id /\ ui'.loading = ui.loading /\ ui'.failed = ui.failed
      /\ ui'.gone = ui.gone /\ ui'.rows = ui.rows /\ ui'.roster = ui.roster /\ ui'.rosterFailed = ui.rosterFailed
      /\ ui'.panel = NoList /\ ui'.panelFailed = FALSE /\ ui'.dialog = Closed
  BY <1>1, <1>2 DEF DetailFields
<1>9. \A i, j \in Slots : flight'[i].fn \in PanelFns /\ flight'[j].fn \in PanelFns => i = j
  <2>1. \A i \in Slots : f[i].fn \notin PanelFns
    BY <1>5, GoneWithTheTab
  <2>2. Len(rs) = 2 => rs[2].fn \notin PanelFns
    BY <1>3
  <2>3. Cardinality(FreeSlots(f)) >= Len(rs)
    BY <1>1
  <2>4. \A i, j \in Slots : SendAll(f, rs)[i].fn \in PanelFns /\ SendAll(f, rs)[j].fn \in PanelFns => i = j
    <3>1. Flights(f) /\ rs \in Seq(S) /\ Len(rs) =< 2 /\ \A r \in S : IsRequest(r)
      BY <1>3, <1>5, <1>6
    <3> DEFINE fns == PanelFns
    <3> HIDE DEF fns
    <3>2. /\ \A i \in Slots : f[i].fn \notin fns
          /\ Len(rs) = 2 => rs[2].fn \notin fns
      BY <2>1, <2>2 DEF fns
    <3>3. \A i, j \in Slots : SendAll(f, rs)[i].fn \in fns /\ SendAll(f, rs)[j].fn \in fns => i = j
      BY <2>3, <3>1, <3>2, OneOfThem DEF OneOf
    <3> QED BY <3>3 DEF fns
  <2> QED BY <1>1, <2>4
<1>10. \A i \in Slots : flight'[i].fn \in TabFns =>
         flight'[i].fn \in PanelFns /\ flight'[i].table[2] = ui'.id /\ flight'[i].reply = Pending
  <2>1. SUFFICES ASSUME NEW i \in Slots, flight'[i].fn \in TabFns PROVE flight'[i] \in S
    BY <1>3, <1>8 DEF New
  <2>2. flight'[i].fn \in TabWrites /\ Writes(flight'[i]) => "tab" \in flight'[i].owner
    BY DEF Clear
  <2> QED BY <1>7, <2>1, <2>2, GoneWithTheTab DEF TabFns
<1>11. PanelTrue(ui', flight', PanelOf(db, ui'), db[Library])
  <2> DEFINE content == PanelOf(db, ui')
             library == db[Library]
  <2>1. ui'.panel = NoList /\ ~ui'.panelFailed
    BY <1>8
  <2> HIDE DEF content, library
  <2>2. PanelTrue(ui', flight', content, library)
    BY <1>9, <1>10, <2>1, PanelNone
  <2> QED BY <2>2 DEF content, library
<1>12. ui'.dialog.kind # "addTemplate" /\ "screen" \notin {"tab"} /\ \A i \in {} : flight[i].fn \in TabFns
  BY <1>8 DEF Closed
<1>13. \A r \in S : r.fn \in TabFns /\ r.reply = Pending
  BY <1>3 DEF New, TabFns
<1> QED BY <1>4, <1>7, <1>8, <1>11, <1>12, <1>13, TabStep

(* What the tab has sent is answered or was sent, and nothing else is. *)
LEMMA PanelAlone ==
  ASSUME NEW v, NEW g, NEW content, NEW library, \A i \in Slots : g[i].fn \notin TabFns,
         ~IsSettled(v) => v.panel = NoList, v.panelFailed /\ v.tab # "guardrails" => v.panel = NoList,
         v.panel = NoList \/ v.panelFailed \/ Fits(v.panel, content)
  PROVE  PanelTrue(v, g, content, library)
<1>1. TabWrites \subseteq TabFns /\ PanelFns \subseteq TabFns
  BY DEF TabFns
<1>2. ASSUME Fits(v.panel, content) PROVE TabTrue(v.tab, v.panel, g, content, library)
  <2>1. Near(v.panel, content) /\ \A x \in DOMAIN content : Agrees(v.panel, content, x)
    BY <1>2, FitsIsNear
  <2>2. \A i \in Slots : g[i].fn \notin {"attachTemplate", "detachTemplate", "setProviderEnabled", "saveGuardrailPolicy"}
    BY <1>1 DEF TabWrites
  <2>3. TemplatesTrue(v.panel, g, content, library)
    BY <2>1, <2>2 DEF TemplatesTrue
  <2>4. SwitchesTrue(v.panel, g, content)
    BY <2>1, <2>2 DEF SwitchesTrue
  <2>5. PolicyTrue(v.panel, g, content)
    BY <1>2, <2>2 DEF PolicyTrue
  <2> QED BY <2>3, <2>4, <2>5 DEF TabTrue
<1> QED BY <1>1, <1>2 DEF PanelTrue

(* What the tab shows is loaded, or fails to be. *)
LEMMA PanelLoadedTrue ==
  ASSUME Inv, Clear(ui, flight), DetailTrue(ui, flight, db), NEW i \in Slots, PanelLoaded(i)
  PROVE  DetailTrue(ui', flight', db')
<1> DEFINE v == IF Got(i) THEN [ui EXCEPT !.panel = Result(i)] ELSE [ui EXCEPT !.panelFailed = TRUE]
           content == PanelOf(db, ui)
           library == db[Library]
<1>1. flight[i] # Idle /\ flight[i].fn \in PanelFns /\ Client(v, Done(i))
  BY DEF PanelLoaded, Answered
<1>2. ui.at = "detail" /\ IsSettled(ui) /\ flight[i].fn \in TabFns
  BY <1>1, OfTheTab DEF TabFns
<1>3. Flights(flight) /\ DOMAIN ui = DetailFields
  BY <1>2, AtDetail DEF DetailFields
<1>4. Within /\ ui' = v /\ flight' = Done(i)
  BY <1>1, ClientWithin
<1>5. Turns(flight, flight', {i}, {}, {}, {})
  BY <1>3, <1>4, DoneTurns
<1>6. PanelTrue(ui, flight, content, library)
  BY DEF DetailTrue
<1>7. ui.panel = NoList /\ ~ui.panelFailed /\ (Got(i) => Fits(Result(i), content))
  BY <1>1, <1>6 DEF PanelTrue, Got, Result
<1>8. \A j \in Slots : flight'[j].fn \notin TabFns
  <2>1. SUFFICES ASSUME NEW j \in Slots, flight'[j].fn \in TabFns PROVE FALSE
    OBVIOUS
  <2>2. flight'[j].fn # "none"
    BY <2>1 DEF TabFns, PanelFns, TabWrites
  <2>3. flight[j].fn = flight'[j].fn /\ j # i
    BY <1>5, <2>2, SentOrStayed
  <2>4. flight[j].fn \notin TabWrites
    BY <1>6, <1>7 DEF PanelTrue
  <2> QED BY <1>1, <1>6, <2>1, <2>3, <2>4 DEF PanelTrue, TabFns
<1>9. /\ v.at = ui.at /\ v.id = ui.id /\ v.loading = ui.loading /\ v.failed = ui.failed
      /\ v.gone = ui.gone /\ v.rows = ui.rows /\ v.roster = ui.roster /\ v.rosterFailed = ui.rosterFailed
      /\ v.dialog = ui.dialog /\ v.pool = ui.pool /\ v.tab = ui.tab
      /\ \/ ~v.panelFailed /\ Fits(v.panel, content)
         \/ v.panelFailed /\ v.panel = NoList
  <2> HIDE DEF content
  <2>1. CASE Got(i)
    <3>1. v = [ui EXCEPT !.panel = Result(i)]
      BY <2>1
    <3> HIDE DEF v
    <3> QED BY <1>3, <1>7, <2>1, <3>1 DEF DetailFields
  <2>2. CASE ~Got(i)
    <3>1. v = [ui EXCEPT !.panelFailed = TRUE]
      BY <2>2
    <3> HIDE DEF v
    <3> QED BY <1>3, <1>7, <2>2, <3>1 DEF DetailFields
  <2> QED BY <2>1, <2>2
<1> HIDE DEF v
<1>10. PanelTrue(ui', flight', PanelOf(db, ui'), db[Library])
  <2>1. content = PanelOf(db, ui')
    BY <1>4, <1>9 DEF PanelOf
  <2>2. IsSettled(ui')
    BY <1>2, <1>4, <1>9 DEF IsSettled
  <2> HIDE DEF content
  <2>3. ui'.panelFailed /\ ui'.tab # "guardrails" => ui'.panel = NoList
    BY <1>4, <1>9
  <2>4. ui'.panel = NoList \/ ui'.panelFailed \/ Fits(ui'.panel, content)
    BY <1>4, <1>9
  <2>5. PanelTrue(ui', flight', content, library)
    BY <1>8, <2>2, <2>3, <2>4, PanelAlone
  <2> QED BY <2>1, <2>5
<1>11. /\ ui'.at = ui.at /\ ui'.id = ui.id /\ ui'.loading = ui.loading /\ ui'.failed = ui.failed
       /\ ui'.gone = ui.gone /\ ui'.rows = ui.rows /\ ui'.roster = ui.roster /\ ui'.rosterFailed = ui.rosterFailed
       /\ ui'.dialog = ui.dialog /\ ui'.pool = ui.pool
  BY <1>4, <1>9
<1>12. /\ \A j \in {i} : flight[j].fn \in TabFns
       /\ \A r \in {} : r.fn \in TabFns /\ r.reply = Pending
       /\ "screen" \notin {}
  BY <1>2
<1>13. Within
  BY <1>4
<1> QED BY <1>5, <1>10, <1>11, <1>12, <1>13, TabStep

(* The tab is to load once more. *)
LEMMA RetryPanelTrue ==
  ASSUME Inv, DetailTrue(ui, flight, db), RetryPanel
  PROVE  DetailTrue(ui', flight', db')
<1> DEFINE rs == PanelLoads(ui.tab, Shown)
           S == ToSet(rs)
           v == [ui EXCEPT !.panelFailed = FALSE, !.panel = IF ui.tab = "guardrails" THEN NoList ELSE @]
           library == db[Library]
<1>1. Settled /\ ui.panelFailed /\ Room(1) /\ Client(v, SendAll(flight, rs))
  BY DEF RetryPanel
<1>2. /\ Flights(flight) /\ token \in Nat /\ DOMAIN ui = DetailFields /\ Shown \in WorkspaceIds /\ ui.tab \in Tabs
      /\ Shown = ui.id /\ IsSettled(ui)
  BY <1>1, WhenSettled, ShownIs DEF DetailFields, DetailTyped
<1>3. /\ rs \in Seq(S) /\ Len(rs) \in {0, 1}
      /\ \A r \in S : New(r) /\ r.fn \in PanelFns /\ r.table[2] = ui.id
  BY <1>2, PanelLoadsAre, PanelLoadsOf
<1>4. Within /\ ui' = v /\ flight' = SendAll(flight, rs)
  BY <1>1, ClientWithin
<1> HIDE DEF rs, S
<1>5. Len(rs) =< 2 /\ ToSet(rs) = S /\ (\A r \in S : IsRequest(r)) /\ Cardinality(FreeSlots(flight)) >= Len(rs)
  <2>1. Cardinality(FreeSlots(flight)) >= 1 /\ Cardinality(FreeSlots(flight)) \in Nat
    BY <1>1, <1>2, FreeFinite DEF Room
  <2> QED BY <1>3, <2>1, AtMostOne DEF New, S
<1>6. Turns(flight, flight', {}, {}, {}, S)
  BY <1>2, <1>3, <1>4, <1>5, LoadsTurn
<1>7. PanelTrue(ui, flight, PanelOf(db, ui), library)
  BY DEF DetailTrue
<1>8. \A i \in Slots : flight[i].fn \notin TabFns
  BY <1>1, <1>7 DEF PanelTrue, TabFns
<1>9. /\ v.at = ui.at /\ v.id = ui.id /\ v.loading = ui.loading /\ v.failed = ui.failed
      /\ v.gone = ui.gone /\ v.rows = ui.rows /\ v.roster = ui.roster /\ v.rosterFailed = ui.rosterFailed
      /\ v.dialog = ui.dialog /\ v.pool = ui.pool /\ v.tab = ui.tab /\ v.panelFailed = FALSE
      /\ v.panel = IF ui.tab = "guardrails" THEN NoList ELSE ui.panel
  BY <1>2 DEF DetailFields
<1> HIDE DEF v
<1>10. ui'.panel = NoList /\ ~ui'.panelFailed
  <2>1. ui.tab # "guardrails" => ui.panel = NoList
    BY <1>1, <1>7 DEF PanelTrue
  <2> QED BY <1>4, <1>9, <2>1
<1>11. \A i, j \in Slots : flight'[i].fn \in PanelFns /\ flight'[j].fn \in PanelFns => i = j
  <2> DEFINE fns == PanelFns
  <2>1. \A i \in Slots : flight[i].fn \notin fns
    BY <1>8 DEF TabFns
  <2>2. Len(rs) = 2 => rs[2].fn \notin fns
    BY <1>3
  <2> HIDE DEF fns
  <2>3. rs \in Seq(S) /\ \A r \in S : IsRequest(r)
    BY <1>3, <1>5
  <2>4. \A i, j \in Slots : SendAll(flight, rs)[i].fn \in fns /\ SendAll(flight, rs)[j].fn \in fns => i = j
    BY <1>2, <1>5, <2>1, <2>2, <2>3, OneOfThem DEF OneOf
  <2> QED BY <1>4, <2>4 DEF fns
<1>12. \A i \in Slots : flight'[i].fn \in TabFns =>
         flight'[i].fn \in PanelFns /\ flight'[i].table[2] = ui'.id /\ flight'[i].reply = Pending
  <2>1. SUFFICES ASSUME NEW i \in Slots, flight'[i].fn \in TabFns PROVE flight'[i] \in S
    BY <1>3, <1>4, <1>9 DEF New
  <2>2. flight'[i].fn # "none"
    BY <2>1 DEF TabFns, PanelFns, TabWrites
  <2> QED BY <1>6, <1>8, <2>1, <2>2, SentOrStayed
<1>13. PanelTrue(ui', flight', PanelOf(db, ui'), library)
  <2> DEFINE content == PanelOf(db, ui')
  <2> HIDE DEF content, library
  <2>1. PanelTrue(ui', flight', content, library)
    BY <1>10, <1>11, <1>12, PanelNone
  <2> QED BY <2>1 DEF content
<1>14. /\ ui'.at = ui.at /\ ui'.id = ui.id /\ ui'.loading = ui.loading /\ ui'.failed = ui.failed
       /\ ui'.gone = ui.gone /\ ui'.rows = ui.rows /\ ui'.roster = ui.roster /\ ui'.rosterFailed = ui.rosterFailed
       /\ ui'.dialog = ui.dialog /\ ui'.pool = ui.pool
  BY <1>4, <1>9
<1>15. (\A j \in {} : flight[j].fn \in TabFns) /\ "screen" \notin {}
  OBVIOUS
<1>16. \A r \in S : r.fn \in TabFns /\ r.reply = Pending
  BY <1>3 DEF New, TabFns
<1>17. Within
  BY <1>4
<1> QED BY <1>6, <1>13, <1>14, <1>15, <1>16, <1>17, TabStep

(* The tab writes, or has its answer. *)
LEMMA TabWritten ==
  ASSUME NEW gone, NEW new, Turns(flight, flight', gone, {}, {}, new), Within, DetailTrue(ui, flight, db),
         IsSettled(ui), ui'.at = ui.at, ui'.id = ui.id, ui'.loading = ui.loading, ui'.failed = ui.failed,
         ui'.gone = ui.gone, ui'.rows = ui.rows, ui'.roster = ui.roster, ui'.rosterFailed = ui.rosterFailed,
         ui'.dialog = ui.dialog, ui'.pool = ui.pool, ui'.tab = ui.tab,
         \A i \in gone : flight[i].fn \in TabWrites,
         \A r \in new : r.fn \in TabWrites /\ r.reply = Pending /\ r.table[2] = ui.id,
         ui.panel # NoList, ui'.panel # NoList,
         ui'.panelFailed => ui.tab = "guardrails" /\ \A i \in Slots : flight'[i].fn \notin TabWrites,
         ui'.panelFailed \/ TabTrue(ui.tab, ui'.panel, flight', PanelOf(db, ui), db[Library])
  PROVE  DetailTrue(ui', flight', db')
<1> DEFINE content == PanelOf(db, ui)
           library == db[Library]
<1>1. PanelTrue(ui, flight, content, library)
  BY DEF DetailTrue
<1>2. content = PanelOf(db, ui')
  BY DEF PanelOf
<1>3. ui'.panelFailed \/ TabTrue(ui'.tab, ui'.panel, flight', content, library)
  OBVIOUS
<1> HIDE DEF content, library
<1>4. TabWrites \subseteq TabFns /\ TabWrites \cap PanelFns = {} /\ PanelFns \subseteq TabFns /\ "none" \notin TabFns
  BY DEF TabFns, TabWrites, PanelFns
<1>5. ASSUME NEW i \in Slots, flight'[i].fn \in TabFns
      PROVE  flight'[i].fn \in TabWrites /\ flight'[i].table[2] = ui'.id
  <2>1. CASE flight'[i] \notin new
    <3>1. flight[i].fn = flight'[i].fn /\ flight[i].table = flight'[i].table
      BY <1>4, <1>5, <2>1, SentOrStayed
    <3> QED BY <1>1, <1>5, <3>1 DEF PanelTrue, TabFns
  <2> QED BY <2>1
<1>6. IsSettled(ui')
  BY DEF IsSettled
<1>7. PanelTrue(ui', flight', content, library)
  <2>1. \A i \in Slots : flight'[i].fn \in PanelFns => FALSE
    BY <1>4, <1>5
  <2>2. \A i \in Slots : flight'[i].fn \in TabWrites => ui'.panel # NoList /\ ~ui'.panelFailed
    OBVIOUS
  <2> QED BY <1>3, <1>5, <1>6, <2>1, <2>2 DEF PanelTrue
<1>8. /\ \A i \in gone : flight[i].fn \in TabFns
      /\ \A r \in new : r.fn \in TabFns /\ r.reply = Pending
      /\ "screen" \notin {}
      /\ ui'.dialog.kind = "addTemplate" => ui'.dialog = ui.dialog /\ ui'.pool = ui.pool
  BY <1>4
<1> QED BY <1>2, <1>7, <1>8, TabStep DEF library

(* A click of the tab. *)
LEMMA TabClickTrue ==
  ASSUME Inv, IsSettled(ui), DetailTrue(ui, flight, db), NEW v, NEW r, New(r), Click(v, r),
         r.fn \in TabWrites, r.table[2] = ui.id,
         v.at = ui.at, v.id = ui.id, v.loading = ui.loading, v.failed = ui.failed, v.gone = ui.gone,
         v.rows = ui.rows, v.roster = ui.roster, v.rosterFailed = ui.rosterFailed, v.tab = ui.tab,
         v.dialog = ui.dialog, v.pool = ui.pool, v.panelFailed = ui.panelFailed,
         ui.panel # NoList, v.panel # NoList, ~ui.panelFailed,
         TabTrue(ui.tab, v.panel, flight', PanelOf(db, ui), db[Library])
  PROVE  DetailTrue(ui', flight', db')
<1>1. Within /\ ui' = v /\ Turns(flight, flight', {}, {}, {}, {r})
  BY ClickWithin DEF New
<1>2. /\ ui'.at = ui.at /\ ui'.id = ui.id /\ ui'.loading = ui.loading /\ ui'.failed = ui.failed
      /\ ui'.gone = ui.gone /\ ui'.rows = ui.rows /\ ui'.roster = ui.roster /\ ui'.rosterFailed = ui.rosterFailed
      /\ ui'.dialog = ui.dialog /\ ui'.pool = ui.pool /\ ui'.tab = ui.tab
      /\ ui'.panel = v.panel /\ ui'.panel # NoList /\ ~ui'.panelFailed
  BY <1>1
<1>3. /\ \A i \in {} : flight[i].fn \in TabWrites
      /\ \A s \in {r} : s.fn \in TabWrites /\ s.reply = Pending /\ s.table[2] = ui.id
  BY DEF New
<1>4. Within /\ Turns(flight, flight', {}, {}, {}, {r})
  BY <1>1
<1>5. ui'.panelFailed => ui.tab = "guardrails" /\ \A i \in Slots : flight'[i].fn \notin TabWrites
  BY <1>2
<1>6. ui'.panelFailed \/ TabTrue(ui.tab, ui'.panel, flight', PanelOf(db, ui), db[Library])
  BY <1>2
<1> QED BY <1>2, <1>3, <1>4, <1>5, <1>6, TabWritten

(* An answer to a write of the tab. *)
LEMMA TabAnswerTrue ==
  ASSUME Inv, DetailTrue(ui, flight, db), NEW i \in Slots, flight[i].fn \in TabWrites, IsSettled(ui), NEW v,
         Client(v, Done(i)),
         v.at = ui.at, v.id = ui.id, v.loading = ui.loading, v.failed = ui.failed, v.gone = ui.gone,
         v.rows = ui.rows, v.roster = ui.roster, v.rosterFailed = ui.rosterFailed, v.tab = ui.tab,
         v.dialog = ui.dialog, v.pool = ui.pool, v.panel # NoList,
         v.panelFailed => ui.tab = "guardrails" /\ \A j \in Slots : j # i => flight[j].fn \notin TabWrites,
         v.panelFailed \/ TabTrue(ui.tab, v.panel, Done(i), PanelOf(db, ui), db[Library])
  PROVE  DetailTrue(ui', flight', db')
<1>1. Flights(flight) /\ ui.panel # NoList
  BY DEF Inv, Calls, CallsTyped, DetailTrue, PanelTrue
<1>2. Within /\ ui' = v /\ flight' = Done(i)
  BY ClientWithin
<1>3. Turns(flight, flight', {i}, {}, {}, {})
  BY <1>1, <1>2, DoneTurns
<1>4. /\ ui'.at = ui.at /\ ui'.id = ui.id /\ ui'.loading = ui.loading /\ ui'.failed = ui.failed
      /\ ui'.gone = ui.gone /\ ui'.rows = ui.rows /\ ui'.roster = ui.roster /\ ui'.rosterFailed = ui.rosterFailed
      /\ ui'.dialog = ui.dialog /\ ui'.pool = ui.pool /\ ui'.tab = ui.tab
      /\ ui'.panel # NoList
  BY <1>2
<1>5. /\ \A j \in {i} : flight[j].fn \in TabWrites
      /\ \A s \in {} : s.fn \in TabWrites /\ s.reply = Pending /\ s.table[2] = ui.id
  OBVIOUS
<1>6. ui'.panelFailed => ui.tab = "guardrails" /\ \A j \in Slots : flight'[j].fn \notin TabWrites
  <2>1. flight'[i].fn \notin TabWrites /\ \A j \in Slots : j # i => flight'[j] = flight[j]
    BY <1>1, <1>2, WasDone DEF Idle, TabWrites
  <2> QED BY <1>2, <2>1
<1>7. ui'.panelFailed \/ TabTrue(ui.tab, ui'.panel, flight', PanelOf(db, ui), db[Library])
  BY <1>2
<1>8. Within
  BY <1>2
<1> QED BY <1>1, <1>3, <1>4, <1>5, <1>6, <1>7, <1>8, TabWritten

(* What the tab is of. *)
LEMMA PanelIs ==
  ASSUME Inv, ui.at = "detail", ui.tab \in DOMAIN PanelTable, DetailTrue(ui, flight, db)
  PROVE  /\ DbTyped /\ ui.id \in WorkspaceIds
         /\ PanelOf(db, ui) \in [Id[PanelTable[ui.tab]] -> Nat] /\ Id[PanelTable[ui.tab]] \subseteq Nat \ {0}
         /\ PanelTrue(ui, flight, PanelOf(db, ui), db[Library])
         /\ ui.panel # NoList /\ ~ui.panelFailed => TabTrue(ui.tab, ui.panel, flight, PanelOf(db, ui), db[Library])
<1>1. DbTyped /\ ui.id \in WorkspaceIds
  BY AtDetail DEF DetailTyped, Inv, Calls, CallsTyped
<1> DEFINE t == T(PanelTable[ui.tab], ui.id)
<1>2. t \in Table
  BY <1>1 DEF Table, T, PanelTable, WorkspaceIds
<1>3. RowOf(t) = Id[PanelTable[ui.tab]] /\ PanelOf(db, ui) = Joined(db, t)
  BY DEF RowOf, T, PanelOf
<1> HIDE DEF t
<1>4. PanelOf(db, ui) \in [Id[PanelTable[ui.tab]] -> Nat] /\ Id[PanelTable[ui.tab]] \subseteq Nat \ {0}
  BY <1>1, <1>2, <1>3, JoinedIs
<1> QED BY <1>1, <1>4 DEF DetailTrue, PanelTrue

(* The table of a request of the tab. *)
LEMMA TabTable ==
  ASSUME Inv, Clear(ui, flight), DetailTrue(ui, flight, db), NEW i \in Slots, flight[i].fn \in TabWrites
  PROVE  flight[i].table = T(AskedOf[flight[i].fn], ui.id) /\ Writes(flight[i])
<1>1. flight[i].fn \in TabFns /\ flight[i].fn \in DOMAIN AskedOf
  BY DEF TabFns, AskedOf, TabWrites
<1>2. flight[i] # Idle /\ Asked(flight[i])
  BY <1>1, OfTheTab
<1>3. PICK w \in WorkspaceIds : flight[i].table = T(AskedOf[flight[i].fn], w)
  BY <1>1, <1>2 DEF Asked, TableOf
<1>4. flight[i].table[2] = ui.id
  BY <1>1 DEF DetailTrue, PanelTrue
<1> QED BY <1>2, <1>3, <1>4 DEF T, Writes, Writing, TabWrites, Verb

-----------------------------------------------------------------------------
(* The policy.                                                             *)

(* The policy. *)
LEMMA SavePolicyTrue ==
  ASSUME Inv, DetailTrue(ui, flight, db), SavePolicy
  PROVE  DetailTrue(ui', flight', db')
<1> DEFINE v == [ui EXCEPT !.busy = {"policy"}]
           r == Call("saveGuardrailPolicy", T("policy", Shown), 1, Fresh, {"tab"}, 0)
           content == PanelOf(db, ui)
           library == db[Library]
<1>1. Settled /\ Click(v, r) /\ ui.tab = "guardrails" /\ ~ui.panelFailed /\ ui.panel # NoList
  BY DEF SavePolicy
<1>2. /\ IsSettled(ui) /\ ui.at = "detail" /\ token \in Nat /\ Fresh \in Nat /\ 0 \in Nat
      /\ Shown \in WorkspaceIds /\ Shown = ui.id /\ DOMAIN ui = DetailFields /\ Flights(flight)
  BY <1>1, WhenSettled, ShownIs DEF DetailFields
<1>3. Fresh # 0
  BY <1>2 DEF Fresh, Inv, Calls, CallsTyped
<1>4. New(r) /\ r.fn = "saveGuardrailPolicy" /\ r.table[2] = ui.id /\ r.value # 0
  <2>1. T("policy", Shown) = T(AskedOf["saveGuardrailPolicy"], Shown) /\ {"tab"} \in SUBSET Parts
    BY DEF AskedOf, Parts
  <2> DEFINE row == 1
  <2>2. r = Call("saveGuardrailPolicy", T("policy", Shown), row, Fresh, {"tab"}, 0) /\ row = 1 /\ row \in Nat
    OBVIOUS
  <2>3. r.table[2] = Shown /\ r.value = Fresh
    BY DEF Call, T
  <2> HIDE DEF row, r
  <2> QED BY <1>2, <1>3, <2>1, <2>2, <2>3, DetailWrites
<1>5. /\ v.at = ui.at /\ v.id = ui.id /\ v.loading = ui.loading /\ v.failed = ui.failed /\ v.gone = ui.gone
      /\ v.rows = ui.rows /\ v.roster = ui.roster /\ v.rosterFailed = ui.rosterFailed /\ v.tab = ui.tab
      /\ v.dialog = ui.dialog /\ v.pool = ui.pool /\ v.panelFailed = ui.panelFailed /\ v.panel = ui.panel
  BY <1>2 DEF DetailFields
<1> HIDE DEF v, r
<1>6. PolicyTrue(ui.panel, flight, content)
  <2>1. TabTrue(ui.tab, ui.panel, flight, content, library)
    BY <1>1, <1>2, PanelIs DEF PanelTable
  <2> HIDE DEF content, library
  <2> QED BY <1>1, <2>1 DEF TabTrue
<1> HIDE DEF content
<1>7. PICK k \in Slots : flight[k] = Idle /\ flight'[k] = r /\ \A j \in Slots : j # k => flight'[j] = flight[j]
  BY <1>1, ClickSends
<1>8. PolicyTrue(ui.panel, flight', content)
  <2>1. r.reply[1] # "ok"
    BY <1>4 DEF New, Pending
  <2>2. Took(flight, {"saveGuardrailPolicy"}) => Took(flight', {"saveGuardrailPolicy"})
    BY <1>7 DEF Took, Idle
  <2> QED BY <1>4, <1>6, <1>7, <2>1, <2>2 DEF PolicyTrue
<1>9. TabTrue(ui.tab, v.panel, flight', PanelOf(db, ui), db[Library])
  BY <1>1, <1>5, <1>8 DEF TabTrue, content
<1>10. r.fn \in TabWrites
  BY <1>4 DEF TabWrites
<1>11. v.panel # NoList
  BY <1>1, <1>5
<1> QED BY <1>1, <1>2, <1>4, <1>5, <1>9, <1>10, <1>11, TabClickTrue

(* The policy is saved: it is the only one. *)
LEMMA PolicySavedTrue ==
  ASSUME Inv, Clear(ui, flight), DetailTrue(ui, flight, db), NEW i \in Slots, PolicySaved(i)
  PROVE  DetailTrue(ui', flight', db')
<1> DEFINE v == CASE ~Awaits(i, "tab") -> ui
                  [] Awaits(i, "tab") /\ Got(i) -> [ui EXCEPT !.panel = <<Result(i)>>, !.busy = @ \ {"policy"}]
                  [] OTHER -> [ui EXCEPT !.panelFailed = TRUE, !.busy = @ \ {"policy"}]
           content == PanelOf(db, ui)
           library == db[Library]
<1>1. flight[i] # Idle /\ flight[i].fn = "saveGuardrailPolicy" /\ Client(v, Done(i))
  BY DEF PolicySaved, Answered
<1>2. flight[i].fn \in TabWrites /\ flight[i].fn \in TabFns
  BY <1>1 DEF TabFns, TabWrites
<1>3. /\ Awaits(i, "tab") /\ IsSettled(ui) /\ TabWaiter(ui, flight[i]) /\ Asked(flight[i]) /\ Replies(flight[i])
      /\ ui.at = "detail" /\ IsRequest(flight[i])
  BY <1>2, OfTheTab DEF Awaits
<1>4. ui.tab = "guardrails" /\ DOMAIN ui = DetailFields /\ Flights(flight)
  BY <1>1, <1>3, AtDetail DEF TabWaiter, DetailFields
<1>5. /\ PanelTrue(ui, flight, content, library) /\ content \in [{1} -> Nat]
      /\ ui.panel # NoList /\ ~ui.panelFailed
  <2>1. Id["policy"] = {1} /\ PanelTable[ui.tab] = "policy" /\ ui.tab \in DOMAIN PanelTable
    BY <1>4, ConsoleAssumption DEF PanelTable
  <2> QED BY <1>2, <1>3, <2>1, PanelIs DEF PanelTrue
<1>6. PolicyTrue(ui.panel, flight, content)
  <2>1. TabTrue(ui.tab, ui.panel, flight, content, library)
    BY <1>5 DEF PanelTrue
  <2> HIDE DEF content, library
  <2> QED BY <1>4, <2>1 DEF TabTrue
<1> HIDE DEF content
<1>7. \A j \in Slots : j # i => flight[j].fn \notin TabWrites
  <2>1. SUFFICES ASSUME NEW j \in Slots, flight[j].fn \in TabWrites PROVE j = i
    OBVIOUS
  <2>2. flight[j].fn \in TabFns
    BY <2>1 DEF TabFns
  <2>3. TabWaiter(ui, flight[j]) /\ Asked(flight[j])
    BY <2>2, OfTheTab
  <2>4. flight[j].fn = "saveGuardrailPolicy"
    BY <1>4, <2>1, <2>3 DEF TabWaiter, TabWrites
  <2>5. flight[j].row = 1 /\ flight[i].row = 1
    BY <1>1, <1>3, <2>3, <2>4 DEF Asked
  <2>6. Writes(flight[i]) /\ Writes(flight[j]) /\ flight[i].table = flight[j].table
    BY <1>1, <1>2, <2>1, <2>4, TabTable
  <2> QED BY <2>5, <2>6 DEF Clear
<1>8. /\ v.at = ui.at /\ v.id = ui.id /\ v.loading = ui.loading /\ v.failed = ui.failed /\ v.gone = ui.gone
      /\ v.rows = ui.rows /\ v.roster = ui.roster /\ v.rosterFailed = ui.rosterFailed /\ v.tab = ui.tab
      /\ v.dialog = ui.dialog /\ v.pool = ui.pool
      /\ \/ Got(i) /\ ~v.panelFailed /\ v.panel = <<Result(i)>>
         \/ v.panelFailed /\ v.panel = ui.panel
  <2>1. CASE Got(i)
    <3>1. v = [ui EXCEPT !.panel = <<Result(i)>>, !.busy = @ \ {"policy"}]
      BY <1>3, <2>1
    <3> HIDE DEF v
    <3> QED BY <1>4, <1>5, <2>1, <3>1 DEF DetailFields
  <2>2. CASE ~Got(i)
    <3>1. v = [ui EXCEPT !.panelFailed = TRUE, !.busy = @ \ {"policy"}]
      BY <1>3, <2>2
    <3> HIDE DEF v
    <3> QED BY <1>4, <2>2, <3>1 DEF DetailFields
  <2> QED BY <2>1, <2>2
<1> HIDE DEF v
<1>9. ASSUME Got(i) PROVE Fits(<<Result(i)>>, content) /\ <<Result(i)>> # NoList
  <2> DEFINE c == flight[i].value
  <2>1. Result(i) = <<1, c>> /\ c \in Nat /\ c # 0 /\ content[1] = c
    BY <1>1, <1>3, <1>6, <1>9 DEF Replies, Asked, PolicyTrue, Got, Result, IsRequest
  <2> HIDE DEF c
  <2> DEFINE rows == <<<<1, c>>>>
  <2>2. rows \in Seq(Row) /\ Apart(rows) /\ RowsOf(rows) = {1} /\ ToSet(rows) = {<<1, c>>}
    BY <2>1 DEF Row, Apart, RowsOf, ToSet
  <2>3. Agrees(rows, content, 1)
    BY <2>1, <2>2 DEF Agrees
  <2>4. <<Result(i)>> = rows
    BY <2>1
  <2> HIDE DEF rows
  <2>5. Fits(rows, content)
    BY <1>5, <2>2, <2>3 DEF Fits
  <2> QED BY <2>2, <2>4, <2>5, NoListIsNone
<1>10. v.panel # NoList
  BY <1>5, <1>8, <1>9
<1>11. v.panelFailed \/ TabTrue(ui.tab, v.panel, Done(i), PanelOf(db, ui), db[Library])
  <2>1. SUFFICES ASSUME Got(i), v.panel = <<Result(i)>> PROVE TabTrue(ui.tab, v.panel, Done(i), content, library)
    BY <1>8 DEF content
  <2>2. \A j \in Slots : Done(i)[j].fn # "saveGuardrailPolicy"
    <3>1. Done(i)[i].fn # "saveGuardrailPolicy" /\ \A j \in Slots : j # i => Done(i)[j] = flight[j]
      BY <1>4, WasDone DEF Idle
    <3> QED BY <1>1, <1>2, <1>7, <3>1
  <2>3. PolicyTrue(v.panel, Done(i), content)
    BY <1>9, <2>1, <2>2 DEF PolicyTrue
  <2> QED BY <1>4, <2>3 DEF TabTrue
<1> QED BY <1>1, <1>2, <1>3, <1>4, <1>7, <1>8, <1>10, <1>11, TabAnswerTrue

-----------------------------------------------------------------------------
(* The switches of the providers.                                          *)

(* A row that is there with what it has. *)
LEMMA OneAgrees ==
  ASSUME NEW rows, NEW content, Apart(rows), NEW x, NEW c, <<x, c>> \in ToSet(rows), content[x] = c, c # 0
  PROVE  Agrees(rows, content, x)
<1>1. PICK m \in DOMAIN rows : rows[m] = <<x, c>>
  BY DEF ToSet
<1>2. ASSUME NEW k \in Nat, <<x, k>> \in ToSet(rows) PROVE k = c
  <2>1. PICK n \in DOMAIN rows : rows[n] = <<x, k>>
    BY <1>2 DEF ToSet
  <2>2. rows[m][1] = rows[n][1]
    BY <1>1, <2>1
  <2>3. m = n
    BY <2>2 DEF Apart
  <2>4. <<x, c>> = <<x, k>>
    BY <1>1, <2>1, <2>3
  <2> QED BY <2>4
<1> QED BY <1>2 DEF Agrees

(* A switch is thrown. *)
LEMMA ToggleTrue ==
  ASSUME Inv, Clear(ui, flight), Clear(ui', flight'), DetailTrue(ui, flight, db),
         NEW x \in ToSet(ui.panel), ui.panel # NoList, Toggle(x)
  PROVE  DetailTrue(ui', flight', db')
<1> DEFINE a == x[1]
           b == x[2]
           c == 3 - x[2]
           v == [ui EXCEPT !.panel = Switch(@, a, c), !.busyId = a]
           r == Call("setProviderEnabled", T("switches", Shown), a, c, {"tab"}, x)
           content == PanelOf(db, ui)
           library == db[Library]
<1>1. Settled /\ Click(v, r) /\ ui.tab = "providers" /\ ~ui.panelFailed
  BY DEF Toggle
<1>2. /\ IsSettled(ui) /\ ui.at = "detail" /\ token \in Nat /\ DetailTyped(ui)
      /\ Shown \in WorkspaceIds /\ Shown = ui.id /\ DOMAIN ui = DetailFields /\ Flights(flight)
  BY <1>1, WhenSettled, ShownIs DEF DetailFields
<1>3. x = <<a, b>> /\ x \in Row /\ a \in Nat \ {0} /\ b \in Switches /\ c \in Switches /\ c \in Nat /\ b # 0 /\ c # 0
  <2>1. ui.panel \in Seq(Row) /\ AreSwitches(ui.panel)
    BY <1>1, <1>2 DEF DetailTyped
  <2>2. PICK n \in DOMAIN ui.panel : x = ui.panel[n]
    BY DEF ToSet
  <2>3. x \in Row /\ x[2] \in Switches
    BY <2>1, <2>2 DEF AreSwitches
  <2>4. x = <<x[1], x[2]>> /\ x[1] \in Nat \ {0}
    BY <2>3 DEF Row
  <2>5. 3 - x[2] \in Switches /\ 3 - x[2] \in Nat /\ x[2] # 0 /\ 3 - x[2] # 0
    BY <2>3 DEF Switches
  <2> QED BY <2>3, <2>4, <2>5
<1>4. New(r) /\ r.fn = "setProviderEnabled" /\ r.table = T("switches", Shown) /\ r.row = a /\ r.value = c /\ r.memo = x
  <2>1. T("switches", Shown) = T(AskedOf["setProviderEnabled"], Shown) /\ {"tab"} \in SUBSET Parts
    BY DEF AskedOf, Parts
  <2>2. r.row = a /\ r.value = c /\ r.memo = x
    BY DEF Call
  <2> HIDE DEF a, b, c
  <2> QED BY <1>2, <1>3, <2>1, <2>2, DetailWrites
<1>5. /\ v.at = ui.at /\ v.id = ui.id /\ v.loading = ui.loading /\ v.failed = ui.failed /\ v.gone = ui.gone
      /\ v.rows = ui.rows /\ v.roster = ui.roster /\ v.rosterFailed = ui.rosterFailed /\ v.tab = ui.tab
      /\ v.dialog = ui.dialog /\ v.pool = ui.pool /\ v.panelFailed = ui.panelFailed
      /\ v.panel = Switch(ui.panel, a, c)
  BY <1>2 DEF DetailFields
<1> HIDE DEF v, r, a, b, c
<1>6. SwitchesTrue(ui.panel, flight, content)
  <2>1. TabTrue(ui.tab, ui.panel, flight, content, library)
    BY <1>1, <1>2, PanelIs DEF PanelTable
  <2> HIDE DEF content, library
  <2> QED BY <1>1, <2>1 DEF TabTrue
<1> HIDE DEF content
<1>7. PICK k \in Slots : flight[k] = Idle /\ flight'[k] = r /\ \A j \in Slots : j # k => flight'[j] = flight[j]
  BY <1>1, ClickSends
<1>8. ASSUME NEW j \in Slots, j # k, flight[j].fn = "setProviderEnabled" PROVE flight[j].row # a
  <2>1. flight[j].table = r.table /\ Writes(flight[j])
    BY <1>2, <1>4, <1>8, TabTable DEF TabWrites, AskedOf
  <2>2. Writes(r)
    BY <1>4, IdleIsNone DEF New, Writes, Writing, Verb
  <2>3. flight'[j] = flight[j] /\ flight'[k] = r
    BY <1>7, <1>8
  <2> QED BY <1>3, <1>4, <1>8, <2>1, <2>2, <2>3 DEF Clear
<1>9. Near(ui.panel, content) /\ a \in RowsOf(ui.panel) /\ a \in DOMAIN content
  <2>1. a \in RowsOf(ui.panel)
    BY RowsOfSet DEF a
  <2> QED BY <1>6, <2>1 DEF SwitchesTrue, Near
<1>10. content[a] = b
  <2>1. \A j \in Slots : ~(flight[j].fn = "setProviderEnabled" /\ flight[j].row = a)
    BY <1>7, <1>8 DEF Idle
  <2>2. Agrees(ui.panel, content, a)
    BY <1>6, <1>9, <2>1 DEF SwitchesTrue
  <2> QED BY <1>3, <2>2 DEF Agrees, Switches
<1>11. /\ Near(v.panel, content) /\ RowsOf(v.panel) = RowsOf(ui.panel)
       /\ \A y : y \in ToSet(v.panel) <=> \/ y \in ToSet(ui.panel) /\ y[1] # a
                                          \/ a \in RowsOf(ui.panel) /\ y = <<a, c>>
  <2>1. Near(ui.panel, content) /\ a \in Nat \ {0} /\ c \in Nat /\ v.panel = Switch(ui.panel, a, c)
    BY <1>3, <1>5, <1>9
  <2>2. Near(v.panel, content) /\ RowsOf(v.panel) = RowsOf(ui.panel) /\ Replaced(v.panel, ui.panel, a, c)
    BY <2>1, ReplaceNear
  <2> QED BY <2>2 DEF Replaced
<1>12. ASSUME NEW i \in Slots, flight'[i].fn = "setProviderEnabled"
       PROVE  /\ flight'[i].row \in DOMAIN content
              /\ flight'[i].reply[1] = "ok" => content[flight'[i].row] = flight'[i].value
              /\ flight'[i].reply[1] # "ok" => content[flight'[i].row] = flight'[i].memo[2]
              /\ <<flight'[i].row, flight'[i].value>> \in ToSet(v.panel)
  <2>1. CASE i = k
    <3>1. r.reply[1] # "ok"
      BY <1>4 DEF New, Pending
    <3>2. r.memo[2] = b
      BY <1>4 DEF b
    <3> QED BY <1>4, <1>7, <1>9, <1>10, <1>11, <2>1, <3>1, <3>2
  <2>2. CASE i # k
    <3>1. flight'[i] = flight[i] /\ flight[i].row # a
      BY <1>7, <1>8, <1>12, <2>2
    <3>2. <<flight[i].row, flight[i].value>>[1] # a
      BY <3>1
    <3> QED BY <1>6, <1>11, <1>12, <3>1, <3>2 DEF SwitchesTrue
  <2> QED BY <2>1, <2>2
<1>13. ASSUME NEW y \in DOMAIN content, ~ \E i \in Slots : flight'[i].fn = "setProviderEnabled" /\ flight'[i].row = y
       PROVE  Agrees(v.panel, content, y)
  <2>1. y # a
    BY <1>4, <1>7, <1>13
  <2>2. \A i \in Slots : ~(flight[i].fn = "setProviderEnabled" /\ flight[i].row = y)
    BY <1>7, <1>13 DEF Idle
  <2>3. Agrees(ui.panel, content, y)
    BY <1>6, <2>2 DEF SwitchesTrue
  <2>4. \A m \in Nat : <<y, m>> \in ToSet(v.panel) <=> <<y, m>> \in ToSet(ui.panel)
    BY <1>11, <2>1
  <2> QED BY <2>3, <2>4 DEF Agrees
<1>14. SwitchesTrue(v.panel, flight', content)
  BY <1>11, <1>12, <1>13 DEF SwitchesTrue
<1>15. TabTrue(ui.tab, v.panel, flight', PanelOf(db, ui), db[Library])
  BY <1>1, <1>14 DEF TabTrue, content
<1>16. r.fn \in TabWrites /\ r.table[2] = ui.id
  BY <1>2, <1>4 DEF TabWrites, T
<1>17. v.panel # NoList
  BY <1>11, NoListIsNone DEF Near
<1> QED BY <1>1, <1>2, <1>4, <1>5, <1>15, <1>16, <1>17, TabClickTrue

(* It stays, or is thrown back. *)
LEMMA ToggledTrue ==
  ASSUME Inv, Clear(ui, flight), DetailTrue(ui, flight, db), NEW i \in Slots, Toggled(i)
  PROVE  DetailTrue(ui', flight', db')
<1> DEFINE a == flight[i].row
           b == flight[i].memo[2]
           c == flight[i].value
           v == CASE ~Awaits(i, "tab") -> ui
                  [] Awaits(i, "tab") /\ Got(i) -> [ui EXCEPT !.busyId = 0]
                  [] OTHER -> [ui EXCEPT !.panel = Switch(@, a, b), !.busyId = 0]
           content == PanelOf(db, ui)
           library == db[Library]
<1>1. flight[i] # Idle /\ flight[i].fn = "setProviderEnabled" /\ Client(v, Done(i))
  BY DEF Toggled, Answered
<1>2. flight[i].fn \in TabWrites /\ flight[i].fn \in TabFns
  BY <1>1 DEF TabFns, TabWrites
<1>3. /\ Awaits(i, "tab") /\ IsSettled(ui) /\ TabWaiter(ui, flight[i]) /\ Asked(flight[i]) /\ ui.at = "detail"
      /\ IsRequest(flight[i])
  BY <1>2, OfTheTab DEF Awaits
<1>4. /\ ui.tab = "providers" /\ DOMAIN ui = DetailFields /\ Flights(flight)
      /\ a \in Nat \ {0} /\ b \in Switches /\ c \in Switches /\ b \in Nat /\ b # 0 /\ c # 0
  BY <1>1, <1>3, AtDetail DEF TabWaiter, DetailFields, Asked, IsRequest, Switches
<1>5. SwitchesTrue(ui.panel, flight, content) /\ ui.panel # NoList /\ ~ui.panelFailed
  <2>1. PanelTrue(ui, flight, content, library)
    BY DEF DetailTrue
  <2> HIDE DEF content, library
  <2> QED BY <1>2, <1>4, <2>1 DEF PanelTrue, TabTrue
<1> HIDE DEF content
<1>6. /\ v.at = ui.at /\ v.id = ui.id /\ v.loading = ui.loading /\ v.failed = ui.failed /\ v.gone = ui.gone
      /\ v.rows = ui.rows /\ v.roster = ui.roster /\ v.rosterFailed = ui.rosterFailed /\ v.tab = ui.tab
      /\ v.dialog = ui.dialog /\ v.pool = ui.pool /\ v.panelFailed = ui.panelFailed
      /\ v.panel = IF Got(i) THEN ui.panel ELSE Switch(ui.panel, a, b)
  <2> HIDE DEF a, b
  <2>1. CASE Got(i)
    <3>1. v = [ui EXCEPT !.busyId = 0]
      BY <1>3, <2>1
    <3> HIDE DEF v
    <3> QED BY <1>4, <2>1, <3>1 DEF DetailFields
  <2>2. CASE ~Got(i)
    <3>1. v = [ui EXCEPT !.panel = Switch(@, a, b), !.busyId = 0]
      BY <1>3, <2>2
    <3> HIDE DEF v
    <3> QED BY <1>4, <2>2, <3>1 DEF DetailFields
  <2> QED BY <2>1, <2>2
<1> HIDE DEF v
<1>7. /\ Near(ui.panel, content) /\ a \in DOMAIN content /\ <<a, c>> \in ToSet(ui.panel) /\ a \in RowsOf(ui.panel)
      /\ (Got(i) => content[a] = c) /\ (~Got(i) => content[a] = b)
  <2>1. a = <<a, c>>[1]
    OBVIOUS
  <2> HIDE DEF a, b, c
  <2>2. /\ Near(ui.panel, content) /\ a \in DOMAIN content /\ <<a, c>> \in ToSet(ui.panel)
        /\ (Got(i) => content[a] = c) /\ (~Got(i) => content[a] = b)
    BY <1>1, <1>5 DEF SwitchesTrue, Got, a, b, c
  <2> QED BY <2>1, <2>2, RowsOfSet
<1>8. /\ Near(v.panel, content) /\ Agrees(v.panel, content, a)
      /\ \A y : y[1] # a => (y \in ToSet(v.panel) <=> y \in ToSet(ui.panel))
  <2> HIDE DEF a, b, c
  <2>1. CASE Got(i)
    <3>1. Agrees(ui.panel, content, a)
      BY <1>4, <1>7, <2>1, OneAgrees DEF Near
    <3> QED BY <1>6, <1>7, <2>1, <3>1
  <2>2. CASE ~Got(i)
    <3>1. v.panel = Switch(ui.panel, a, b)
      BY <1>6, <2>2
    <3>2. /\ Near(v.panel, content)
          /\ \A y : y \in ToSet(v.panel) <=> \/ y \in ToSet(ui.panel) /\ y[1] # a
                                             \/ a \in RowsOf(ui.panel) /\ y = <<a, b>>
      <4>1. Near(ui.panel, content) /\ a \in Nat \ {0} /\ b \in Nat
        BY <1>4, <1>7
      <4>2. Near(v.panel, content) /\ Replaced(v.panel, ui.panel, a, b)
        BY <3>1, <4>1, ReplaceNear
      <4> QED BY <4>2 DEF Replaced
    <3>3. Agrees(v.panel, content, a)
      BY <1>4, <1>7, <2>2, <3>2, OneAgrees DEF Near
    <3> QED BY <3>2, <3>3
  <2> QED BY <2>1, <2>2
<1>9. \A j \in Slots : j # i => Done(i)[j] = flight[j]
  BY <1>4, WasDone
<1>10. Done(i)[i].fn # "setProviderEnabled"
  BY <1>4, WasDone DEF Idle
<1>11. ASSUME NEW j \in Slots, j # i, flight[j].fn = "setProviderEnabled" PROVE flight[j].row # a
  <2>1. flight[j].table = flight[i].table /\ Writes(flight[j]) /\ Writes(flight[i])
    BY <1>1, <1>2, <1>11, TabTable DEF TabWrites
  <2> QED BY <1>4, <1>11, <2>1 DEF Clear
<1> HIDE DEF a, b, c
<1>12. ASSUME NEW j \in Slots, Done(i)[j].fn = "setProviderEnabled"
       PROVE  /\ Done(i)[j].row \in DOMAIN content
              /\ Done(i)[j].reply[1] = "ok" => content[Done(i)[j].row] = Done(i)[j].value
              /\ Done(i)[j].reply[1] # "ok" => content[Done(i)[j].row] = Done(i)[j].memo[2]
              /\ <<Done(i)[j].row, Done(i)[j].value>> \in ToSet(v.panel)
  <2>1. j # i /\ Done(i)[j] = flight[j] /\ flight[j].fn = "setProviderEnabled"
    BY <1>9, <1>10, <1>12
  <2>2. <<flight[j].row, flight[j].value>>[1] # a
    BY <1>11, <2>1
  <2> QED BY <1>5, <1>8, <2>1, <2>2 DEF SwitchesTrue
<1>13. ASSUME NEW y \in DOMAIN content, ~ \E j \in Slots : Done(i)[j].fn = "setProviderEnabled" /\ Done(i)[j].row = y
       PROVE  Agrees(v.panel, content, y)
  <2>1. CASE y = a
    BY <1>8, <2>1
  <2>2. CASE y # a
    <3>1. \A j \in Slots : ~(flight[j].fn = "setProviderEnabled" /\ flight[j].row = y)
      BY <1>9, <1>13, <2>2 DEF a
    <3>2. Agrees(ui.panel, content, y)
      BY <1>5, <3>1 DEF SwitchesTrue
    <3>3. \A m \in Nat : <<y, m>> \in ToSet(v.panel) <=> <<y, m>> \in ToSet(ui.panel)
      BY <1>8, <2>2
    <3> QED BY <3>2, <3>3 DEF Agrees
  <2> QED BY <2>1, <2>2
<1>14. SwitchesTrue(v.panel, Done(i), content)
  BY <1>8, <1>12, <1>13 DEF SwitchesTrue
<1>15. TabTrue(ui.tab, v.panel, Done(i), PanelOf(db, ui), db[Library])
  BY <1>4, <1>14 DEF TabTrue, content
<1>16. v.panel # NoList
  BY <1>8, NoListIsNone DEF Near
<1>17. ~v.panelFailed
  BY <1>5, <1>6
<1> QED BY <1>1, <1>2, <1>3, <1>6, <1>15, <1>16, <1>17, TabAnswerTrue

-----------------------------------------------------------------------------
(* The attached templates.                                                 *)

(* What adds to the attached templates and takes from them. *)
MoveFns == {"attachTemplate", "detachTemplate"}

(* With no template on its way to or from the workspace the rows are what  *)
(* the server has.                                                         *)
LEMMA NoneMoved ==
  ASSUME NEW rows, NEW f, NEW content, NEW library, \A i \in Slots : f[i].fn \notin MoveFns
  PROVE  TemplatesTrue(rows, f, content, library) <=> Fits(rows, content)
BY FitsIsNear DEF TemplatesTrue, MoveFns

(* A detach is alone. *)
LEMMA MovedAlone ==
  ASSUME NEW u, NEW f, Clear(u, f), NEW i \in Slots, f[i].fn = "detachTemplate"
  PROVE  \A j \in Slots : j # i => f[j].fn \notin MoveFns
BY DEF Clear, MoveFns

(* A template of the library is attached: it is shown with the answer. *)
LEMMA AttachTemplateTrue ==
  ASSUME Inv, Clear(ui', flight'), DetailTrue(ui, flight, db),
         NEW x \in ToSet(ui.pool), ui.pool # NoList, AttachTemplate(x)
  PROVE  DetailTrue(ui', flight', db')
<1> DEFINE a == x[1]
           v == [ui EXCEPT !.busyId = a]
           r == Call("attachTemplate", T("templates", Shown), a, 1, {"tab", "dialog"}, x)
           content == PanelOf(db, ui)
           library == db[Library]
<1>1. Settled /\ Click(v, r) /\ ui.dialog.kind = "addTemplate" /\ a \notin RowsOf(ui.panel)
  BY DEF AttachTemplate
<1>2. /\ IsSettled(ui) /\ ui.at = "detail" /\ token \in Nat /\ DetailTyped(ui)
      /\ Shown \in WorkspaceIds /\ Shown = ui.id /\ DOMAIN ui = DetailFields /\ Flights(flight)
  BY <1>1, WhenSettled, ShownIs DEF DetailFields
<1>3. ui.tab = "templates" /\ ui.panel # NoList /\ ~ui.panelFailed
  <2>1. ui.tab = "templates" /\ ui.panel # NoList
    BY <1>1, <1>2 DEF DetailTyped, DialogTab
  <2>2. PanelTrue(ui, flight, content, library)
    BY DEF DetailTrue
  <2> HIDE DEF content, library
  <2> QED BY <2>1, <2>2 DEF PanelTrue
<1>4. DOMAIN content = Id["templates"] /\ DOMAIN library = Id["templates"] /\ library \in [Id["templates"] -> Nat]
  <2>1. content \in [Id["templates"] -> Nat] /\ DbTyped
    BY <1>2, <1>3, PanelIs DEF PanelTable
  <2>2. Library \in Table /\ RowOf(Library) = Id["templates"]
    BY ConsoleAssumption DEF Table, RowOf, Library, T
  <2>3. library \in [Id["templates"] -> Nat]
    BY <2>1, <2>2 DEF DbTyped
  <2> HIDE DEF content, library
  <2> QED BY <2>1, <2>3
<1>5. x = <<a, library[a]>> /\ library[a] # 0 /\ a \in DOMAIN content /\ a \in Nat \ {0} /\ x \in Row
  <2>1. ui.pool # <<>>
    BY DEF ToSet
  <2>2. Fits(ui.pool, library)
    <3>1. PoolTrue(ui, flight, library)
      BY DEF DetailTrue, RestTrue
    <3> HIDE DEF library
    <3> QED BY <1>1, <2>1, <3>1 DEF PoolTrue
  <2> HIDE DEF library, content
  <2>3. x \in Row
    <3>1. PICK n \in DOMAIN ui.pool : x = ui.pool[n]
      BY DEF ToSet
    <3> QED BY <2>2, <3>1 DEF Fits
  <2>4. x = <<x[1], x[2]>> /\ x[1] \in Nat \ {0} /\ x[2] \in Nat
    BY <2>3 DEF Row
  <2>5. a \in RowsOf(ui.pool)
    BY RowsOfSet
  <2>6. a \in DOMAIN library
    BY <2>2, <2>5 DEF Fits
  <2>7. Agrees(ui.pool, library, a)
    BY <2>2, <2>6 DEF Fits
  <2>8. x[2] # 0 /\ library[a] = x[2]
    BY <2>4, <2>7 DEF Agrees
  <2> QED BY <1>4, <2>3, <2>4, <2>6, <2>8
<1>6. New(r) /\ r.fn = "attachTemplate" /\ r.table = T("templates", Shown) /\ r.row = a /\ r.memo = x /\ r.value # 0
  <2>1. T("templates", Shown) = T(AskedOf["attachTemplate"], Shown) /\ {"tab", "dialog"} \in SUBSET Parts
    BY DEF AskedOf, Parts
  <2>2. r.row = a /\ r.memo = x /\ r.value = 1
    BY DEF Call
  <2> HIDE DEF a
  <2> QED BY <1>2, <1>5, <2>1, <2>2, DetailWrites
<1>7. /\ v.at = ui.at /\ v.id = ui.id /\ v.loading = ui.loading /\ v.failed = ui.failed /\ v.gone = ui.gone
      /\ v.rows = ui.rows /\ v.roster = ui.roster /\ v.rosterFailed = ui.rosterFailed /\ v.tab = ui.tab
      /\ v.dialog = ui.dialog /\ v.pool = ui.pool /\ v.panelFailed = ui.panelFailed /\ v.panel = ui.panel
  BY <1>2 DEF DetailFields
<1> HIDE DEF v, r, a
<1>8. TemplatesTrue(ui.panel, flight, content, library)
  <2>1. TabTrue(ui.tab, ui.panel, flight, content, library)
    BY <1>2, <1>3, PanelIs DEF PanelTable
  <2> HIDE DEF content, library
  <2> QED BY <1>3, <2>1 DEF TabTrue
<1> HIDE DEF content, library
<1>9. PICK k \in Slots : flight[k] = Idle /\ flight'[k] = r /\ \A j \in Slots : j # k => flight'[j] = flight[j]
  BY <1>1, ClickSends
<1>10. \A j \in Slots : flight[j].fn # "detachTemplate"
  <2>1. SUFFICES ASSUME NEW j \in Slots, flight[j].fn = "detachTemplate" PROVE FALSE
    OBVIOUS
  <2>2. j # k /\ flight'[j] = flight[j]
    BY <1>9, <2>1 DEF Idle
  <2>3. flight'[j].fn = "detachTemplate" /\ flight'[k].fn \in MoveFns
    BY <1>6, <1>9, <2>1, <2>2 DEF MoveFns
  <2> QED BY <2>2, <2>3, MovedAlone
<1>11. r.reply[1] # "ok"
  BY <1>6 DEF New, Pending
<1>12. TemplatesTrue(ui.panel, flight', content, library)
  <2>1. ASSUME NEW i \in Slots, flight'[i].fn = "attachTemplate"
        PROVE  /\ flight'[i].memo = <<flight'[i].row, library[flight'[i].row]>> /\ library[flight'[i].row] # 0 /\ flight'[i].value # 0
               /\ flight'[i].row \in DOMAIN content /\ flight'[i].row \notin RowsOf(ui.panel)
               /\ flight'[i].reply[1] = "ok" => content[flight'[i].row] = library[flight'[i].row]
    <3>1. CASE i = k
      BY <1>1, <1>5, <1>6, <1>9, <1>11, <3>1
    <3>2. CASE i # k
      BY <1>8, <1>9, <2>1, <3>2 DEF TemplatesTrue
    <3> QED BY <3>1, <3>2
  <2>2. \A i \in Slots : flight'[i].fn # "detachTemplate"
    BY <1>6, <1>9, <1>10
  <2>3. Near(ui.panel, content)
    BY <1>8, <1>10 DEF TemplatesTrue
  <2>4. ASSUME NEW y \in DOMAIN content, ~Agrees(ui.panel, content, y)
        PROVE  \E i \in Slots : flight'[i].fn = "attachTemplate" /\ flight'[i].reply[1] = "ok" /\ flight'[i].row = y
    <3>1. PICK i \in Slots : flight[i].fn = "attachTemplate" /\ flight[i].reply[1] = "ok" /\ flight[i].row = y
      BY <1>8, <1>10, <2>4 DEF TemplatesTrue
    <3>2. flight'[i] = flight[i]
      BY <1>9, <3>1 DEF Idle
    <3> QED BY <3>1, <3>2
  <2> QED BY <2>1, <2>2, <2>3, <2>4 DEF TemplatesTrue
<1>13. TabTrue(ui.tab, v.panel, flight', PanelOf(db, ui), db[Library])
  BY <1>3, <1>7, <1>12 DEF TabTrue, content, library
<1>14. r.fn \in TabWrites /\ r.table[2] = ui.id
  BY <1>2, <1>6 DEF TabWrites, T
<1>15. v.panel # NoList
  BY <1>3, <1>7
<1> QED BY <1>1, <1>2, <1>3, <1>6, <1>7, <1>13, <1>14, <1>15, TabClickTrue

(* A template is detached, and the rows of before kept for a failure. *)
LEMMA DetachTemplateTrue ==
  ASSUME Inv, Clear(ui', flight'), DetailTrue(ui, flight, db), NEW row \in Id["templates"], DetachTemplate(row)
  PROVE  DetailTrue(ui', flight', db')
<1> DEFINE v == [ui EXCEPT !.panel = Drop(@, row)]
           r == Call("detachTemplate", T("templates", Shown), row, 0, {"tab"}, ui.panel)
           content == PanelOf(db, ui)
           library == db[Library]
<1>1. Settled /\ Click(v, r) /\ ui.tab = "templates" /\ ~ui.panelFailed /\ ui.panel # NoList
  BY DEF DetachTemplate
<1>2. /\ IsSettled(ui) /\ ui.at = "detail" /\ token \in Nat /\ DetailTyped(ui)
      /\ Shown \in WorkspaceIds /\ Shown = ui.id /\ DOMAIN ui = DetailFields /\ Flights(flight)
  BY <1>1, WhenSettled, ShownIs DEF DetailFields
<1>3. row \in Nat /\ ui.panel \in Seq(Row)
  BY <1>1, <1>2, IdsTyped DEF Kinds, DetailTyped
<1>4. New(r) /\ r.fn = "detachTemplate" /\ r.table = T("templates", Shown) /\ r.row = row /\ r.memo = ui.panel
  <2>1. T("templates", Shown) = T(AskedOf["detachTemplate"], Shown) /\ {"tab"} \in SUBSET Parts
    BY DEF AskedOf, Parts
  <2>2. r.row = row /\ r.memo = ui.panel
    BY DEF Call
  <2> QED BY <1>2, <1>3, <2>1, <2>2, DetailWrites
<1>5. /\ v.at = ui.at /\ v.id = ui.id /\ v.loading = ui.loading /\ v.failed = ui.failed /\ v.gone = ui.gone
      /\ v.rows = ui.rows /\ v.roster = ui.roster /\ v.rosterFailed = ui.rosterFailed /\ v.tab = ui.tab
      /\ v.dialog = ui.dialog /\ v.pool = ui.pool /\ v.panelFailed = ui.panelFailed /\ v.panel = Drop(ui.panel, row)
  BY <1>2 DEF DetailFields
<1> HIDE DEF v, r
<1>6. TemplatesTrue(ui.panel, flight, content, library)
  <2>1. TabTrue(ui.tab, ui.panel, flight, content, library)
    BY <1>1, <1>2, PanelIs DEF PanelTable
  <2> HIDE DEF content, library
  <2> QED BY <1>1, <2>1 DEF TabTrue
<1> HIDE DEF content, library
<1>7. PICK k \in Slots : flight[k] = Idle /\ flight'[k] = r /\ \A j \in Slots : j # k => flight'[j] = flight[j]
  BY <1>1, ClickSends
<1>8. \A j \in Slots : j # k => flight'[j].fn \notin MoveFns
  BY <1>4, <1>7, MovedAlone
<1>9. \A j \in Slots : flight[j].fn \notin MoveFns
  BY <1>7, <1>8 DEF Idle, MoveFns
<1>10. Fits(ui.panel, content)
  BY <1>6, <1>9, NoneMoved
<1>11. r.reply[1] # "ok"
  BY <1>4 DEF New, Pending
<1>12. TemplatesTrue(v.panel, flight', content, library)
  <2>1. \A i \in Slots : flight'[i].fn # "attachTemplate"
    BY <1>4, <1>7, <1>8 DEF MoveFns
  <2>2. \A i \in Slots : flight'[i].fn = "detachTemplate" => i = k
    BY <1>8 DEF MoveFns
  <2> QED BY <1>4, <1>5, <1>7, <1>10, <1>11, <2>1, <2>2 DEF TemplatesTrue
<1>13. TabTrue(ui.tab, v.panel, flight', PanelOf(db, ui), db[Library])
  BY <1>1, <1>12 DEF TabTrue, content, library
<1>14. r.fn \in TabWrites /\ r.table[2] = ui.id
  BY <1>2, <1>4 DEF TabWrites, T
<1>15. v.panel # NoList
  BY <1>3, <1>5, DropTyped, NoListIsNone
<1> QED BY <1>1, <1>2, <1>4, <1>5, <1>13, <1>14, <1>15, TabClickTrue

(* The answer is that it is attached: its row is shown. *)
LEMMA AttachedTrue ==
  ASSUME NEW f, Flights(f), NEW u, Clear(u, f), NEW i \in Slots, f[i].fn = "attachTemplate", f[i].reply[1] = "ok",
         NEW content, DOMAIN content \subseteq Nat \ {0}, NEW library, library \in [DOMAIN content -> Nat],
         NEW rows, TemplatesTrue(rows, f, content, library),
         \A j \in Slots : f[j].fn = "attachTemplate" => f[j].table = f[i].table /\ Writes(f[j]),
         NEW g, \A j \in Slots : j # i => g[j] = f[j], g[i] = Idle
  PROVE  TemplatesTrue(Append(rows, f[i].memo), g, content, library)
<1> DEFINE a == f[i].row
           c == library[a]
           new == Append(rows, f[i].memo)
<1>1. \A j \in Slots : f[j].fn # "detachTemplate"
  BY MovedAlone DEF MoveFns
<1>2. /\ f[i].memo = <<a, c>> /\ c # 0 /\ c \in Nat /\ a \in DOMAIN content /\ a \in Nat \ {0}
      /\ a \notin RowsOf(rows) /\ content[a] = c /\ Near(rows, content)
  BY <1>1 DEF TemplatesTrue
<1>3. ASSUME NEW j \in Slots, j # i, f[j].fn = "attachTemplate" PROVE f[j].row # a
  BY <1>2, <1>3 DEF Clear
<1> HIDE DEF a, c
<1>4. new = Append(rows, <<a, c>>)
  BY <1>2
<1> HIDE DEF new
<1>5. Near(new, content) /\ RowsOf(new) = RowsOf(rows) \cup {a} /\ ToSet(new) = ToSet(rows) \cup {<<a, c>>}
  <2>1. new = Append(rows, <<a, c>>) \/ new = <<<<a, c>>>> \o rows
    BY <1>4
  <2> QED BY <1>2, <2>1, AddNear
<1>6. Agrees(new, content, a)
  BY <1>2, <1>5, OneAgrees DEF Near
<1>7. ASSUME NEW j \in Slots, g[j].fn = "attachTemplate"
      PROVE  /\ g[j].memo = <<g[j].row, library[g[j].row]>> /\ library[g[j].row] # 0 /\ g[j].value # 0
             /\ g[j].row \in DOMAIN content /\ g[j].row \notin RowsOf(new)
             /\ g[j].reply[1] = "ok" => content[g[j].row] = library[g[j].row]
  <2>1. j # i /\ g[j] = f[j]
    BY <1>7 DEF Idle
  <2>2. f[j].row # a
    BY <1>3, <1>7, <2>1
  <2> QED BY <1>5, <1>7, <2>1, <2>2 DEF TemplatesTrue
<1>8. \A j \in Slots : g[j].fn # "detachTemplate"
  BY <1>1 DEF Idle
<1>9. ASSUME NEW y \in DOMAIN content, ~Agrees(new, content, y)
      PROVE  \E j \in Slots : g[j].fn = "attachTemplate" /\ g[j].reply[1] = "ok" /\ g[j].row = y
  <2>1. y # a
    BY <1>6, <1>9
  <2>2. \A k \in Nat : <<y, k>> \in ToSet(rows) <=> <<y, k>> \in ToSet(new)
    BY <1>5, <2>1
  <2>3. ~Agrees(rows, content, y)
    BY <1>9, <2>2 DEF Agrees
  <2>4. PICK j \in Slots : f[j].fn = "attachTemplate" /\ f[j].reply[1] = "ok" /\ f[j].row = y
    BY <1>1, <2>3 DEF TemplatesTrue
  <2>5. j # i
    BY <2>1, <2>4 DEF a
  <2> QED BY <2>4, <2>5
<1>10. TemplatesTrue(new, g, content, library)
  BY <1>5, <1>7, <1>8, <1>9 DEF TemplatesTrue
<1> QED BY <1>10 DEF new

(* It is not: nothing changes. *)
LEMMA NotAttachedTrue ==
  ASSUME NEW f, NEW u, Clear(u, f), NEW i \in Slots, f[i].fn = "attachTemplate", f[i].reply[1] # "ok",
         NEW content, NEW library, NEW rows, TemplatesTrue(rows, f, content, library),
         NEW g, \A j \in Slots : j # i => g[j] = f[j], g[i] = Idle
  PROVE  TemplatesTrue(rows, g, content, library)
<1>1. \A j \in Slots : f[j].fn # "detachTemplate"
  BY MovedAlone DEF MoveFns
<1>2. \A j \in Slots : g[j].fn # "detachTemplate"
  BY <1>1 DEF Idle
<1>3. \A j \in Slots : g[j].fn = "attachTemplate" => g[j] = f[j] /\ f[j].fn = "attachTemplate"
  BY DEF Idle
<1>4. \A j \in Slots : f[j].fn = "attachTemplate" /\ f[j].reply[1] = "ok" => g[j] = f[j]
  OBVIOUS
<1> QED BY <1>1, <1>2, <1>3, <1>4 DEF TemplatesTrue

(* The answer of an attach or a detach. *)
LEMMA TemplateMovedTrue ==
  ASSUME Inv, Clear(ui, flight), DetailTrue(ui, flight, db), NEW i \in Slots, TemplateMoved(i)
  PROVE  DetailTrue(ui', flight', db')
<1> DEFINE attached == flight[i].fn = "attachTemplate"
           screen == CASE Awaits(i, "tab") /\ attached /\ Got(i) -> [ui EXCEPT !.panel = Append(@, flight[i].memo)]
                       [] Awaits(i, "tab") /\ ~attached /\ ~Got(i) -> [ui EXCEPT !.panel = flight[i].memo]
                       [] OTHER -> ui
           v == IF attached /\ Awaits(i, "dialog") THEN [screen EXCEPT !.busyId = 0] ELSE screen
           content == PanelOf(db, ui)
           library == db[Library]
<1>1. flight[i] # Idle /\ flight[i].fn \in MoveFns /\ Client(v, Done(i))
  BY DEF TemplateMoved, Answered, MoveFns
<1>2. flight[i].fn \in TabWrites /\ flight[i].fn \in TabFns
  BY <1>1 DEF TabFns, TabWrites, MoveFns
<1>3. /\ Awaits(i, "tab") /\ IsSettled(ui) /\ TabWaiter(ui, flight[i]) /\ Asked(flight[i]) /\ ui.at = "detail"
      /\ IsRequest(flight[i])
  BY <1>2, OfTheTab DEF Awaits
<1>4. ui.tab = "templates" /\ DOMAIN ui = DetailFields /\ Flights(flight)
  BY <1>1, <1>3, AtDetail DEF TabWaiter, DetailFields, MoveFns
<1>5. TemplatesTrue(ui.panel, flight, content, library) /\ ui.panel # NoList /\ ~ui.panelFailed
  <2>1. PanelTrue(ui, flight, content, library)
    BY DEF DetailTrue
  <2> HIDE DEF content, library
  <2> QED BY <1>2, <1>4, <2>1 DEF PanelTrue, TabTrue
<1>6. content \in [Id["templates"] -> Nat] /\ library \in [Id["templates"] -> Nat] /\ Id["templates"] \subseteq Nat \ {0}
  <2>1. content \in [Id["templates"] -> Nat] /\ DbTyped
    BY <1>3, <1>4, PanelIs DEF PanelTable
  <2>2. Library \in Table /\ RowOf(Library) = Id["templates"]
    BY ConsoleAssumption DEF Table, RowOf, Library, T
  <2>3. library \in [Id["templates"] -> Nat]
    BY <2>1, <2>2 DEF DbTyped
  <2> HIDE DEF content, library
  <2> QED BY <2>1, <2>3, IdsTyped DEF Kinds
<1> HIDE DEF content, library
<1>7. /\ v.at = ui.at /\ v.id = ui.id /\ v.loading = ui.loading /\ v.failed = ui.failed /\ v.gone = ui.gone
      /\ v.rows = ui.rows /\ v.roster = ui.roster /\ v.rosterFailed = ui.rosterFailed /\ v.tab = ui.tab
      /\ v.dialog = ui.dialog /\ v.pool = ui.pool /\ v.panelFailed = ui.panelFailed
      /\ attached /\ Got(i) => v.panel = Append(ui.panel, flight[i].memo)
      /\ ~attached /\ ~Got(i) => v.panel = flight[i].memo
      /\ (attached <=> ~Got(i)) => v.panel = ui.panel
  <2> DEFINE panel == IF attached /\ Got(i) THEN Append(ui.panel, flight[i].memo)
                      ELSE IF ~attached /\ ~Got(i) THEN flight[i].memo ELSE ui.panel
  <2>1. DOMAIN screen = DetailFields /\ screen.panel = panel /\ \A x \in DetailFields : x # "panel" => screen[x] = ui[x]
    <3>1. CASE attached /\ Got(i)
      <4>1. screen = [ui EXCEPT !.panel = Append(@, flight[i].memo)]
        BY <1>3, <3>1
      <4>2. panel = Append(ui.panel, flight[i].memo)
        BY <3>1
      <4> HIDE DEF screen, panel
      <4> QED BY <1>4, <4>1, <4>2 DEF DetailFields
    <3>2. CASE ~attached /\ ~Got(i)
      <4>1. screen = [ui EXCEPT !.panel = flight[i].memo]
        BY <1>3, <3>2
      <4>2. panel = flight[i].memo
        BY <3>2
      <4> HIDE DEF screen, panel
      <4> QED BY <1>4, <4>1, <4>2 DEF DetailFields
    <3>3. CASE attached <=> ~Got(i)
      <4>1. screen = ui
        BY <3>3
      <4>2. panel = ui.panel
        BY <3>3
      <4> HIDE DEF screen, panel
      <4> QED BY <1>4, <4>1, <4>2 DEF DetailFields
    <3> QED BY <3>1, <3>2, <3>3
  <2>2. /\ attached /\ Got(i) => panel = Append(ui.panel, flight[i].memo)
        /\ ~attached /\ ~Got(i) => panel = flight[i].memo
        /\ (attached <=> ~Got(i)) => panel = ui.panel
    OBVIOUS
  <2>3. v = screen \/ v = [screen EXCEPT !.busyId = 0]
    OBVIOUS
  <2> HIDE DEF screen, panel, v, attached
  <2>4. /\ v.at = ui.at /\ v.id = ui.id /\ v.loading = ui.loading /\ v.failed = ui.failed /\ v.gone = ui.gone
        /\ v.rows = ui.rows /\ v.roster = ui.roster /\ v.rosterFailed = ui.rosterFailed /\ v.tab = ui.tab
        /\ v.dialog = ui.dialog /\ v.pool = ui.pool /\ v.panelFailed = ui.panelFailed /\ v.panel = panel
    BY <1>4, <2>1, <2>3 DEF DetailFields
  <2> QED BY <2>2, <2>4
<1>8. (\A j \in Slots : j # i => Done(i)[j] = flight[j]) /\ Done(i)[i] = Idle
  BY <1>4, WasDone
<1> DEFINE g == Done(i)
<1> HIDE DEF v, screen, g
<1>9. TemplatesTrue(v.panel, g, content, library)
  <2>0. (\A j \in Slots : j # i => g[j] = flight[j]) /\ g[i] = Idle
    BY <1>8 DEF g
  <2>1. CASE attached /\ Got(i)
    <3>1. \A j \in Slots : flight[j].fn = "attachTemplate" => flight[j].table = flight[i].table /\ Writes(flight[j])
      BY <2>1, TabTable DEF TabWrites
    <3>2. flight[i].reply[1] = "ok"
      BY <2>1 DEF Got
    <3>3. DOMAIN content \subseteq Nat \ {0} /\ library \in [DOMAIN content -> Nat]
      BY <1>6
    <3>4. TemplatesTrue(Append(ui.panel, flight[i].memo), g, content, library)
      BY <1>4, <1>5, <2>0, <2>1, <3>1, <3>2, <3>3, AttachedTrue
    <3> QED BY <1>7, <2>1, <3>4
  <2>2. CASE attached /\ ~Got(i)
    <3>1. flight[i].reply[1] # "ok" /\ v.panel = ui.panel
      BY <1>7, <2>2 DEF Got
    <3> QED BY <1>5, <2>0, <2>2, <3>1, NotAttachedTrue
  <2>3. CASE ~attached
    <3>1. flight[i].fn = "detachTemplate"
      BY <1>1, <2>3 DEF MoveFns
    <3>2. \A j \in Slots : j # i => flight[j].fn \notin MoveFns
      BY <3>1, MovedAlone
    <3>3. \A j \in Slots : g[j].fn \notin MoveFns
      BY <2>0, <3>2 DEF Idle, MoveFns
    <3>4. Fits(v.panel, content)
      <4>1. CASE ~Got(i)
        BY <1>5, <1>7, <2>3, <3>1, <4>1 DEF TemplatesTrue, Got
      <4>2. CASE Got(i)
        <5>1. v.panel = ui.panel
          BY <1>7, <2>3, <4>2
        <5>2. ~ \E j \in Slots : flight[j].fn = "detachTemplate" /\ flight[j].reply[1] # "ok"
          BY <3>2, <4>2 DEF Got, MoveFns
        <5>3. ~ \E j \in Slots : flight[j].fn = "attachTemplate"
          BY <3>1, <3>2 DEF MoveFns
        <5>4. Near(ui.panel, content) /\ \A y \in DOMAIN content : Agrees(ui.panel, content, y)
          BY <1>5, <5>2, <5>3 DEF TemplatesTrue
        <5> QED BY <5>1, <5>4, FitsIsNear
      <4> QED BY <4>1, <4>2
    <3> QED BY <3>3, <3>4, NoneMoved
  <2> QED BY <2>1, <2>2, <2>3
<1>10. TabTrue(ui.tab, v.panel, Done(i), PanelOf(db, ui), db[Library])
  BY <1>4, <1>9 DEF TabTrue, content, library, g
<1>11. v.panel # NoList
  <2>1. CASE \E j \in Slots : g[j].fn = "detachTemplate" /\ g[j].reply[1] # "ok"
    <3>1. PICK j \in Slots : g[j].fn = "detachTemplate"
      BY <2>1
    <3>2. v.panel = Drop(g[j].memo, g[j].row)
      BY <1>9, <3>1 DEF TemplatesTrue
    <3>3. j # i /\ flight[j] = g[j]
      BY <1>8, <3>1 DEF g, Idle
    <3>4. Asked(flight[j])
      BY <3>1, <3>3, OfTheTab DEF TabFns, TabWrites
    <3>5. g[j].memo \in Seq(Row)
      BY <3>1, <3>3, <3>4 DEF Asked
    <3> QED BY <3>2, <3>5, DropTyped, NoListIsNone
  <2>2. CASE Near(v.panel, content)
    BY <2>2, NoListIsNone DEF Near
  <2> QED BY <1>9, <2>1, <2>2 DEF TemplatesTrue
<1>12. ~v.panelFailed
  BY <1>5, <1>7
<1> QED BY <1>1, <1>2, <1>3, <1>7, <1>10, <1>11, <1>12, TabAnswerTrue

-----------------------------------------------------------------------------
(* The workspace itself: loaded, renamed, left for another.                *)

(* Before the workspace is there its tab asks for nothing and writes       *)
(* nothing, and nothing changes the workspace.                             *)
LEMMA NothingOfTheTab ==
  ASSUME Inv, Clear(ui, flight), DetailTrue(ui, flight, db), ui.at = "detail", ~IsSettled(ui)
  PROVE  /\ \A j \in Slots : flight[j].fn \notin TabFns \cup {"updateWorkspace"}
         /\ ui.panel = NoList
<1>1. \A j \in Slots : flight[j].fn \notin TabFns
  BY OfTheTab
<1>2. \A j \in Slots : flight[j].fn # "updateWorkspace"
  <2> DEFINE content == db[Workspaces]
  <2>1. RowTrue(ui, flight, content)
    BY DEF DetailTrue, RestTrue
  <2> HIDE DEF content
  <2> QED BY <2>1 DEF RowTrue
<1>3. ui.panel = NoList
  <2> DEFINE content == PanelOf(db, ui)
             library == db[Library]
  <2>1. PanelTrue(ui, flight, content, library)
    BY DEF DetailTrue
  <2> HIDE DEF content, library
  <2> QED BY <2>1 DEF PanelTrue
<1> QED BY <1>1, <1>2, <1>3

(* What stays in flight is what it was. *)
LEMMA NoneOfThem ==
  ASSUME NEW f, NEW g, NEW gone, NEW parts, NEW fns, NEW new, Turns(f, g, gone, parts, fns, new),
         NEW S, "none" \notin S, \A j \in Slots : f[j].fn \notin S, \A r \in new : r.fn \notin S
  PROVE  \A j \in Slots : g[j].fn \notin S
BY SentOrStayed

(* The second of both loads. *)
LEMMA SecondIs ==
  ASSUME NEW ps, NEW qs, ps \in Seq(ToSet(ps)), qs \in Seq(ToSet(qs)), Len(ps) \in {0, 1}, Len(qs) \in {0, 1},
         Len(ps \o qs) = 2
  PROVE  (ps \o qs)[2] \in ToSet(qs)
<1>1. PICK m \in {0, 1}, n \in {0, 1} : m = Len(ps) /\ n = Len(qs)
  OBVIOUS
<1>2. m + n = 2
  BY <1>1, ConcatProperties
<1>3. m = 1 /\ n = 1
  BY <1>2
<1>4. (ps \o qs)[2] = qs[1] /\ 1 \in DOMAIN qs
  <2>0. ASSUME NEW Q, NEW s \in Seq(Q), Len(s) = 1 PROVE s = <<s[1]>>
    BY <2>0
  <2>1. ps = <<ps[1]>> /\ qs = <<qs[1]>>
    BY <1>1, <1>3, <2>0
  <2>2. \A a, b : (<<a>> \o <<b>>)[2] = b /\ 1 \in DOMAIN <<b>>
    OBVIOUS
  <2> QED BY <2>1, <2>2
<1> QED BY <1>4 DEF ToSet

(* An answer that is not of the latest request for the workspace. *)
LEMMA OldWorkspaceTrue ==
  ASSUME Inv, DetailTrue(ui, flight, db), ui.at = "detail", NEW i \in Slots, flight[i] # Idle,
         flight[i].fn = "getWorkspace", Client(ui, Done(i))
  PROVE  DetailTrue(ui', flight', db')
<1>1. Within /\ ui' = ui /\ flight' = Done(i)
  BY ClientWithin
<1>2. Turns(flight, flight', {i}, {}, {}, {})
  BY <1>1, AtDetail, DoneTurns
<1>3. flight[i].fn \notin TabFns \cup MemberWrites \cup {"updateWorkspace", "deleteWorkspace", "listMembers"}
  BY DEF TabFns, PanelFns, TabWrites, MemberWrites
<1>4. /\ \A j \in {i} : flight[j].fn \notin TabFns
      /\ \A j \in {i} : flight[j].fn \in {"updateWorkspace", "deleteWorkspace"} => flight[j].reply[1] # "ok"
      /\ \A j \in {i} : flight[j].fn \in MemberWrites => flight[j].reply[1] # "ok"
      /\ \A j \in {i} : flight[j].fn # "listMembers"
  BY <1>3
<1>5. "listMembers" \notin {} /\ "screen" \notin {}
  OBVIOUS
<1> QED BY <1>1, <1>2, <1>4, <1>5, DetailSame

(* The workspace is there: the tab asks for its rows. *)
LEMMA WorkspaceThereTrue ==
  ASSUME Inv, Clear(ui, flight), DetailTrue(ui, flight, db), ui.at = "detail", NEW i \in Slots, flight[i] # Idle,
         flight[i].fn = "getWorkspace", flight[i].latest, Got(i), ShowWorkspace(ui, Result(i)[1], Done(i))
  PROVE  DetailTrue(ui', flight', db')
<1> DEFINE x == Result(i)[1]
           f == Done(i)
           old == {j \in DOMAIN f : f[j].fn \in PanelFns \cup {"listMemberCandidates"}}
           g == [j \in DOMAIN f |-> IF j \in old THEN Idle ELSE f[j]]
           ps == PanelLoads(ui.tab, ui.id)
           qs == PoolLoads(ui.dialog, ui.id)
           S == ToSet(ps \o qs)
           content == db[Workspaces]
<1>1. /\ DetailTyped(ui) /\ Flights(flight) /\ DOMAIN ui = DetailFields /\ token \in Nat /\ ui.tab \in Tabs
      /\ ui.id \in WorkspaceIds /\ IsRequest(flight[i]) /\ Asked(flight[i]) /\ Replies(flight[i])
  BY AtDetail DEF DetailFields, DetailTyped, Inv, Calls, CallsTyped
<1>2. RowTrue(ui, flight, content)
  BY DEF DetailTrue, RestTrue
<1>3. /\ ui.loading /\ flight[i].row = ui.id
      /\ Result(i) = <<<<ui.id, content[ui.id]>>>> \/ TookOf(flight, {"deleteWorkspace"}, ui.id)
      /\ \A j \in Slots : flight[j].fn = "getWorkspace" /\ flight[j].latest => j = i
  <2>1. i \in Latest(flight, "getWorkspace")
    BY DEF Latest
  <2> HIDE DEF content
  <2>2. \A j \in Slots : flight[j].fn = "getWorkspace" /\ flight[j].latest => j = i
    BY <1>2, <2>1 DEF RowTrue, Latest
  <2> QED BY <1>2, <2>1, <2>2 DEF RowTrue, Got, Result
<1>4. x[1] = ui.id /\ Result(i) = <<x>>
  <2>1. Result(i) = <<<<flight[i].row, Result(i)[1][2]>>>>
    BY <1>1 DEF Replies, Got, Result
  <2>2. \A a, b, c : c = <<<<a, b>>>> => c[1][1] = a /\ c = <<c[1]>>
    OBVIOUS
  <2> QED BY <1>3, <2>1, <2>2
<1>5. ~Settled /\ ~IsSettled(ui)
  BY <1>3 DEF Settled, IsSettled
<1>6. /\ \A j \in Slots : flight[j].fn \notin TabFns \cup {"updateWorkspace"}
      /\ ui.panel = NoList
  BY <1>5, NothingOfTheTab
<1>7. /\ Cardinality(FreeSlots(g)) >= Len(ps \o qs)
      /\ ui' = [ui EXCEPT !.rows = <<x>>, !.loading = FALSE, !.failed = FALSE, !.gone = FALSE,
                        !.panelFailed = FALSE, !.pool = IF Settled THEN @ ELSE NoList,
                        !.panel = IF Settled /\ ui.tab # "guardrails" THEN @ ELSE NoList]
      /\ flight' = SendAll(g, ps \o qs) /\ db' = db
  BY <1>4, <1>5 DEF ShowWorkspace, serverVars
<1> HIDE DEF x
<1>8. /\ ui'.at = ui.at /\ ui'.id = ui.id /\ ui'.loading = FALSE /\ ui'.failed = FALSE /\ ui'.gone = FALSE
      /\ ui'.rows = <<x>> /\ ui'.roster = ui.roster /\ ui'.rosterFailed = ui.rosterFailed /\ ui'.tab = ui.tab
      /\ ui'.panel = NoList /\ ui'.panelFailed = FALSE /\ ui'.pool = NoList /\ ui'.dialog = ui.dialog
  BY <1>1, <1>5, <1>7 DEF DetailFields
<1>9. /\ ps \in Seq(ToSet(ps)) /\ Len(ps) \in {0, 1}
      /\ \A r \in ToSet(ps) : New(r) /\ r.fn \in PanelFns /\ r.table[2] = ui.id
  BY <1>1, PanelLoadsAre, PanelLoadsOf
<1>10. /\ qs \in Seq(ToSet(qs)) /\ Len(qs) \in {0, 1}
       /\ \A r \in ToSet(qs) : New(r) /\ r.fn \in {"listMemberCandidates", "listTemplateLibrary"}
  BY <1>1, PoolLoadsAre
<1> HIDE DEF ps, qs
<1>11. ps \o qs \in Seq(S) /\ Len(ps \o qs) =< 2 /\ S = ToSet(ps) \cup ToSet(qs) /\ ToSet(ps \o qs) = S
  BY <1>9, <1>10, BothLoads
<1> HIDE DEF S
<1>12. \A r \in S : IsRequest(r)
  BY <1>9, <1>10, <1>11 DEF New
<1>13. Turns(flight, g, {i} \cup old, {}, {}, {}) /\ Flights(g)
  <2>1. Turns(flight, g, {i} \cup old, {}, {}, {})
    BY <1>1, OldOnesEnd
  <2> HIDE DEF g, old
  <2> QED BY <2>1 DEF Turns
<1>14. \A j \in {i} \cup old : flight[j].fn \in {"getWorkspace", "listMemberCandidates"} \cup PanelFns
  <2>1. Flights(f) /\ f[i] = Idle /\ \A j \in Slots : j # i => f[j] = flight[j]
    BY <1>1, WasDone
  <2>2. DOMAIN f = Slots
    BY <2>1 DEF Flights
  <2> HIDE DEF f
  <2> QED BY <2>1, <2>2
<1> DEFINE gone == {i} \cup old
<1> HIDE DEF g, old, f
<1>15. Turns(flight, flight', gone, {}, {}, S)
  <2>1. Turns(g, flight', {}, {}, {}, S)
    BY <1>7, <1>11, <1>12, <1>13, LoadsTurn
  <2> QED BY <1>13, <2>1, ThenTurns
<1>16. \A j \in gone : flight[j].fn \notin {"updateWorkspace", "deleteWorkspace", "listMembers"} \cup MemberWrites
  BY <1>14 DEF PanelFns, MemberWrites
<1>17. i \in gone
  OBVIOUS
<1> HIDE DEF gone
<1>18. \A r \in S : r.reply = Pending /\ r.fn \in PanelFns \cup {"listMemberCandidates", "listTemplateLibrary"}
  BY <1>9, <1>10, <1>11 DEF New
<1>19. RowTrue(ui', flight', content)
  <2>1. Latest(flight', "getWorkspace") = {}
    <3>1. SUFFICES ASSUME NEW j \in Slots, flight'[j].fn = "getWorkspace", flight'[j].latest PROVE FALSE
      BY DEF Latest
    <3>2. flight'[j] \notin S
      BY <1>18, <3>1 DEF PanelFns
    <3>3. flight'[j].fn # "none"
      BY <3>1
    <3> QED BY <1>3, <1>15, <1>17, <3>1, <3>2, <3>3, SentOrStayed
  <2>2. \A j \in Slots : flight'[j].fn # "updateWorkspace"
    <3>1. SUFFICES ASSUME NEW j \in Slots, flight'[j].fn = "updateWorkspace" PROVE FALSE
      OBVIOUS
    <3>2. flight'[j] \notin S /\ flight'[j].fn # "none"
      BY <1>18, <3>1 DEF PanelFns
    <3> QED BY <1>6, <1>15, <3>1, <3>2, SentOrStayed
  <2>3. ui'.rows = <<<<ui'.id, content[ui'.id]>>>> \/ TookOf(flight', {"updateWorkspace", "deleteWorkspace"}, ui'.id)
    <3>1. CASE TookOf(flight, {"deleteWorkspace"}, ui.id)
      <4>1. {"deleteWorkspace"} \subseteq WriteFns
        BY Writers
      <4>2. \A j \in gone : flight[j].fn \in {"deleteWorkspace"} => flight[j].reply[1] # "ok"
        BY <1>16
      <4>3. TookOf(flight', {"deleteWorkspace"}, ui.id)
        BY <1>15, <3>1, <4>1, <4>2, TookOfOn
      <4> QED BY <1>8, <4>3 DEF TookOf
    <3>2. CASE Result(i) = <<<<ui.id, content[ui.id]>>>>
      BY <1>4, <1>8, <3>2
    <3> QED BY <1>3, <3>1, <3>2
  <2>4. ui'.rows[1][1] = ui'.id
    BY <1>4, <1>8
  <2> HIDE DEF content
  <2> QED BY <1>8, <2>1, <2>2, <2>3, <2>4 DEF RowTrue
<1>20. RosterTrue(ui', flight', MembersOf(db, ui'))
  <2> DEFINE members == MembersOf(db, ui)
  <2>1. RosterTrue(ui, flight, members)
    BY DEF DetailTrue, RestTrue
  <2>2. MembersOf(db, ui') = members
    BY <1>8 DEF MembersOf
  <2> HIDE DEF members
  <2>3. /\ \A j \in gone : flight[j].fn \in MemberWrites => flight[j].reply[1] # "ok"
        /\ \A j \in gone : flight[j].fn # "listMembers"
        /\ \A r \in S : r.reply = Pending /\ (r.fn \in MemberWrites => r.memo = r.table[2])
        /\ "listMembers" \notin {} /\ "screen" \notin {}
    BY <1>16, <1>18 DEF PanelFns, MemberWrites
  <2>4. ui'.roster = ui.roster /\ ui'.rosterFailed = ui.rosterFailed
    BY <1>8
  <2>5. RosterTrue(ui', flight', members)
    BY <1>15, <2>1, <2>3, <2>4, RosterStays
  <2> QED BY <2>2, <2>5
<1>21. PoolTrue(ui', flight', db[Library])
  <2> DEFINE library == db[Library]
  <2>1. PoolTrue(ui, flight, library)
    BY DEF DetailTrue, RestTrue
  <2> HIDE DEF library
  <2>2. \A r \in S : r.reply = Pending
    BY <1>18
  <2>3. ui'.pool = NoList
    BY <1>8
  <2>4. PoolTrue(ui', flight', library)
    BY <1>15, <2>1, <2>2, <2>3, PoolStays
  <2> QED BY <2>4 DEF library
<1>22. PanelTrue(ui', flight', PanelOf(db, ui'), db[Library])
  <2> DEFINE panel == PanelOf(db, ui')
             library == db[Library]
             fns == PanelFns
  <2>1. \A j \in Slots : flight'[j].fn \in TabFns =>
          flight'[j].fn \in PanelFns /\ flight'[j].table[2] = ui'.id /\ flight'[j].reply = Pending
    <3>1. SUFFICES ASSUME NEW j \in Slots, flight'[j].fn \in TabFns PROVE flight'[j] \in ToSet(ps)
      BY <1>8, <1>9 DEF New
    <3>2. flight'[j].fn # "none" /\ flight'[j].fn \notin {"listMemberCandidates", "listTemplateLibrary"}
      BY <3>1 DEF TabFns, PanelFns, TabWrites
    <3>3. flight'[j] \in S
      BY <1>6, <1>15, <3>1, <3>2, SentOrStayed
    <3> QED BY <1>10, <1>11, <3>2, <3>3
  <2>2. \A j, k \in Slots : flight'[j].fn \in PanelFns /\ flight'[k].fn \in PanelFns => j = k
    <3>1. \A j \in Slots : g[j].fn \notin fns
      <4>1. /\ \A j \in Slots : flight[j].fn \notin PanelFns
            /\ "none" \notin PanelFns /\ \A r \in {} : r.fn \notin PanelFns
        BY <1>6 DEF TabFns, PanelFns
      <4> DEFINE F == PanelFns
      <4> HIDE DEF F
      <4>2. /\ \A j \in Slots : flight[j].fn \notin F
            /\ "none" \notin F /\ \A r \in {} : r.fn \notin F
        BY <4>1 DEF F
      <4>3. \A j \in Slots : g[j].fn \notin F
        BY <1>13, <4>2, NoneOfThem
      <4> QED BY <4>3 DEF F
    <3>2. Len(ps \o qs) = 2 => (ps \o qs)[2].fn \notin fns
      <4>1. ASSUME Len(ps \o qs) = 2 PROVE (ps \o qs)[2] \in ToSet(qs)
        BY <1>9, <1>10, <4>1, SecondIs
      <4> QED BY <1>10, <4>1 DEF PanelFns
    <3> HIDE DEF fns
    <3>3. \A j, k \in Slots : SendAll(g, ps \o qs)[j].fn \in fns /\ SendAll(g, ps \o qs)[k].fn \in fns => j = k
      <4> DEFINE rs == ps \o qs
      <4>1. rs \in Seq(S) /\ Len(rs) =< 2 /\ Cardinality(FreeSlots(g)) >= Len(rs)
        BY <1>7, <1>11
      <4>3. Len(rs) = 2 => rs[2].fn \notin fns
        BY <3>2
      <4>4. Flights(g)
        BY <1>13
      <4> HIDE DEF rs, g
      <4>2. OneOf(SendAll(g, rs), fns)
        BY <1>12, <3>1, <4>1, <4>3, <4>4, OneOfThem
      <4> QED BY <4>2 DEF OneOf, rs
    <3> QED BY <1>7, <3>3 DEF fns
  <2>3. ui'.panel = NoList /\ ~ui'.panelFailed
    BY <1>8
  <2> HIDE DEF panel, library, fns
  <2>4. PanelTrue(ui', flight', panel, library)
    BY <2>1, <2>2, <2>3, PanelNone
  <2> QED BY <2>4 DEF panel, library
<1> QED BY <1>7, <1>19, <1>20, <1>21, <1>22 DEF DetailTrue, RestTrue, content

(* The workspace is not there, or it could not be loaded. *)
LEMMA WorkspaceMissingTrue ==
  ASSUME Inv, Clear(ui, flight), DetailTrue(ui, flight, db), ui.at = "detail", NEW i \in Slots, flight[i] # Idle,
         flight[i].fn = "getWorkspace", flight[i].latest, db' = db,
         Turns(flight, flight', {i}, {"tab", "dialog"}, {}, {}),
         ui'.at = ui.at, ui'.id = ui.id, ui'.loading = FALSE, ui'.gone <=> flight[i].reply = NotFound,
         ui'.failed <=> flight[i].reply # NotFound, ui'.roster = ui.roster, ui'.rosterFailed = ui.rosterFailed,
         ui'.panel = NoList, ui'.dialog = Left(ui.dialog)
  PROVE  DetailTrue(ui', flight', db')
<1> DEFINE content == db[Workspaces]
           parts == {"tab", "dialog"}
           isNot == flight[i].reply = NotFound
<1>1. DetailTyped(ui) /\ Flights(flight) /\ DOMAIN ui = DetailFields
  BY AtDetail DEF DetailFields
<1>2. RowTrue(ui, flight, content)
  BY DEF DetailTrue, RestTrue
<1>3. /\ ui.loading /\ (flight[i].reply = NotFound => content[ui.id] = 0)
      /\ \A j \in Slots : flight[j].fn = "getWorkspace" /\ flight[j].latest => j = i
  <2>1. i \in Latest(flight, "getWorkspace")
    BY DEF Latest
  <2> HIDE DEF content
  <2>2. \A j \in Slots : flight[j].fn = "getWorkspace" /\ flight[j].latest => j = i
    BY <1>2, <2>1 DEF RowTrue, Latest
  <2> QED BY <1>2, <2>1, <2>2 DEF RowTrue
<1>4. ~IsSettled(ui)
  BY <1>3 DEF IsSettled
<1>5. \A j \in Slots : flight[j].fn \notin TabFns \cup {"updateWorkspace"}
  BY <1>4, NothingOfTheTab
<1>6. Turns(flight, flight', {i}, parts, {}, {})
  OBVIOUS
<1>7. /\ ui'.at = ui.at /\ ui'.id = ui.id /\ ui'.loading = FALSE /\ (ui'.gone <=> isNot) /\ (ui'.failed <=> ~isNot)
      /\ ui'.roster = ui.roster /\ ui'.rosterFailed = ui.rosterFailed /\ ui'.panel = NoList
      /\ ui'.dialog = Left(ui.dialog)
  OBVIOUS
<1> HIDE DEF isNot
<1>8. ~IsSettled(ui')
  BY <1>7 DEF IsSettled
<1>9. \A j \in {i} : flight[j].fn \notin {"updateWorkspace", "deleteWorkspace", "listMembers"} \cup MemberWrites
  BY DEF MemberWrites
<1> HIDE DEF parts
<1>10. \A j \in Slots : flight'[j].fn \notin TabFns \cup {"updateWorkspace"}
  <2> DEFINE S == TabFns \cup {"updateWorkspace"}
  <2>1. "none" \notin S /\ \A r \in {} : r.fn \notin S
    BY DEF TabFns, PanelFns, TabWrites
  <2>2. \A j \in Slots : flight[j].fn \notin S
    BY <1>5
  <2> HIDE DEF S
  <2>3. \A j \in Slots : flight'[j].fn \notin S
    BY <1>6, <2>1, <2>2, NoneOfThem
  <2> QED BY <2>3 DEF S
<1>11. RowTrue(ui', flight', content)
  <2>1. Latest(flight', "getWorkspace") = {}
    <3>1. SUFFICES ASSUME NEW j \in Slots, flight'[j].fn = "getWorkspace", flight'[j].latest PROVE FALSE
      BY DEF Latest
    <3>2. flight'[j] \notin {} /\ flight'[j].fn # "none"
      BY <3>1
    <3> QED BY <1>3, <1>6, <3>1, <3>2, SentOrStayed
  <2>2. ui'.gone => content[ui'.id] = 0
    BY <1>3, <1>7 DEF isNot
  <2> HIDE DEF content
  <2> QED BY <1>8, <1>10, <2>1, <2>2 DEF RowTrue
<1>12. RosterTrue(ui', flight', MembersOf(db, ui'))
  <2> DEFINE members == MembersOf(db, ui)
  <2>1. RosterTrue(ui, flight, members)
    BY DEF DetailTrue, RestTrue
  <2>2. MembersOf(db, ui') = members
    BY <1>7 DEF MembersOf
  <2> HIDE DEF members
  <2>3. /\ \A j \in {i} : flight[j].fn \in MemberWrites => flight[j].reply[1] # "ok"
        /\ \A j \in {i} : flight[j].fn # "listMembers"
        /\ \A r \in {} : r.reply = Pending /\ (r.fn \in MemberWrites => r.memo = r.table[2])
        /\ "listMembers" \notin {} /\ "screen" \notin parts
    BY <1>9 DEF parts
  <2>4. ui'.roster = ui.roster /\ ui'.rosterFailed = ui.rosterFailed
    BY <1>7
  <2>5. RosterTrue(ui', flight', members)
    <3> DEFINE gone == {i}
               fns == {}
               new == {}
    <3>1. Turns(flight, flight', gone, parts, fns, new)
      BY <1>6
    <3>2. /\ \A j \in gone : flight[j].fn \in MemberWrites => flight[j].reply[1] # "ok"
          /\ \A r \in new : r.reply = Pending /\ (r.fn \in MemberWrites => r.memo = r.table[2])
          /\ "listMembers" \notin fns /\ "screen" \notin parts
          /\ \A j \in gone : flight[j].fn # "listMembers"
      BY <2>3
    <3> HIDE DEF gone, fns, new
    <3> QED BY <2>1, <2>4, <3>1, <3>2, RosterStays
  <2> QED BY <2>2, <2>5
<1>13. PoolTrue(ui', flight', db[Library])
  <2> DEFINE library == db[Library]
  <2>1. PoolTrue(ui, flight, library)
    BY DEF DetailTrue, RestTrue
  <2> HIDE DEF library
  <2>2. \A r \in {} : r.reply = Pending
    OBVIOUS
  <2>3. ui'.dialog.kind # "addTemplate"
    BY <1>7 DEF Left, Closed
  <2>4. PoolTrue(ui', flight', library)
    <3> DEFINE gone == {i}
               fns == {}
               new == {}
    <3>1. Turns(flight, flight', gone, parts, fns, new) /\ \A r \in new : r.reply = Pending
      BY <1>6
    <3> HIDE DEF gone, fns, new
    <3> QED BY <2>1, <2>3, <3>1, PoolStays
  <2> QED BY <2>4 DEF library
<1>14. PanelTrue(ui', flight', PanelOf(db, ui'), db[Library])
  <2> DEFINE panel == PanelOf(db, ui')
             library == db[Library]
  <2>1. ui'.panel = NoList /\ \A j \in Slots : flight'[j].fn \notin TabFns
    BY <1>7, <1>10
  <2> HIDE DEF panel, library
  <2>2. PanelTrue(ui', flight', panel, library)
    BY <2>1, PanelAlone
  <2> QED BY <2>2 DEF panel, library
<1> QED BY <1>11, <1>12, <1>13, <1>14 DEF DetailTrue, RestTrue, content

(* The answer of getWorkspace. *)
LEMMA GotWorkspaceTrue ==
  ASSUME Inv, Clear(ui, flight), DetailTrue(ui, flight, db), NEW i \in Slots, GotWorkspace(i)
  PROVE  DetailTrue(ui', flight', db')
<1>1. flight[i] # Idle /\ flight[i].fn = "getWorkspace" /\ "screen" \in flight[i].owner
  BY DEF GotWorkspace, Answered, Awaits
<1>2. ui.at = "detail"
  <2>1. flight[i].owner # {}
    BY <1>1
  <2> QED BY <1>1, <2>1, WhereItIs DEF AskedOf
<1>3. flight[i].latest \in BOOLEAN
  BY <1>1, <1>2, AtDetail DEF IsRequest
<1>4. CASE ~flight[i].latest
  <2>1. Client(ui, Done(i))
    BY <1>4 DEF GotWorkspace
  <2> QED BY <1>1, <1>2, <2>1, OldWorkspaceTrue
<1>5. CASE flight[i].latest /\ Got(i)
  <2>1. ShowWorkspace(ui, Result(i)[1], Done(i))
    BY <1>5 DEF GotWorkspace
  <2> QED BY <1>1, <1>2, <1>5, <2>1, WorkspaceThereTrue
<1>6. CASE flight[i].latest /\ ~Got(i)
  <2>1. /\ ui' = [Emptied EXCEPT !.loading = FALSE, !.gone = flight[i].reply = NotFound,
                                 !.failed = flight[i].reply # NotFound]
        /\ flight' = Unmount(Done(i), {"tab", "dialog"})
        /\ db' = db
    BY <1>6 DEF GotWorkspace, serverVars
  <2>2. DOMAIN ui = DetailFields /\ Flights(flight)
    BY <1>2, AtDetail DEF DetailFields
  <2>3. Turns(flight, flight', {i}, {"tab", "dialog"}, {}, {})
    BY <2>1, <2>2, DoneTurns, PartsTurn
  <2>4. /\ ui'.at = ui.at /\ ui'.id = ui.id /\ ui'.loading = FALSE /\ (ui'.gone <=> flight[i].reply = NotFound)
        /\ (ui'.failed <=> flight[i].reply # NotFound) /\ ui'.roster = ui.roster
        /\ ui'.rosterFailed = ui.rosterFailed /\ ui'.panel = NoList /\ ui'.dialog = Left(ui.dialog)
    BY <2>1, <2>2 DEF DetailFields, Emptied
  <2>5. db' = db
    BY <2>1
  <2> QED BY <1>1, <1>2, <1>6, <2>3, <2>4, <2>5, WorkspaceMissingTrue
<1> QED BY <1>3, <1>4, <1>5, <1>6

(* It is asked for again. *)
LEMMA RetryWorkspaceTrue ==
  ASSUME Inv, Clear(ui, flight), DetailTrue(ui, flight, db), RetryWorkspace
  PROVE  DetailTrue(ui', flight', db')
<1> DEFINE q == GetWorkspace(ui.id)
           v == [ui EXCEPT !.loading = TRUE, !.failed = FALSE, !.gone = FALSE]
           content == db[Workspaces]
<1>1. ui.at = "detail" /\ ui.failed /\ Room(1) /\ Client(v, Send(Supersede(flight, {"getWorkspace"}), q))
  BY DEF RetryWorkspace, LoadWorkspace
<1>2. DetailTyped(ui) /\ Flights(flight) /\ token \in Nat /\ DOMAIN ui = DetailFields /\ ui.id \in WorkspaceIds
  BY <1>1, AtDetail DEF DetailFields, DetailTyped
<1>3. New(q) /\ q.fn = "getWorkspace" /\ q.row = ui.id
  BY <1>2, GetWorkspaceIs
<1>4. Within /\ ui' = v /\ flight' = Send(Supersede(flight, {"getWorkspace"}), q)
  BY <1>1, ClientWithin
<1> HIDE DEF q
<1>5. FreeSlots(flight) # {} /\ IsRequest(q) /\ "none" \notin {"getWorkspace"} /\ q.reply = Pending
  BY <1>1, <1>2, <1>3, RoomIsFree DEF New
<1>6. Turns(flight, flight', {}, {}, {"getWorkspace"}, {q})
  BY <1>2, <1>4, <1>5, ReloadTurns
<1>7. PICK k \in Slots : flight'[k] = q /\ \A j \in Slots : flight'[j].fn = "getWorkspace" /\ flight'[j].latest => j = k
  BY <1>2, <1>4, <1>5, Reloaded
<1>8. /\ ui'.at = ui.at /\ ui'.id = ui.id /\ ui'.loading = TRUE /\ ui'.failed = FALSE
      /\ ui'.gone = FALSE /\ ui'.rows = ui.rows /\ ui'.roster = ui.roster /\ ui'.rosterFailed = ui.rosterFailed
      /\ ui'.tab = ui.tab /\ ui'.panel = ui.panel /\ ui'.panelFailed = ui.panelFailed /\ ui'.dialog = ui.dialog
      /\ ui'.pool = ui.pool
  BY <1>1, <1>2, <1>4 DEF DetailFields
<1> HIDE DEF v
<1>9. ~IsSettled(ui) /\ ~IsSettled(ui')
  BY <1>1, <1>8 DEF IsSettled
<1>10. ui.panel = NoList /\ \A j \in Slots : flight[j].fn \notin TabFns \cup {"updateWorkspace"}
  BY <1>1, <1>9, NothingOfTheTab
<1>11. \A j \in Slots : flight'[j].fn \notin TabFns \cup {"updateWorkspace"}
  <2> DEFINE S == TabFns \cup {"updateWorkspace"}
  <2>1. "none" \notin S /\ \A r \in {q} : r.fn \notin S
    BY <1>3 DEF TabFns, PanelFns, TabWrites
  <2>2. \A j \in Slots : flight[j].fn \notin S
    BY <1>10
  <2> HIDE DEF S
  <2>3. \A j \in Slots : flight'[j].fn \notin S
    BY <1>6, <2>1, <2>2, NoneOfThem
  <2> QED BY <2>3 DEF S
<1>12. RowTrue(ui', flight', content)
  <2>1. \A j \in Latest(flight', "getWorkspace") : flight'[j] = q /\ j = k
    BY <1>7 DEF Latest
  <2>2. q.reply[1] # "ok" /\ q.reply # NotFound
    BY <1>5 DEF Pending, NotFound
  <2> HIDE DEF content
  <2> QED BY <1>3, <1>8, <1>9, <1>11, <2>1, <2>2 DEF RowTrue
<1>13. RosterTrue(ui', flight', MembersOf(db, ui'))
  <2> DEFINE members == MembersOf(db, ui)
  <2>1. RosterTrue(ui, flight, members)
    BY DEF DetailTrue, RestTrue
  <2>2. MembersOf(db, ui') = members
    BY <1>8 DEF MembersOf
  <2> HIDE DEF members
  <2>3. /\ \A j \in {} : flight[j].fn \in MemberWrites => flight[j].reply[1] # "ok"
        /\ \A j \in {} : flight[j].fn # "listMembers"
        /\ \A r \in {q} : r.reply = Pending /\ (r.fn \in MemberWrites => r.memo = r.table[2])
        /\ "listMembers" \notin {"getWorkspace"} /\ "screen" \notin {}
    BY <1>3, <1>5 DEF MemberWrites
  <2>4. ui'.roster = ui.roster /\ ui'.rosterFailed = ui.rosterFailed
    BY <1>8
  <2>5. RosterTrue(ui', flight', members)
    BY <1>6, <2>1, <2>3, <2>4, RosterStays
  <2> QED BY <2>2, <2>5
<1>14. PoolTrue(ui', flight', db[Library])
  <2> DEFINE library == db[Library]
  <2>1. PoolTrue(ui, flight, library)
    BY DEF DetailTrue, RestTrue
  <2> HIDE DEF library
  <2>2. \A r \in {q} : r.reply = Pending
    BY <1>5
  <2>3. ui'.dialog.kind = "addTemplate" => ui'.pool = ui.pool /\ ui.dialog.kind = "addTemplate"
    BY <1>8
  <2>4. PoolTrue(ui', flight', library)
    BY <1>6, <2>1, <2>2, <2>3, PoolStays
  <2> QED BY <2>4 DEF library
<1>15. PanelTrue(ui', flight', PanelOf(db, ui'), db[Library])
  <2> DEFINE panel == PanelOf(db, ui')
             library == db[Library]
  <2>1. ui'.panel = NoList /\ \A j \in Slots : flight'[j].fn \notin TabFns
    BY <1>8, <1>10, <1>11
  <2> HIDE DEF panel, library
  <2>2. PanelTrue(ui', flight', panel, library)
    BY <2>1, PanelAlone
  <2> QED BY <2>2 DEF panel, library
<1>16. db' = db
  BY <1>4 DEF Within
<1> QED BY <1>12, <1>13, <1>14, <1>15, <1>16 DEF DetailTrue, RestTrue, content

(* The answer of an update is shown. *)
LEMMA RenamedTrue ==
  ASSUME Inv, Clear(ui, flight), DetailTrue(ui, flight, db), NEW i \in Slots, Renamed(i)
  PROVE  DetailTrue(ui', flight', db')
<1> DEFINE screen == IF Awaits(i, "tab") THEN [ui EXCEPT !.busy = @ \ {"rename"}] ELSE ui
           x == Result(i)
           content == db[Workspaces]
<1>1. /\ flight[i] # Idle /\ flight[i].fn = "updateWorkspace"
      /\ IF Awaits(i, "screen") /\ Got(i) THEN ShowWorkspace(screen, x, Done(i)) ELSE Client(screen, Done(i))
  BY DEF Renamed, Answered
<1>2. Awaits(i, "screen") /\ flight[i].row = ui.id /\ ui.at = "detail"
  <2>1. Writes(flight[i])
    BY <1>1, Writers DEF Writes
  <2>2. Awaits(i, "screen")
    BY <1>1, <2>1 DEF Clear, Awaits, TabWrites
  <2>3. ui.at = "detail"
    BY <1>1, OfTheScreen, WhereItIs
  <2> QED BY <1>1, <2>2, <2>3 DEF Clear
<1>3. /\ DetailTyped(ui) /\ Flights(flight) /\ DOMAIN ui = DetailFields /\ Replies(flight[i])
  BY <1>1, <1>2, AtDetail DEF DetailFields, Inv, Calls, CallsTyped
<1>4. RowTrue(ui, flight, content)
  BY DEF DetailTrue, RestTrue
<1>5. IsSettled(ui) /\ (Got(i) => content[ui.id] = flight[i].value)
  <2> HIDE DEF content
  <2> QED BY <1>1, <1>2, <1>4 DEF RowTrue, Got
<1>6. /\ DOMAIN screen = DetailFields /\ screen.at = ui.at /\ screen.id = ui.id /\ screen.loading = ui.loading
      /\ screen.failed = ui.failed /\ screen.gone = ui.gone /\ screen.rows = ui.rows /\ screen.tab = ui.tab
      /\ screen.panel = ui.panel /\ screen.panelFailed = ui.panelFailed
      /\ screen.roster = ui.roster /\ screen.rosterFailed = ui.rosterFailed /\ screen.dialog = ui.dialog
      /\ screen.pool = ui.pool
  BY <1>3 DEF DetailFields
<1>7. Turns(flight, Done(i), {i}, {}, {}, {})
  BY <1>3, DoneTurns
<1>8. flight[i].fn \notin TabFns \cup MemberWrites \cup {"listMembers"}
  BY <1>1 DEF TabFns, PanelFns, TabWrites, MemberWrites
<1> HIDE DEF screen
<1>9. CASE ~Got(i)
  <2>1. Client(screen, Done(i))
    BY <1>1, <1>9
  <2>2. Within /\ ui' = screen /\ flight' = Done(i)
    BY <2>1, ClientWithin
  <2>3. /\ \A j \in {i} : flight[j].fn \notin TabFns
        /\ \A j \in {i} : flight[j].fn \in {"updateWorkspace", "deleteWorkspace"} => flight[j].reply[1] # "ok"
        /\ \A j \in {i} : flight[j].fn \in MemberWrites => flight[j].reply[1] # "ok"
        /\ \A j \in {i} : flight[j].fn # "listMembers"
        /\ "listMembers" \notin {} /\ "screen" \notin {}
    BY <1>8, <1>9 DEF Got
  <2>4. Turns(flight, flight', {i}, {}, {}, {})
    BY <1>7, <2>2
  <2> QED BY <1>6, <2>2, <2>3, <2>4, DetailSame
<1>10. CASE Got(i)
  <2>1. Settled /\ Shown = ui.id
    <3>1. Settled
      BY <1>5 DEF IsSettled, Settled
    <3> QED BY <3>1, ShownIs
  <2>2. x = <<ui.id, content[ui.id]>> /\ x[1] = ui.id
    BY <1>1, <1>2, <1>3, <1>5, <1>10 DEF Replies, Got, Result
  <2> HIDE DEF x
  <2> DEFINE v == [screen EXCEPT !.rows = <<x>>]
  <2>3. Client(v, Done(i))
    BY <1>1, <1>2, <1>10, <2>1, <2>2 DEF ShowWorkspace
  <2>4. Within /\ ui' = v /\ flight' = Done(i)
    BY <2>3, ClientWithin
  <2>5. /\ ui'.at = ui.at /\ ui'.id = ui.id /\ ui'.loading = ui.loading /\ ui'.failed = ui.failed
        /\ ui'.gone = ui.gone /\ ui'.rows = <<x>> /\ ui'.tab = ui.tab /\ ui'.panel = ui.panel
        /\ ui'.panelFailed = ui.panelFailed /\ ui'.roster = ui.roster /\ ui'.rosterFailed = ui.rosterFailed
        /\ ui'.dialog = ui.dialog /\ ui'.pool = ui.pool
    BY <1>6, <2>4 DEF DetailFields
  <2> HIDE DEF v
  <2>6. Turns(flight, flight', {i}, {}, {}, {}) /\ db' = db
    BY <1>7, <2>4 DEF Within
  <2>7. RowTrue(ui', flight', content)
    <3>1. Latest(flight', "getWorkspace") = {}
      <4>1. SUFFICES ASSUME NEW j \in Slots, flight'[j].fn = "getWorkspace", flight'[j].latest PROVE FALSE
        BY DEF Latest
      <4>2. flight'[j] \notin {} /\ flight'[j].fn # "none"
        BY <4>1
      <4>3. flight[j].fn = "getWorkspace" /\ flight[j].latest
        BY <2>6, <4>1, <4>2, SentOrStayed
      <4>4. ui.loading
        <5> HIDE DEF content
        <5> QED BY <1>4, <4>3 DEF RowTrue, Latest
      <4> QED BY <1>5, <4>4 DEF IsSettled
    <3>2. IsSettled(ui') /\ ~ui'.gone
      BY <1>5, <2>5 DEF IsSettled
    <3>3. ASSUME NEW j \in Slots, flight'[j].fn = "updateWorkspace", flight'[j].reply[1] = "ok"
          PROVE  content[flight'[j].row] = flight'[j].value
      <4>1. flight'[j] \notin {} /\ flight'[j].fn # "none"
        BY <3>3
      <4>2. flight[j].fn = "updateWorkspace" /\ flight[j].reply[1] = "ok" /\ flight[j].row = flight'[j].row /\ flight[j].value = flight'[j].value
        BY <2>6, <3>3, <4>1, SentOrStayed
      <4> HIDE DEF content
      <4> QED BY <1>4, <4>2 DEF RowTrue
    <3>4. ui'.rows = <<<<ui'.id, content[ui'.id]>>>> /\ ui'.rows[1][1] = ui'.id
      BY <2>2, <2>5
    <3> HIDE DEF content
    <3> QED BY <3>1, <3>2, <3>3, <3>4 DEF RowTrue
  <2>8. RosterTrue(ui', flight', MembersOf(db, ui'))
    <3> DEFINE members == MembersOf(db, ui)
    <3>1. RosterTrue(ui, flight, members)
      BY DEF DetailTrue, RestTrue
    <3>2. MembersOf(db, ui') = members
      BY <2>5 DEF MembersOf
    <3> HIDE DEF members
    <3>3. /\ \A j \in {i} : flight[j].fn \in MemberWrites => flight[j].reply[1] # "ok"
          /\ \A j \in {i} : flight[j].fn # "listMembers"
          /\ \A r \in {} : r.reply = Pending /\ (r.fn \in MemberWrites => r.memo = r.table[2])
          /\ "listMembers" \notin {} /\ "screen" \notin {}
      BY <1>8
    <3>4. ui'.roster = ui.roster /\ ui'.rosterFailed = ui.rosterFailed
      BY <2>5
    <3>5. RosterTrue(ui', flight', members)
      BY <2>6, <3>1, <3>3, <3>4, RosterStays
    <3> QED BY <3>2, <3>5
  <2>9. PoolTrue(ui', flight', db[Library])
    <3> DEFINE library == db[Library]
    <3>1. PoolTrue(ui, flight, library)
      BY DEF DetailTrue, RestTrue
    <3> HIDE DEF library
    <3>2. \A r \in {} : r.reply = Pending
      OBVIOUS
    <3>3. ui'.dialog.kind = "addTemplate" => ui'.pool = ui.pool /\ ui.dialog.kind = "addTemplate"
      BY <2>5
    <3>4. PoolTrue(ui', flight', library)
      BY <2>6, <3>1, <3>2, <3>3, PoolStays
    <3> QED BY <3>4 DEF library
  <2>10. PanelTrue(ui', flight', PanelOf(db, ui'), db[Library])
    <3> DEFINE panel == PanelOf(db, ui)
               library == db[Library]
    <3>1. PanelTrue(ui, flight, panel, library)
      BY DEF DetailTrue
    <3>2. PanelOf(db, ui') = panel
      BY <2>5 DEF PanelOf
    <3> HIDE DEF panel, library
    <3>3. ui'.tab = ui.tab /\ ui'.id = ui.id /\ ui'.panel = ui.panel /\ ui'.panelFailed = ui.panelFailed
      BY <2>5
    <3>4. IsSettled(ui) => IsSettled(ui')
      BY <2>5 DEF IsSettled
    <3>5. (\A j \in {i} : flight[j].fn \notin TabFns) /\ \A r \in {} : r.fn \notin TabFns
      BY <1>8
    <3>6. PanelTrue(ui', flight', panel, library)
      BY <2>6, <3>1, <3>3, <3>4, <3>5, PanelStays
    <3> QED BY <3>2, <3>6 DEF library
  <2> QED BY <2>6, <2>7, <2>8, <2>9, <2>10 DEF DetailTrue, RestTrue, content
<1> QED BY <1>9, <1>10

(* A delete that fails leaves everything as it is. *)
LEMMA WorkspaceKeptTrue ==
  ASSUME Inv, Clear(ui, flight), ui.at = "detail", DetailTrue(ui, flight, db), NEW i \in Slots,
         WorkspaceDeleted(i), ui'.at = "detail"
  PROVE  DetailTrue(ui', flight', db')
<1> DEFINE v == IF Awaits(i, "tab") /\ ~Got(i) THEN [ui EXCEPT !.dialog = Closed, !.busy = @ \ {"delete"}] ELSE ui
<1>1. flight[i] # Idle /\ flight[i].fn = "deleteWorkspace"
  BY DEF WorkspaceDeleted, Answered
<1>2. ~Got(i) /\ Client(v, Done(i))
  <2>1. token # 0
    BY DEF Inv, Calls, SessionsOk
  <2>2. ~(Got(i) /\ token # 0 /\ ui.at # "list")
    BY DEF WorkspaceDeleted, Mount, ListScreen
  <2> QED BY <2>1, <2>2 DEF WorkspaceDeleted
<1>3. /\ Flights(flight) /\ DOMAIN ui = DetailFields
  BY AtDetail DEF DetailFields
<1>4. /\ v.at = ui.at /\ v.id = ui.id /\ v.loading = ui.loading
      /\ v.failed = ui.failed /\ v.gone = ui.gone /\ v.rows = ui.rows /\ v.tab = ui.tab
      /\ v.panel = ui.panel /\ v.panelFailed = ui.panelFailed
      /\ v.roster = ui.roster /\ v.rosterFailed = ui.rosterFailed
      /\ v.pool = ui.pool /\ v.dialog \in {ui.dialog, Closed}
  BY <1>3 DEF DetailFields
<1> HIDE DEF v
<1>5. Within /\ ui' = v /\ flight' = Done(i)
  BY <1>2, ClientWithin
<1>6. Turns(flight, flight', {i}, {}, {}, {})
  BY <1>3, <1>5, DoneTurns
<1>7. flight[i].fn \notin TabFns \cup MemberWrites \cup {"listMembers"}
  BY <1>1 DEF TabFns, PanelFns, TabWrites, MemberWrites
<1>8. /\ \A j \in {i} : flight[j].fn \notin TabFns
      /\ \A j \in {i} : flight[j].fn \in {"updateWorkspace", "deleteWorkspace"} => flight[j].reply[1] # "ok"
      /\ \A j \in {i} : flight[j].fn \in MemberWrites => flight[j].reply[1] # "ok"
      /\ \A j \in {i} : flight[j].fn # "listMembers"
      /\ "listMembers" \notin {} /\ "screen" \notin {}
  BY <1>2, <1>7 DEF Got
<1>9. ui'.dialog.kind = "addTemplate" => ui'.pool = ui.pool /\ ui.dialog.kind = "addTemplate"
  BY <1>4, <1>5 DEF Closed
<1> QED BY <1>4, <1>5, <1>6, <1>8, <1>9, DetailSame

(* A detail screen that has just come, before anything is answered. *)
LEMMA FreshDetailTrue ==
  ASSUME NEW v, NEW g, NEW d, NEW w, NEW tab, NEW dialog, AtFirstIs(v, w, tab, dialog),
         \A i, j \in Latest(g, "getWorkspace") : i = j,
         \A i \in Latest(g, "getWorkspace") : g[i].row = w /\ g[i].reply = Pending,
         \A i \in Latest(g, "listMembers") : g[i].reply = Pending,
         \A i \in Slots : g[i].fn \notin TabFns \cup MemberWrites \cup {"updateWorkspace"},
         ComingLast(g, "listMembers"), PoolTrue(v, g, d[Library])
  PROVE  DetailTrue(v, g, d)
<1> DEFINE content == d[Workspaces]
           members == MembersOf(d, v)
           library == d[Library]
           panel == PanelOf(d, v)
<1>1. /\ v.id = w /\ v.loading /\ ~v.gone /\ v.panel = NoList /\ ~v.panelFailed /\ ~IsSettled(v)
  BY DEF AtFirstIs, IsSettled
<1>2. Pending[1] # "ok" /\ Pending # NotFound
  BY DEF Pending, NotFound
<1>3. RowTrue(v, g, content)
  <2> HIDE DEF content
  <2> QED BY <1>1, <1>2 DEF RowTrue
<1>4. RosterTrue(v, g, members)
  <2> HIDE DEF members
  <2> QED BY <1>2 DEF RosterTrue
<1>5. PanelTrue(v, g, panel, library)
  <2> HIDE DEF panel, library
  <2>1. \A i \in Slots : g[i].fn \notin TabFns
    OBVIOUS
  <2> QED BY <1>1, <2>1, PanelAlone
<1> QED BY <1>3, <1>4, <1>5 DEF DetailTrue, RestTrue

(* The last loads of two that are sent. *)
LEMMA BothLast ==
  ASSUME NEW f, Flights(f), Cardinality(FreeSlots(f)) >= 2, NEW q, IsRequest(q), NEW r, IsRequest(r),
         q.fn = "getWorkspace", r.fn = "listMembers",
         NEW g, g = Send(Supersede(Send(Supersede(f, {"getWorkspace"}), q), {"listMembers"}), r)
  PROVE  /\ \A i, j \in Latest(g, "getWorkspace") : i = j
         /\ \A i \in Latest(g, "getWorkspace") : g[i].row = q.row /\ g[i].reply = q.reply
<1> DEFINE h == Send(Supersede(f, {"getWorkspace"}), q)
<1>1. FreeSlots(f) # {}
  BY FreeFinite, FS_EmptySet
<1>2. PICK k \in Slots : h[k] = q /\ \A i \in Slots : h[i].fn \in {"getWorkspace"} /\ h[i].latest => i = k
  BY <1>1, Reloaded
<1>3. Turns(f, h, {}, {}, {"getWorkspace"}, {q})
  BY <1>1, ReloadTurns
<1>4. Flights(h)
  BY <1>3 DEF Turns
<1>5. FreeSlots(h) # {}
  <2> DEFINE a == Supersede(f, {"getWorkspace"})
  <2>1. /\ Flights(a) /\ \A i \in Slots : f[i] = Idle <=> a[i] = Idle
    BY Superseded
  <2>2. IsFiniteSet(FreeSlots(f)) /\ Cardinality(FreeSlots(f)) \in Nat
    BY FreeFinite
  <2>3. FreeSlots(a) = FreeSlots(f) /\ FreeSlots(f) = {i \in Slots : f[i] = Idle}
    BY <2>1 DEF FreeSlots, Flights
  <2>4. PICK m \in Slots : a[m] = Idle /\ h = [a EXCEPT ![m] = q]
    BY <1>1, <2>1, <2>3, Sent
  <2>5. PICK l \in Slots : l # m /\ f[l] = Idle
    <3> SUFFICES ASSUME \A l \in Slots : f[l] = Idle => l = m PROVE FALSE
      OBVIOUS
    <3>1. FreeSlots(f) \subseteq {m}
      BY <2>3
    <3>2. Cardinality({m}) = 1 /\ IsFiniteSet({m})
      BY FS_Singleton
    <3>3. Cardinality(FreeSlots(f)) =< 1
      BY <3>1, <3>2, FS_Subset
    <3> QED BY <2>2, <3>3
  <2>6. h[l] = Idle
    BY <2>1, <2>4, <2>5 DEF Flights
  <2> QED BY <1>4, <2>6 DEF FreeSlots, Flights
<1> HIDE DEF h
<1>6. Turns(h, g, {}, {}, {"listMembers"}, {r})
  <2>1. g = Send(Supersede(h, {"listMembers"}), r)
    BY DEF h
  <2> QED BY <1>4, <1>5, <2>1, ReloadTurns
<1>7. ASSUME NEW i \in Latest(g, "getWorkspace")
      PROVE  i = k /\ g[i].row = q.row /\ g[i].reply = q.reply
  <2>1. i \in Slots /\ g[i].fn = "getWorkspace" /\ g[i].latest
    BY <1>7 DEF Latest
  <2>2. g[i].fn # "none" /\ g[i] \notin {r}
    BY <2>1
  <2>3. h[i].fn = "getWorkspace" /\ h[i].latest /\ h[i].row = g[i].row /\ h[i].reply = g[i].reply
    BY <1>6, <2>1, <2>2, SentOrStayed
  <2> QED BY <1>2, <2>1, <2>3
<1> QED BY <1>7

(* Another workspace: nothing that is in flight is for it. *)
LEMMA JumpTrue ==
  ASSUME Inv, Clear(ui, flight), Clear(ui', flight'), DetailTrue(ui, flight, db), NEW w \in WorkspaceIds, Jump(w)
  PROVE  DetailTrue(ui', flight', db')
<1> DEFINE f == Unmount(flight, {"tab", "dialog"})
           q == GetWorkspace(w)
           r == ListMembers(w, "load")
           parts == {"tab", "dialog"}
           fns == {"getWorkspace", "listMembers"}
<1>1. /\ ui.at = "detail" /\ w # ui.id /\ Cardinality(FreeSlots(f)) >= 2
      /\ ui' = [DetailScreen(w) EXCEPT !.tab = ui.tab, !.dialog = Left(ui.dialog)]
      /\ flight' = Send(Supersede(Send(Supersede(f, {"getWorkspace"}), q), {"listMembers"}), r)
      /\ db' = db
  BY DEF Jump, LoadMembers, LoadWorkspace, serverVars
<1>2. DetailTyped(ui) /\ Flights(flight) /\ token \in Nat
  BY <1>1, AtDetail
<1>3. New(q) /\ q.fn = "getWorkspace" /\ q.row = w
  BY <1>2, GetWorkspaceIs
<1>4. New(r) /\ r.fn = "listMembers" /\ r.owner = {"screen", "tab"} /\ r.latest
  BY <1>2, ListMembersIs, DetailLoadsAreLatest
<1>5. AtFirstIs(ui', w, ui.tab, Left(ui.dialog))
  BY <1>1 DEF DetailScreen, AtFirstIs
<1> HIDE DEF q, r
<1>6. Turns(flight, f, {}, {"tab", "dialog"}, {}, {}) /\ Flights(f)
  BY <1>2, UnmountTurns, Unmounted
<1> HIDE DEF f
<1>7. Turns(flight, flight', {}, parts, fns, {q, r})
  <2>1. Turns(f, flight', {}, {}, {"getWorkspace", "listMembers"}, {q, r})
    BY <1>1, <1>3, <1>4, <1>6, JumpTurns DEF New
  <2> QED BY <1>6, <2>1, ThenTurns
<1>8. /\ \A i, j \in Latest(flight', "getWorkspace") : i = j
      /\ \A i \in Latest(flight', "getWorkspace") : flight'[i].row = w /\ flight'[i].reply = Pending
  <2>1. IsRequest(q) /\ IsRequest(r) /\ q.reply = Pending
    BY <1>3, <1>4 DEF New
  <2> QED BY <1>1, <1>3, <1>4, <1>6, <2>1, BothLast
<1>9. ASSUME NEW i \in Latest(flight', "listMembers") PROVE flight'[i].reply = Pending
  <2>1. i \in Slots /\ flight'[i].fn = "listMembers" /\ flight'[i].fn # "none" /\ flight'[i].latest
    BY DEF Latest
  <2>2. flight'[i] \in {q, r}
    <3> DEFINE new == {q, r}
    <3>1. Turns(flight, flight', {}, parts, fns, new) /\ "listMembers" \in fns
      BY <1>7
    <3> HIDE DEF parts, fns, new
    <3>2. ASSUME flight'[i] \notin new PROVE FALSE
      <4>1. flight[i].fn = flight'[i].fn /\ flight[i].fn \notin fns
        BY <2>1, <3>1, <3>2, SentOrStayed
      <4> QED BY <2>1, <3>1, <4>1
    <3> QED BY <3>2 DEF new
  <2> QED BY <1>3, <1>4, <2>2 DEF New
<1>10. ASSUME NEW i \in Slots PROVE flight'[i].fn \notin TabFns
  <2>1. "tab" \in parts /\ q.fn \notin TabFns /\ r.fn \notin TabFns
    BY <1>3, <1>4 DEF TabFns, PanelFns, TabWrites
  <2> HIDE DEF parts, fns
  <2>2. flight'[i].fn \notin PanelFns
    <3>1. flight'[i].fn \in PanelFns => flight'[i] \in {q, r}
      BY <1>1, <1>7, <2>1, GoneWithTheTab
    <3> QED BY <2>1, <3>1 DEF TabFns
  <2>3. flight'[i].fn \notin TabWrites
    <3>1. SUFFICES ASSUME flight'[i].fn \in TabWrites PROVE FALSE
      OBVIOUS
    <3>2. flight'[i] \in {q, r} \/ (Writes(flight'[i]) /\ "tab" \notin flight'[i].owner)
      BY <1>1, <1>7, <2>1, <3>1, GoneWithTheTab
    <3>3. ~(Writes(flight'[i]) /\ "tab" \notin flight'[i].owner)
      BY <3>1 DEF Clear
    <3> QED BY <2>1, <3>1, <3>2, <3>3 DEF TabFns
  <2> QED BY <2>2, <2>3 DEF TabFns
<1>11. ASSUME NEW i \in Slots PROVE flight'[i].fn \notin MemberWrites \cup {"updateWorkspace"}
  <2>1. SUFFICES ASSUME flight'[i].fn \in MemberWrites \cup {"updateWorkspace"} PROVE FALSE
    OBVIOUS
  <2>2. flight'[i].fn # "none" /\ flight'[i] \notin {q, r}
    BY <1>3, <1>4, <2>1 DEF MemberWrites
  <2>3. flight[i].fn = flight'[i].fn /\ flight[i].row = flight'[i].row /\ flight[i].table = flight'[i].table
    BY <1>7, <2>2, SentOrStayed
  <2>4. ui'.id = w /\ ui'.at = "detail"
    BY <1>5 DEF AtFirstIs
  <2>5. /\ flight'[i].fn \in MemberWrites => flight'[i].table[2] = w /\ flight[i].table[2] = ui.id
        /\ flight'[i].fn = "updateWorkspace" => flight'[i].row = w /\ flight[i].row = ui.id
    BY <1>1, <2>3, <2>4 DEF Clear, MemberWrites
  <2> QED BY <1>1, <2>1, <2>3, <2>5
<1>12. ComingLast(flight', "listMembers")
  <2>1. r \in {q, r} /\ IsRequest(r) /\ "screen" \in r.owner
    BY <1>4 DEF New
  <2>2. ComingLast(flight', r.fn)
    BY <1>4, <1>7, <2>1, NewComes
  <2> QED BY <1>4, <2>2
<1>13. PoolTrue(ui', flight', db'[Library])
  <2> DEFINE library == db[Library]
             new == {q, r}
  <2>1. PoolTrue(ui, flight, library)
    BY DEF DetailTrue, RestTrue
  <2>2. \A s \in new : s.reply = Pending
    BY <1>3, <1>4 DEF New
  <2>3. ui'.dialog.kind # "addTemplate"
    BY <1>5 DEF AtFirstIs, Left, Closed
  <2>4. Turns(flight, flight', {}, parts, fns, new) /\ library = db'[Library]
    BY <1>1, <1>7
  <2> HIDE DEF library, new, parts, fns
  <2>5. PoolTrue(ui', flight', library)
    BY <2>1, <2>2, <2>3, <2>4, PoolStays
  <2> QED BY <2>4, <2>5
<1>14. \A i \in Slots : flight'[i].fn \notin TabFns \cup MemberWrites \cup {"updateWorkspace"}
  BY <1>10, <1>11
<1> QED BY <1>5, <1>8, <1>9, <1>12, <1>13, <1>14, FreshDetailTrue

-----------------------------------------------------------------------------
(* The server answers a request of the screen of a workspace.              *)

(* The server answers one request. *)
AnswersTo(f, g, i, reply) ==
  /\ \A j \in Slots : j # i => g[j] = f[j]
  /\ f[i] # Idle /\ f[i].reply = Pending /\ g[i] # Idle /\ g[i].reply = reply
  /\ g[i].fn = f[i].fn /\ g[i].table = f[i].table /\ g[i].row = f[i].row /\ g[i].value = f[i].value
  /\ g[i].memo = f[i].memo /\ g[i].owner = f[i].owner
  /\ g[i].latest = f[i].latest

(* Only its reply is another. *)
LEMMA AnswersAlike ==
  ASSUME NEW f, NEW g, NEW i \in Slots, NEW reply, AnswersTo(f, g, i, reply)
  PROVE  /\ \A j \in Slots :
              /\ g[j].fn = f[j].fn /\ g[j].table = f[j].table /\ g[j].row = f[j].row /\ g[j].value = f[j].value
              /\ g[j].memo = f[j].memo /\ g[j].owner = f[j].owner /\ (g[j] # Idle <=> f[j] # Idle)
              /\ g[j].latest = f[j].latest
         /\ \A j \in Slots : j # i => g[j].reply = f[j].reply
         /\ \A j \in Slots : f[j].reply[1] = "ok" => j # i /\ g[j].reply[1] = "ok"
         /\ \A fns : Took(f, fns) => Took(g, fns)
         /\ \A fns, row : TookOf(f, fns, row) => TookOf(g, fns, row)
         /\ \A fn : ComingLast(f, fn) => ComingLast(g, fn)
         /\ \A fn : Latest(g, fn) = Latest(f, fn)
<1>1. f[i].reply[1] # "ok"
  BY DEF AnswersTo, Pending
<1>2. \A j \in Slots :
        /\ g[j].fn = f[j].fn /\ g[j].table = f[j].table /\ g[j].row = f[j].row /\ g[j].value = f[j].value
        /\ g[j].memo = f[j].memo /\ g[j].owner = f[j].owner /\ (g[j] # Idle <=> f[j] # Idle)
        /\ g[j].latest = f[j].latest
  BY DEF AnswersTo
<1>3. \A j \in Slots : j # i => g[j].reply = f[j].reply
  BY DEF AnswersTo
<1>4. \A j \in Slots : f[j].reply[1] = "ok" => j # i /\ g[j].reply[1] = "ok"
  BY <1>1, <1>3
<1>5. \A fns : Took(f, fns) => Took(g, fns)
  BY <1>2, <1>4 DEF Took
<1>6. \A fns, row : TookOf(f, fns, row) => TookOf(g, fns, row)
  BY <1>2, <1>4 DEF TookOf
<1>7. \A fn : ComingLast(f, fn) => ComingLast(g, fn)
  BY <1>2 DEF ComingLast
<1>8. \A fn : Latest(g, fn) = Latest(f, fn)
  BY <1>2 DEF Latest
<1> QED BY <1>2, <1>3, <1>4, <1>5, <1>6, <1>7, <1>8

(* getWorkspace is answered with what there is, or a write fails. *)
LEMMA RowHeard ==
  ASSUME NEW f, NEW g, NEW i \in Slots, NEW reply, AnswersTo(f, g, i, reply), NEW u, NEW content, RowTrue(u, f, content),
         f[i].fn = "getWorkspace" /\ reply[1] = "ok" => reply[2] = <<<<f[i].row, content[f[i].row]>>>>,
         f[i].fn = "getWorkspace" /\ reply = NotFound => content[f[i].row] = 0,
         f[i].fn = "updateWorkspace" => reply[1] # "ok"
  PROVE  RowTrue(u, g, content)
<1>1. g[i].reply = reply
  BY DEF AnswersTo
<1>2. \A j, k \in Latest(g, "getWorkspace") : j = k
  <2>1. Latest(g, "getWorkspace") = Latest(f, "getWorkspace")
    BY AnswersAlike DEF Latest
  <2> QED BY <2>1 DEF RowTrue
<1>3. ASSUME NEW j \in Latest(g, "getWorkspace")
      PROVE  /\ u.loading /\ g[j].row = u.id
             /\ g[j].reply[1] = "ok" =>
                  g[j].reply[2] = <<<<u.id, content[u.id]>>>> \/ TookOf(g, {"deleteWorkspace"}, u.id)
             /\ g[j].reply = NotFound => content[u.id] = 0
  <2>1. j \in Latest(f, "getWorkspace") /\ j \in Slots /\ f[j].fn = "getWorkspace"
    BY AnswersAlike DEF Latest
  <2>2. u.loading /\ f[j].row = u.id /\ g[j].row = u.id
    BY <2>1, AnswersAlike DEF RowTrue
  <2>3. CASE j = i
    BY <1>1, <2>1, <2>2, <2>3
  <2>4. CASE j # i
    <3>1. g[j].reply = f[j].reply
      BY <2>1, <2>4, AnswersAlike
    <3>2. TookOf(f, {"deleteWorkspace"}, u.id) => TookOf(g, {"deleteWorkspace"}, u.id)
      BY AnswersAlike
    <3> QED BY <2>1, <2>2, <3>1, <3>2 DEF RowTrue
  <2> QED BY <2>3, <2>4
<1>4. u.gone => content[u.id] = 0
  BY DEF RowTrue
<1>5. \A j \in Slots : g[j].fn = "updateWorkspace" =>
        IsSettled(u) /\ (g[j].reply[1] = "ok" => content[g[j].row] = g[j].value)
  BY <1>1, AnswersAlike DEF RowTrue
<1>6. IsSettled(u) =>
        /\ u.rows[1][1] = u.id
        /\ u.rows = <<<<u.id, content[u.id]>>>> \/ TookOf(g, {"updateWorkspace", "deleteWorkspace"}, u.id)
  BY AnswersAlike DEF RowTrue
<1> QED BY <1>2, <1>3, <1>4, <1>5, <1>6 DEF RowTrue

(* A workspace gets another name, or goes. *)
LEMMA RowWritten ==
  ASSUME NEW f, NEW g, NEW i \in Slots, NEW reply, AnswersTo(f, g, i, reply), reply[1] = "ok",
         NEW u, NEW content, NEW after, RowTrue(u, f, content),
         \/ /\ f[i].fn = "updateWorkspace" /\ f[i].row = u.id /\ after[u.id] = f[i].value
            /\ \A j \in Slots : f[j].fn = "updateWorkspace" => j = i
         \/ /\ f[i].fn = "deleteWorkspace" /\ after[u.id] = (IF u.id = f[i].row THEN 0 ELSE content[u.id])
            /\ \A j \in Slots : f[j].fn = "updateWorkspace" => f[j].row = u.id /\ u.id # f[i].row
  PROVE  RowTrue(u, g, after)
<1> DEFINE took == TookOf(g, {f[i].fn}, f[i].row)
<1>1. g[i].reply = reply /\ took
  BY AnswersAlike DEF AnswersTo, TookOf
<1>2. \A j, k \in Latest(g, "getWorkspace") : j = k
  <2>1. Latest(g, "getWorkspace") = Latest(f, "getWorkspace")
    BY AnswersAlike DEF Latest
  <2> QED BY <2>1 DEF RowTrue
<1>3. ASSUME NEW j \in Latest(g, "getWorkspace")
      PROVE  /\ u.loading /\ g[j].row = u.id
             /\ g[j].reply[1] = "ok" =>
                  g[j].reply[2] = <<<<u.id, after[u.id]>>>> \/ TookOf(g, {"deleteWorkspace"}, u.id)
             /\ g[j].reply = NotFound => after[u.id] = 0
  <2>1. j \in Latest(f, "getWorkspace") /\ j \in Slots /\ f[j].fn = "getWorkspace"
    BY AnswersAlike DEF Latest
  <2>2. u.loading /\ f[j].row = u.id /\ g[j].row = u.id
    BY <2>1, AnswersAlike DEF RowTrue
  <2>3. f[i].fn = "deleteWorkspace"
    BY <2>2 DEF RowTrue, IsSettled
  <2>4. g[j].reply = f[j].reply
    BY <2>1, <2>3, AnswersAlike
  <2>5. TookOf(f, {"deleteWorkspace"}, u.id) => TookOf(g, {"deleteWorkspace"}, u.id)
    BY AnswersAlike
  <2>6. CASE u.id = f[i].row
    BY <1>1, <2>2, <2>3, <2>6
  <2>7. CASE u.id # f[i].row
    <3>1. after[u.id] = content[u.id]
      BY <2>3, <2>7
    <3> QED BY <2>1, <2>2, <2>4, <2>5, <3>1 DEF RowTrue
  <2> QED BY <2>6, <2>7
<1>4. u.gone => after[u.id] = 0
  <2>1. f[i].fn = "updateWorkspace" => ~u.gone
    BY DEF RowTrue, IsSettled
  <2> QED BY <2>1 DEF RowTrue
<1>5. ASSUME NEW j \in Slots, g[j].fn = "updateWorkspace"
      PROVE  IsSettled(u) /\ (g[j].reply[1] = "ok" => after[g[j].row] = g[j].value)
  <2>1. f[j].fn = "updateWorkspace" /\ g[j].row = f[j].row /\ g[j].value = f[j].value /\ (j # i => g[j].reply = f[j].reply)
    BY <1>5, AnswersAlike
  <2> QED BY <2>1 DEF RowTrue
<1>6. ASSUME IsSettled(u)
      PROVE  /\ u.rows[1][1] = u.id
             /\ u.rows = <<<<u.id, after[u.id]>>>> \/ TookOf(g, {"updateWorkspace", "deleteWorkspace"}, u.id)
  <2>1. u.rows[1][1] = u.id
    BY <1>6 DEF RowTrue
  <2>2. CASE f[i].row = u.id
    <3>1. TookOf(g, {"updateWorkspace", "deleteWorkspace"}, u.id)
      BY <1>1, <2>2 DEF TookOf
    <3> QED BY <2>1, <3>1
  <2>3. CASE f[i].row # u.id
    <3>1. after[u.id] = content[u.id]
      BY <2>3
    <3>2. TookOf(f, {"updateWorkspace", "deleteWorkspace"}, u.id) => TookOf(g, {"updateWorkspace", "deleteWorkspace"}, u.id)
      BY AnswersAlike
    <3> QED BY <1>6, <2>1, <3>1, <3>2 DEF RowTrue
  <2> QED BY <2>2, <2>3
<1> QED BY <1>2, <1>3, <1>4, <1>5, <1>6 DEF RowTrue

(* The members are listed, or written and then listed again. *)
LEMMA RosterHeard ==
  ASSUME NEW f, NEW g, NEW i \in Slots, NEW reply, AnswersTo(f, g, i, reply), NEW u, NEW content, NEW after,
         RosterTrue(u, f, content),
         f[i].fn = "listMembers" /\ reply[1] = "ok" => Fits(reply[2], content),
         after = content \/ (f[i].fn \in MemberWrites /\ reply[1] = "ok")
  PROVE  RosterTrue(u, g, after)
<1>1. g[i].reply = reply
  BY DEF AnswersTo
<1>2. \A j \in Slots : g[j].fn \in MemberWrites => g[j].memo = g[j].table[2]
  BY AnswersAlike DEF RosterTrue
<1>3. Took(f, MemberWrites) => Took(g, MemberWrites)
  BY AnswersAlike
<1>4. CASE f[i].fn \in MemberWrites /\ reply[1] = "ok"
  <2>1. Took(g, MemberWrites)
    BY <1>1, <1>4, AnswersAlike DEF Took
  <2> QED BY <1>2, <2>1 DEF RosterTrue
<1>5. CASE after = content
  <2>1. \A j \in Latest(g, "listMembers") : g[j].reply[1] = "ok" => Fits(g[j].reply[2], content) \/ Took(g, MemberWrites)
    <3>1. SUFFICES ASSUME NEW j \in Latest(g, "listMembers"), g[j].reply[1] = "ok"
                   PROVE  Fits(g[j].reply[2], content) \/ Took(g, MemberWrites)
      OBVIOUS
    <3>2. j \in Latest(f, "listMembers") /\ j \in Slots /\ f[j].fn = "listMembers"
      BY AnswersAlike DEF Latest
    <3>3. j # i => g[j].reply = f[j].reply
      BY <3>2, AnswersAlike
    <3> QED BY <1>1, <1>3, <3>1, <3>2, <3>3 DEF RosterTrue
  <2>2. u.rosterFailed \/ ComingLast(g, "listMembers") \/ Fits(u.roster, content) \/ Took(g, MemberWrites)
    BY <1>3, AnswersAlike DEF RosterTrue
  <2> QED BY <1>2, <1>5, <2>1, <2>2 DEF RosterTrue
<1> QED BY <1>4, <1>5

(* The templates of the library are listed. *)
LEMMA PoolHeard ==
  ASSUME NEW f, NEW g, NEW i \in Slots, NEW reply, AnswersTo(f, g, i, reply), NEW u, NEW library, PoolTrue(u, f, library),
         f[i].fn = "listTemplateLibrary" /\ reply[1] = "ok" => Fits(reply[2], library)
  PROVE  PoolTrue(u, g, library)
<1>1. g[i].reply = reply
  BY DEF AnswersTo
<1> QED BY <1>1, AnswersAlike DEF PoolTrue

(* A write of the tab that fails changes nothing. *)
LEMMA TabHeard ==
  ASSUME NEW f, NEW g, NEW i \in Slots, NEW reply, AnswersTo(f, g, i, reply),
         NEW tab, NEW rows, NEW content, NEW library, TabTrue(tab, rows, f, content, library),
         f[i].fn \in TabWrites => reply[1] # "ok"
  PROVE  TabTrue(tab, rows, g, content, library)
<1>1. g[i].reply = reply /\ f[i].reply[1] # "ok"
  BY DEF AnswersTo, Pending
<1>2. ASSUME NEW j \in Slots
      PROVE  /\ g[j].fn = f[j].fn /\ g[j].row = f[j].row /\ g[j].value = f[j].value /\ g[j].memo = f[j].memo
             /\ f[j].fn \in TabWrites => (g[j].reply[1] = "ok" <=> f[j].reply[1] = "ok")
  <2>1. g[j].fn = f[j].fn /\ g[j].row = f[j].row /\ g[j].value = f[j].value /\ g[j].memo = f[j].memo
    BY AnswersAlike
  <2>2. j # i => g[j].reply = f[j].reply
    BY AnswersAlike
  <2> QED BY <1>1, <2>1, <2>2
<1>3. TemplatesTrue(rows, f, content, library) => TemplatesTrue(rows, g, content, library)
  <2>1. SUFFICES ASSUME TemplatesTrue(rows, f, content, library) PROVE TemplatesTrue(rows, g, content, library)
    OBVIOUS
  <2>2. {"attachTemplate", "detachTemplate"} \subseteq TabWrites
    BY DEF TabWrites
  <2>3. ASSUME NEW j \in Slots, g[j].fn = "attachTemplate"
        PROVE  /\ g[j].memo = <<g[j].row, library[g[j].row]>> /\ library[g[j].row] # 0 /\ g[j].value # 0
               /\ g[j].row \in DOMAIN content /\ g[j].row \notin RowsOf(rows)
               /\ g[j].reply[1] = "ok" => content[g[j].row] = library[g[j].row]
    BY <1>2, <2>1, <2>2, <2>3 DEF TemplatesTrue
  <2>4. ASSUME NEW j \in Slots, g[j].fn = "detachTemplate"
        PROVE  rows = Drop(g[j].memo, g[j].row) /\ (g[j].reply[1] # "ok" => Fits(g[j].memo, content))
    BY <1>2, <2>1, <2>2, <2>4 DEF TemplatesTrue
  <2>5. CASE \E j \in Slots : f[j].fn = "detachTemplate" /\ f[j].reply[1] # "ok"
    <3>1. \E j \in Slots : g[j].fn = "detachTemplate" /\ g[j].reply[1] # "ok"
      BY <1>2, <2>2, <2>5
    <3> QED BY <2>3, <2>4, <3>1 DEF TemplatesTrue
  <2>6. CASE ~\E j \in Slots : f[j].fn = "detachTemplate" /\ f[j].reply[1] # "ok"
    <3>1. /\ Near(rows, content)
          /\ \A x \in DOMAIN content :
               \/ \E j \in Slots : f[j].fn = "attachTemplate" /\ f[j].reply[1] = "ok" /\ f[j].row = x
               \/ Agrees(rows, content, x)
      BY <2>1, <2>6 DEF TemplatesTrue
    <3>2. ASSUME NEW x \in DOMAIN content, ~Agrees(rows, content, x)
          PROVE  \E j \in Slots : g[j].fn = "attachTemplate" /\ g[j].reply[1] = "ok" /\ g[j].row = x
      <4>1. PICK j \in Slots : f[j].fn = "attachTemplate" /\ f[j].reply[1] = "ok" /\ f[j].row = x
        BY <3>1, <3>2
      <4> QED BY <1>2, <2>2, <4>1
    <3> QED BY <2>3, <2>4, <3>1, <3>2 DEF TemplatesTrue
  <2> QED BY <2>5, <2>6
<1>4. SwitchesTrue(rows, f, content) => SwitchesTrue(rows, g, content)
  <2>1. SUFFICES ASSUME SwitchesTrue(rows, f, content) PROVE SwitchesTrue(rows, g, content)
    OBVIOUS
  <2>2. "setProviderEnabled" \in TabWrites
    BY DEF TabWrites
  <2>3. ASSUME NEW j \in Slots, g[j].fn = "setProviderEnabled"
        PROVE  /\ g[j].row \in DOMAIN content
               /\ g[j].reply[1] = "ok" => content[g[j].row] = g[j].value
               /\ g[j].reply[1] # "ok" => content[g[j].row] = g[j].memo[2]
               /\ <<g[j].row, g[j].value>> \in ToSet(rows)
    BY <1>2, <2>1, <2>2, <2>3 DEF SwitchesTrue
  <2>4. \A x \in DOMAIN content :
          (\E j \in Slots : g[j].fn = "setProviderEnabled" /\ g[j].row = x) \/ Agrees(rows, content, x)
    BY <1>2, <2>1 DEF SwitchesTrue
  <2> QED BY <2>1, <2>3, <2>4 DEF SwitchesTrue
<1>5. PolicyTrue(rows, f, content) => PolicyTrue(rows, g, content)
  <2>1. "saveGuardrailPolicy" \in TabWrites
    BY DEF TabWrites
  <2>2. Took(f, {"saveGuardrailPolicy"}) => Took(g, {"saveGuardrailPolicy"})
    BY AnswersAlike
  <2> QED BY <1>2, <2>1, <2>2 DEF PolicyTrue
<1> QED BY <1>3, <1>4, <1>5 DEF TabTrue

(* A load of the tab, or a write that leaves it alone. *)
LEMMA PanelHeard ==
  ASSUME NEW f, NEW g, NEW i \in Slots, NEW reply, AnswersTo(f, g, i, reply),
         NEW u, NEW content, NEW library, PanelTrue(u, f, content, library),
         f[i].fn \in PanelFns /\ reply[1] = "ok" => Fits(reply[2], content),
         f[i].fn \in TabWrites => reply[1] # "ok"
  PROVE  PanelTrue(u, g, content, library)
<1>1. g[i].reply = reply
  BY DEF AnswersTo
<1>2. \A j \in Slots : g[j].fn = f[j].fn /\ g[j].table = f[j].table
  BY AnswersAlike
<1>3. ASSUME NEW j \in Slots, g[j].fn \in PanelFns
      PROVE  u.panel = NoList /\ ~u.panelFailed /\ (g[j].reply[1] = "ok" => Fits(g[j].reply[2], content))
  <2>1. j # i => g[j].reply = f[j].reply
    BY AnswersAlike
  <2> QED BY <1>1, <1>2, <1>3, <2>1 DEF PanelTrue
<1>4. u.panel = NoList \/ u.panelFailed \/ TabTrue(u.tab, u.panel, g, content, library)
  BY TabHeard DEF PanelTrue
<1> QED BY <1>2, <1>3, <1>4 DEF PanelTrue

(* A write of the tab takes effect. *)
LEMMA PanelServed ==
  ASSUME NEW f, NEW g, NEW i \in Slots, NEW reply, AnswersTo(f, g, i, reply), f[i].fn \in TabWrites,
         NEW u, NEW content, NEW library, PanelTrue(u, f, content, library), NEW after,
         TabTrue(u.tab, u.panel, g, after, library)
  PROVE  PanelTrue(u, g, after, library)
<1>1. \A j \in Slots : g[j].fn = f[j].fn /\ g[j].table = f[j].table
  BY AnswersAlike
<1>2. \A j \in Slots : g[j].fn \notin PanelFns
  BY <1>1 DEF PanelTrue
<1> QED BY <1>1, <1>2 DEF PanelTrue

(* A template is attached. *)
LEMMA AttachServed ==
  ASSUME NEW f, NEW g, NEW i \in Slots, NEW reply, AnswersTo(f, g, i, reply), reply[1] = "ok", f[i].fn = "attachTemplate",
         NEW rows, NEW content, NEW after, NEW library, TemplatesTrue(rows, f, content, library),
         \A j \in Slots : f[j].fn # "detachTemplate", f[i].row \in DOMAIN content,
         DOMAIN after = DOMAIN content, after[f[i].row] = library[f[i].row],
         \A y \in DOMAIN content : y # f[i].row => after[y] = content[y]
  PROVE  TemplatesTrue(rows, g, after, library)
<1>1. g[i].reply = reply
  BY DEF AnswersTo
<1>2. \A j \in Slots : g[j].fn = f[j].fn /\ g[j].row = f[j].row /\ g[j].value = f[j].value /\ g[j].memo = f[j].memo
  BY AnswersAlike
<1>3. ASSUME NEW j \in Slots, g[j].fn = "attachTemplate"
      PROVE  /\ g[j].memo = <<g[j].row, library[g[j].row]>> /\ library[g[j].row] # 0 /\ g[j].value # 0
             /\ g[j].row \in DOMAIN after /\ g[j].row \notin RowsOf(rows)
             /\ g[j].reply[1] = "ok" => after[g[j].row] = library[g[j].row]
  <2>1. j # i => g[j].reply = f[j].reply
    BY AnswersAlike
  <2>2. /\ f[j].memo = <<f[j].row, library[f[j].row]>> /\ library[f[j].row] # 0 /\ f[j].value # 0
        /\ f[j].row \in DOMAIN content /\ f[j].row \notin RowsOf(rows)
        /\ f[j].reply[1] = "ok" => content[f[j].row] = library[f[j].row]
    BY <1>2, <1>3 DEF TemplatesTrue
  <2> QED BY <1>2, <2>1, <2>2
<1>4. Near(rows, after)
  BY DEF TemplatesTrue, Near
<1>5. ASSUME NEW x \in DOMAIN after, ~Agrees(rows, after, x)
      PROVE  \E j \in Slots : g[j].fn = "attachTemplate" /\ g[j].reply[1] = "ok" /\ g[j].row = x
  <2>1. CASE x = f[i].row
    BY <1>1, <1>2, <2>1
  <2>2. CASE x # f[i].row
    <3>1. ~Agrees(rows, content, x)
      BY <1>5, <2>2 DEF Agrees
    <3>2. PICK j \in Slots : f[j].fn = "attachTemplate" /\ f[j].reply[1] = "ok" /\ f[j].row = x
      BY <1>5, <3>1 DEF TemplatesTrue
    <3>3. g[j].reply[1] = "ok"
      BY <3>2, AnswersAlike
    <3> QED BY <1>2, <3>2, <3>3
  <2> QED BY <2>1, <2>2
<1>6. \A j \in Slots : g[j].fn # "detachTemplate"
  BY <1>2
<1> QED BY <1>3, <1>4, <1>5, <1>6 DEF TemplatesTrue

(* A template is detached. *)
LEMMA DetachServed ==
  ASSUME NEW f, NEW g, NEW i \in Slots, NEW reply, AnswersTo(f, g, i, reply), reply[1] = "ok", f[i].fn = "detachTemplate",
         NEW rows, NEW content, NEW after, NEW library, TemplatesTrue(rows, f, content, library),
         \A j \in Slots : j # i => f[j].fn \notin MoveFns,
         DOMAIN after = DOMAIN content, f[i].row \in DOMAIN content => after[f[i].row] = 0,
         \A y \in DOMAIN content : y # f[i].row => after[y] = content[y]
  PROVE  TemplatesTrue(rows, g, after, library)
<1> DEFINE memo == f[i].memo
           row == f[i].row
<1>1. g[i].reply = reply /\ f[i].reply[1] # "ok"
  BY DEF AnswersTo, Pending
<1>2. \A j \in Slots : g[j].fn = f[j].fn /\ g[j].row = f[j].row /\ g[j].value = f[j].value /\ g[j].memo = f[j].memo
  BY AnswersAlike
<1>3. rows = Drop(memo, row) /\ Fits(memo, content)
  BY <1>1 DEF TemplatesTrue
<1>4. \A j \in Slots : g[j].fn # "attachTemplate" /\ (g[j].fn = "detachTemplate" => j = i)
  BY <1>2 DEF MoveFns
<1>5. Near(memo, content) /\ \A x \in DOMAIN content : Agrees(memo, content, x)
  BY <1>3, FitsIsNear
<1>6. ASSUME NEW j \in Slots, g[j].fn = "detachTemplate"
      PROVE  rows = Drop(g[j].memo, g[j].row) /\ (g[j].reply[1] # "ok" => Fits(g[j].memo, after))
  BY <1>1, <1>2, <1>3, <1>4, <1>6
<1> HIDE DEF memo, row
<1>7. Near(rows, content) /\ ToSet(rows) = {y \in ToSet(memo) : y[1] # row}
  BY <1>3, <1>5, DropNear
<1>8. Near(rows, after)
  BY <1>7 DEF Near
<1>9. ASSUME NEW x \in DOMAIN after PROVE Agrees(rows, after, x)
  <2>1. CASE x = row
    <3>1. after[x] = 0 /\ \A k \in Nat : <<x, k>> \notin ToSet(rows)
      BY <1>7, <1>9, <2>1 DEF row
    <3> QED BY <3>1 DEF Agrees
  <2>2. CASE x # row
    <3>1. Agrees(memo, content, x) /\ after[x] = content[x]
      BY <1>5, <1>9, <2>2 DEF row
    <3>2. \A k \in Nat : <<x, k>> \in ToSet(memo) <=> <<x, k>> \in ToSet(rows)
      BY <1>7, <2>2
    <3> QED BY <3>1, <3>2 DEF Agrees
  <2> QED BY <2>1, <2>2
<1> QED BY <1>4, <1>6, <1>8, <1>9 DEF TemplatesTrue

(* A switch is thrown. *)
LEMMA SwitchServed ==
  ASSUME NEW f, NEW g, NEW i \in Slots, NEW reply, AnswersTo(f, g, i, reply), reply[1] = "ok",
         f[i].fn = "setProviderEnabled", NEW rows, NEW content, NEW after, SwitchesTrue(rows, f, content),
         \A j \in Slots : f[j].fn = "setProviderEnabled" /\ f[j].row = f[i].row => j = i,
         DOMAIN after = DOMAIN content, after[f[i].row] = f[i].value,
         \A y \in DOMAIN content : y # f[i].row => after[y] = content[y]
  PROVE  SwitchesTrue(rows, g, after)
<1>1. g[i].reply = reply
  BY DEF AnswersTo
<1>2. \A j \in Slots : g[j].fn = f[j].fn /\ g[j].row = f[j].row /\ g[j].value = f[j].value /\ g[j].memo = f[j].memo
  BY AnswersAlike
<1>3. ASSUME NEW j \in Slots, g[j].fn = "setProviderEnabled"
      PROVE  /\ g[j].row \in DOMAIN after
             /\ g[j].reply[1] = "ok" => after[g[j].row] = g[j].value
             /\ g[j].reply[1] # "ok" => after[g[j].row] = g[j].memo[2]
             /\ <<g[j].row, g[j].value>> \in ToSet(rows)
  <2>1. j # i => g[j].reply = f[j].reply
    BY AnswersAlike
  <2>2. /\ f[j].row \in DOMAIN content
        /\ f[j].reply[1] = "ok" => content[f[j].row] = f[j].value
        /\ f[j].reply[1] # "ok" => content[f[j].row] = f[j].memo[2]
        /\ <<f[j].row, f[j].value>> \in ToSet(rows)
    BY <1>2, <1>3 DEF SwitchesTrue
  <2>3. j # i => f[j].row # f[i].row
    BY <1>2, <1>3
  <2> QED BY <1>1, <1>2, <2>1, <2>2, <2>3
<1>4. Near(rows, after)
  BY DEF SwitchesTrue, Near
<1>5. ASSUME NEW x \in DOMAIN after
      PROVE  (\E j \in Slots : g[j].fn = "setProviderEnabled" /\ g[j].row = x) \/ Agrees(rows, after, x)
  <2>1. CASE x = f[i].row
    BY <1>2, <2>1
  <2>2. CASE x # f[i].row
    <3>1. Agrees(rows, content, x) => Agrees(rows, after, x)
      BY <1>5, <2>2 DEF Agrees
    <3> QED BY <1>2, <1>5, <3>1 DEF SwitchesTrue
  <2> QED BY <2>1, <2>2
<1> QED BY <1>3, <1>4, <1>5 DEF SwitchesTrue

(* The policy is saved. *)
LEMMA PolicyServed ==
  ASSUME NEW f, NEW g, NEW i \in Slots, NEW reply, AnswersTo(f, g, i, reply), reply[1] = "ok",
         f[i].fn = "saveGuardrailPolicy", NEW rows, NEW content, NEW after, PolicyTrue(rows, f, content),
         \A j \in Slots : f[j].fn = "saveGuardrailPolicy" => j = i, after[1] = f[i].value
  PROVE  PolicyTrue(rows, g, after)
<1>1. g[i].reply = reply
  BY DEF AnswersTo
<1>2. \A j \in Slots : g[j].fn = f[j].fn /\ g[j].value = f[j].value
  BY AnswersAlike
<1>3. Took(g, {"saveGuardrailPolicy"})
  BY <1>1, <1>2 DEF Took
<1> QED BY <1>1, <1>2, <1>3 DEF PolicyTrue

(* How the requests turn when one is served. *)
LEMMA ServedAnswers ==
  ASSUME NEW i \in Slots, NEW reply, Served(i, reply)
  PROVE  AnswersTo(flight, flight', i, reply) /\ ui' = ui
BY DEF Served, AnswersTo

(* A write of another kind of table leaves the tab as it is. *)
LEMMA PanelUntouched ==
  ASSUME Inv, Clear(ui, flight), ui.at = "detail", DetailTrue(ui, flight, db),
         \A t \in Table : t[1] \notin {"members", "workspaces"} => db'[t] = db[t]
  PROVE  PanelTrue(ui, flight, PanelOf(db', ui), db'[Library])
<1> DEFINE content == PanelOf(db, ui)
           after == PanelOf(db', ui)
           library == db[Library]
<1>1. db'[Library] = library /\ db'[Providers] = db[Providers]
  BY DEF Library, Providers, Table, T
<1>2. PanelTrue(ui, flight, content, library)
  BY DEF DetailTrue
<1>3. CASE ui.tab \in DOMAIN PanelTable
  <2> DEFINE t == T(PanelTable[ui.tab], ui.id)
  <2>1. ui.id \in WorkspaceIds
    BY AtDetail DEF DetailTyped
  <2>2. t \in Table /\ t[1] \notin {"members", "workspaces"}
    BY <1>3, <2>1 DEF PanelTable, T, Table, WorkspaceIds
  <2>3. db'[t] = db[t]
    BY <2>2
  <2> HIDE DEF t
  <2>4. Joined(db', t) = Joined(db, t)
    BY <1>1, <2>3 DEF Joined
  <2>5. after = content
    BY <2>4 DEF t, PanelOf
  <2> HIDE DEF content, after, library
  <2> QED BY <1>1, <1>2, <2>5 DEF after
<1>4. CASE ui.tab \notin DOMAIN PanelTable
  <2>1. ASSUME NEW j \in Slots PROVE flight[j].fn \notin PanelFns
    <3>1. SUFFICES ASSUME flight[j].fn \in PanelFns PROVE FALSE
      OBVIOUS
    <3>2. TabWaiter(ui, flight[j])
      BY <3>1, OfTheTab DEF TabFns
    <3> QED BY <1>4, <3>1, <3>2 DEF TabWaiter, PanelFns, PanelTable
  <2>2. ui.tab \notin {"templates", "providers", "guardrails"}
    BY <1>4 DEF PanelTable
  <2>3. TabTrue(ui.tab, ui.panel, flight, after, db'[Library])
    BY <2>2 DEF TabTrue
  <2> HIDE DEF content, after, library
  <2>4. PanelTrue(ui, flight, after, db'[Library])
    BY <1>2, <2>1, <2>3 DEF PanelTrue
  <2> QED BY <2>4 DEF after
<1> QED BY <1>3, <1>4

(* A request that reads, or is refused, is answered. *)
LEMMA DetailHeard ==
  ASSUME Inv, Clear(ui, flight), ui.at = "detail", DetailTrue(ui, flight, db),
         NEW i \in Slots, NEW reply, Served(i, reply), db' = db,
         reply[1] = "ok" => reply = OK(Body(flight[i])) /\ ~Writing(flight[i])
  PROVE  DetailTrue(ui', flight', db')
<1> DEFINE r == flight[i]
           content == db[Workspaces]
           members == MembersOf(db, ui)
           library == db[Library]
           panel == PanelOf(db, ui)
<1>1. AnswersTo(flight, flight', i, reply) /\ ui' = ui
  BY ServedAnswers
<1>2. /\ r # Idle /\ IsRequest(r) /\ Asked(r) /\ DbTyped /\ ui.id \in WorkspaceIds
  <2>1. ui.id \in WorkspaceIds
    BY AtDetail DEF DetailTyped
  <2> QED BY <2>1 DEF Served, Inv, Calls, CallsTyped
<1>3. ASSUME reply[1] = "ok" PROVE reply[2] = Body(r) /\ Verb[r.fn] \in {"load", "check", "login"}
  BY <1>3 DEF OK, Writing
<1>4. RowTrue(ui, flight', content)
  <2>1. RowTrue(ui, flight, content)
    BY DEF DetailTrue, RestTrue
  <2>2. ASSUME r.fn = "getWorkspace", reply[1] = "ok" PROVE reply[2] = <<<<r.row, content[r.row]>>>>
    BY <1>3, <2>2 DEF Body
  <2>3. ASSUME r.fn = "getWorkspace", reply = NotFound PROVE content[r.row] = 0
    <3>1. Rejects(r)
      BY <2>3 DEF Served, Error, Unauthorized, NotFound, OK
    <3>2. r.table = Workspaces
      BY <1>2, <2>3 DEF Asked, TableOf
    <3>3. ~Gone(r.table)
      BY <3>2 DEF Gone, Workspaces, T
    <3> QED BY <2>3, <3>1, <3>3 DEF Rejects, Verb
  <2>4. r.fn = "updateWorkspace" => reply[1] # "ok"
    BY <1>3 DEF Verb
  <2> HIDE DEF content
  <2> QED BY <1>1, <2>1, <2>2, <2>3, <2>4, RowHeard
<1>5. RosterTrue(ui, flight', members)
  <2>1. RosterTrue(ui, flight, members)
    BY DEF DetailTrue, RestTrue
  <2>2. ASSUME r.fn = "listMembers", reply[1] = "ok" PROVE Fits(reply[2], members)
    <3>1. PICK w \in WorkspaceIds : r.table = T("members", w)
      BY <1>2, <2>2 DEF Asked, TableOf, AskedOf
    <3>2. w = ui.id
      BY <2>2, <3>1 DEF Clear, T
    <3>3. Body(r) = Listing(r.table)
      BY <2>2 DEF Body, Verb
    <3>4. r.table \in Table
      BY <3>1 DEF Table, T, WorkspaceIds
    <3>5. Content(r.table) = members
      BY <3>1, <3>2 DEF Content, T, MembersOf
    <3> HIDE DEF members
    <3>6. Fits(Listing(r.table), Content(r.table))
      BY <1>2, <3>4, ListingFits
    <3> QED BY <1>3, <2>2, <3>3, <3>5, <3>6
  <2> HIDE DEF members
  <2> QED BY <1>1, <2>1, <2>2, RosterHeard
<1>6. PoolTrue(ui, flight', library)
  <2>1. PoolTrue(ui, flight, library)
    BY DEF DetailTrue, RestTrue
  <2>2. ASSUME r.fn = "listTemplateLibrary", reply[1] = "ok" PROVE Fits(reply[2], library)
    <3>1. r.table = Library /\ Library \in Table
      BY <1>2, <2>2 DEF Asked, TableOf, LibraryWrites, Table
    <3>2. Body(r) = Listing(r.table)
      BY <2>2 DEF Body, Verb
    <3>3. Content(Library) = library
      BY DEF Content, Library, T
    <3> HIDE DEF library
    <3>4. Fits(Listing(Library), Content(Library))
      BY <1>2, <3>1, ListingFits
    <3> QED BY <1>3, <2>2, <3>1, <3>2, <3>3, <3>4
  <2> HIDE DEF library
  <2> QED BY <1>1, <2>1, <2>2, PoolHeard
<1>7. PanelTrue(ui, flight', panel, library)
  <2>1. PanelTrue(ui, flight, panel, library)
    BY DEF DetailTrue
  <2>2. ASSUME r.fn \in PanelFns, reply[1] = "ok" PROVE Fits(reply[2], panel)
    <3>1. TabWaiter(ui, r) /\ r.fn \in TabFns
      BY <2>2, OfTheTab DEF TabFns
    <3>2. r.fn \in DOMAIN AskedOf
      BY <2>2 DEF PanelFns, AskedOf
    <3>3. PICK w \in WorkspaceIds : r.table = T(AskedOf[r.fn], w)
      BY <1>2, <3>2 DEF Asked, TableOf
    <3>4. r.table[2] = ui.id
      <4> HIDE DEF panel, library
      <4> QED BY <2>1, <3>1 DEF PanelTrue
    <3>5. w = ui.id
      BY <3>3, <3>4 DEF T
    <3>6. AskedOf[r.fn] = PanelTable[ui.tab]
      BY <2>2, <3>1 DEF TabWaiter, PanelFns, AskedOf, PanelTable
    <3>7. Body(r) = Listing(r.table)
      <4>1. Verb[r.fn] = "load" /\ r.fn \notin {"listWorkspaces", "getWorkspace", "listMemberCandidates"}
        BY <2>2 DEF PanelFns, Verb
      <4> QED BY <4>1 DEF Body
    <3>8. r.table \in Table
      BY <2>2, <3>3 DEF Table, T, WorkspaceIds, PanelFns, AskedOf
    <3>9. Content(r.table) = panel
      <4>1. Content(r.table) = Joined(db, r.table)
        BY <1>2, <3>8, JoinedIs
      <4>2. r.table = T(PanelTable[ui.tab], ui.id)
        BY <3>3, <3>5, <3>6
      <4> QED BY <4>1, <4>2 DEF PanelOf
    <3> HIDE DEF panel
    <3>10. Fits(Listing(r.table), Content(r.table))
      BY <1>2, <3>8, ListingFits
    <3> QED BY <1>3, <2>2, <3>7, <3>9, <3>10
  <2>3. r.fn \in TabWrites => reply[1] # "ok"
    BY <1>3 DEF TabWrites, Verb
  <2> HIDE DEF panel, library
  <2> QED BY <1>1, <2>1, <2>2, <2>3, PanelHeard
<1> QED BY <1>1, <1>4, <1>5, <1>6, <1>7 DEF DetailTrue, RestTrue

(* A workspace or its members are written. *)
LEMMA DetailWritten ==
  ASSUME Inv, Clear(ui, flight), ui.at = "detail", DetailTrue(ui, flight, db),
         NEW i \in Slots, NEW reply, Served(i, reply), db' = After(flight[i]), reply[1] = "ok",
         flight[i].fn \in MemberWrites \cup {"updateWorkspace", "deleteWorkspace"}
  PROVE  DetailTrue(ui', flight', db')
<1> DEFINE r == flight[i]
           content == db[Workspaces]
           members == MembersOf(db, ui)
           library == db[Library]
           row == r.row
<1>1. AnswersTo(flight, flight', i, reply) /\ ui' = ui
  BY ServedAnswers
<1>2. /\ r # Idle /\ IsRequest(r) /\ Asked(r) /\ DbTyped /\ ui.id \in WorkspaceIds
  <2>1. ui.id \in WorkspaceIds
    BY AtDetail DEF DetailTyped
  <2> QED BY <2>1 DEF Served, Inv, Calls, CallsTyped
<1>3. Writing(r) /\ Target(r) = row /\ (Verb[r.fn] = "delete" <=> r.fn = "deleteWorkspace")
  BY DEF Writing, Verb, MemberWrites, Target
<1>4. /\ (r.fn \in MemberWrites => r.table[1] = "members" /\ r.table \in Table)
      /\ (r.fn \notin MemberWrites => r.table = Workspaces)
  <2>1. TableOf(r)
    BY <1>2 DEF Asked
  <2>2. CASE r.fn \in MemberWrites
    <3>1. r.fn \in DOMAIN AskedOf /\ AskedOf[r.fn] = "members"
      BY <2>2 DEF MemberWrites, AskedOf
    <3>2. PICK w \in WorkspaceIds : r.table = T("members", w)
      BY <2>1, <3>1 DEF TableOf
    <3>3. r.table[1] = "members" /\ r.table \in Table
      BY <3>2 DEF T, Table, WorkspaceIds
    <3> QED BY <2>2, <3>3
  <2>3. CASE r.fn \notin MemberWrites
    <3>1. r.fn \in {"updateWorkspace", "deleteWorkspace"}
      BY <2>3
    <3>2. r.table = Workspaces
      BY <2>1, <3>1 DEF TableOf
    <3> QED BY <2>3, <3>2
  <2> QED BY <2>2, <2>3
<1>5. \A t \in Table : t # r.table => db'[t] = db[t]
  BY <1>2, <1>3, WriteIs
<1>6. Workspaces \in Table /\ Workspaces[1] = "workspaces" /\ Library \in Table /\ Library[1] = "library"
  BY DEF Workspaces, Library, T, Table
<1>7. db'[Library] = library
  BY <1>4, <1>5, <1>6
<1>8. \A t \in Table : t[1] \notin {"members", "workspaces"} => db'[t] = db[t]
  BY <1>4, <1>5, <1>6
<1>9. RowTrue(ui, flight', db'[Workspaces])
  <2>1. RowTrue(ui, flight, content)
    BY DEF DetailTrue, RestTrue
  <2>2. CASE r.fn \in MemberWrites
    <3>1. db'[Workspaces] = content
      BY <1>4, <1>5, <1>6, <2>2
    <3>2. r.fn # "getWorkspace" /\ r.fn # "updateWorkspace"
      BY <2>2 DEF MemberWrites
    <3> HIDE DEF content
    <3>3. RowTrue(ui, flight', content)
      BY <1>1, <2>1, <3>2, RowHeard
    <3> QED BY <3>1, <3>3
  <2>3. CASE r.fn \notin MemberWrites
    <3> DEFINE after == db'[Workspaces]
    <3>1. r.table = Workspaces
      BY <1>4, <2>3
    <3>2. /\ \A y \in DOMAIN content : y # row => after[y] = content[y]
          /\ row \in DOMAIN content => after[row] = IF r.fn = "deleteWorkspace" THEN 0 ELSE r.value
      BY <1>2, <1>3, <1>6, <3>1, WriteIs
    <3>3. ui.id \in DOMAIN content
      <4>1. content \in [RowOf(Workspaces) -> Nat]
        BY <1>2, <1>6 DEF DbTyped
      <4>2. WorkspaceIds \subseteq RowOf(Workspaces)
        BY ConsoleAssumption DEF RowOf, Workspaces, T, WorkspaceIds, Kinds
      <4> QED BY <1>2, <4>1, <4>2
    <3>4. \A j \in Slots : flight[j].fn = "updateWorkspace" => flight[j].row = ui.id
      BY DEF Clear
    <3>5. ASSUME NEW j \in Slots, flight[j].fn = "updateWorkspace", row = ui.id PROVE j = i
      <4>1. flight[j] # Idle /\ Writing(flight[j]) /\ flight[j].table = Workspaces
        <5>1. flight[j] # Idle
          BY <3>5 DEF Idle
        <5>2. TableOf(flight[j])
          BY <5>1 DEF Inv, Calls, CallsTyped, Asked
        <5> QED BY <3>5, <5>1, <5>2 DEF Writing, Verb, TableOf
      <4>2. ui.id # 0
        <5>1. WorkspaceIds \subseteq Nat \ {0}
          BY WorkspaceIdsTyped
        <5> QED BY <1>2, <5>1
      <4>3. flight[j].row = row
        BY <3>4, <3>5
      <4> QED BY <1>2, <1>3, <3>1, <3>5, <4>1, <4>2, <4>3 DEF Clear, Writes
    <3> HIDE DEF content, after
    <3>6. CASE r.fn = "updateWorkspace"
      <4>1. row = ui.id
        BY <3>4, <3>6
      <4>2. after[ui.id] = r.value
        BY <3>2, <3>3, <3>6, <4>1
      <4>3. \A j \in Slots : flight[j].fn = "updateWorkspace" => j = i
        BY <3>5, <4>1
      <4>4. RowTrue(ui, flight', after)
        BY <1>1, <2>1, <3>6, <4>1, <4>2, <4>3, RowWritten
      <4> QED BY <4>4 DEF after
    <3>7. CASE r.fn = "deleteWorkspace"
      <4>1. after[ui.id] = (IF ui.id = row THEN 0 ELSE content[ui.id])
        BY <3>2, <3>3, <3>7
      <4>2. \A j \in Slots : flight[j].fn = "updateWorkspace" => flight[j].row = ui.id /\ ui.id # row
        BY <3>4, <3>5, <3>7
      <4>3. RowTrue(ui, flight', after)
        BY <1>1, <2>1, <3>7, <4>1, <4>2, RowWritten
      <4> QED BY <4>3 DEF after
    <3> QED BY <2>3, <3>6, <3>7
  <2> QED BY <2>2, <2>3
<1>10. RosterTrue(ui, flight', MembersOf(db', ui))
  <2> DEFINE after == MembersOf(db', ui)
  <2>1. RosterTrue(ui, flight, members)
    BY DEF DetailTrue, RestTrue
  <2>2. after = members \/ r.fn \in MemberWrites
    <3>1. SUFFICES ASSUME r.fn \notin MemberWrites PROVE after = members
      OBVIOUS
    <3>2. T("members", ui.id) \in Table /\ T("members", ui.id) # Workspaces
      BY <1>2 DEF Table, T, WorkspaceIds, Workspaces
    <3> QED BY <1>4, <1>5, <3>1, <3>2 DEF MembersOf
  <2>3. r.fn # "listMembers"
    BY DEF MemberWrites
  <2> HIDE DEF members, after
  <2>4. RosterTrue(ui, flight', after)
    BY <1>1, <2>1, <2>2, <2>3, RosterHeard
  <2> QED BY <2>4 DEF after
<1>11. PoolTrue(ui, flight', library)
  <2>1. PoolTrue(ui, flight, library)
    BY DEF DetailTrue, RestTrue
  <2>2. r.fn # "listTemplateLibrary"
    BY DEF MemberWrites
  <2> HIDE DEF library
  <2> QED BY <1>1, <2>1, <2>2, PoolHeard
<1>12. PanelTrue(ui, flight', PanelOf(db', ui), db'[Library])
  <2> DEFINE panel == PanelOf(db', ui)
             library2 == db'[Library]
  <2>1. PanelTrue(ui, flight, panel, library2)
    BY <1>8, PanelUntouched
  <2>2. r.fn \notin PanelFns /\ r.fn \notin TabWrites
    BY DEF MemberWrites, PanelFns, TabWrites
  <2> HIDE DEF panel, library2
  <2>3. PanelTrue(ui, flight', panel, library2)
    BY <1>1, <2>1, <2>2, PanelHeard
  <2> QED BY <2>3 DEF panel, library2
<1> QED BY <1>1, <1>7, <1>9, <1>10, <1>11, <1>12 DEF DetailTrue, RestTrue

(* A write of the tab takes effect. *)
LEMMA TabServed ==
  ASSUME Inv, Clear(ui, flight), ui.at = "detail", DetailTrue(ui, flight, db),
         NEW i \in Slots, NEW reply, Served(i, reply), db' = After(flight[i]), reply[1] = "ok",
         flight[i].fn \in TabWrites,
         TabTrue(ui.tab, ui.panel, flight', PanelOf(db', ui), db[Library])
  PROVE  DetailTrue(ui', flight', db')
<1> DEFINE r == flight[i]
           content == db[Workspaces]
           members == MembersOf(db, ui)
           library == db[Library]
           panel == PanelOf(db, ui)
           after == PanelOf(db', ui)
<1>1. AnswersTo(flight, flight', i, reply) /\ ui' = ui
  BY ServedAnswers
<1>2. /\ r # Idle /\ IsRequest(r) /\ Asked(r) /\ DbTyped /\ ui.id \in WorkspaceIds
  <2>1. ui.id \in WorkspaceIds
    BY AtDetail DEF DetailTyped
  <2> QED BY <2>1 DEF Served, Inv, Calls, CallsTyped
<1>3. Writing(r)
  BY DEF Writing, Verb, TabWrites
<1>4. r.table[1] \in {"templates", "switches", "policy"}
  BY <1>2 DEF Asked, TableOf, AskedOf, TabWrites, T
<1>5. \A t \in Table : t # r.table => db'[t] = db[t]
  BY <1>2, <1>3, WriteIs
<1>6. Workspaces \in Table /\ Workspaces[1] = "workspaces" /\ Library \in Table /\ Library[1] = "library"
  BY DEF Workspaces, Library, T, Table
<1>7. T("members", ui.id) \in Table /\ T("members", ui.id)[1] = "members"
  BY <1>2 DEF Table, T, WorkspaceIds
<1>8. db'[Library] = library /\ db'[Workspaces] = content
  BY <1>4, <1>5, <1>6
<1>9. MembersOf(db', ui) = members
  BY <1>4, <1>5, <1>7 DEF MembersOf
<1>10. r.fn \notin {"getWorkspace", "updateWorkspace", "listMembers", "listTemplateLibrary"}
  BY DEF TabWrites
<1>11. RowTrue(ui, flight', content)
  <2>1. RowTrue(ui, flight, content)
    BY DEF DetailTrue, RestTrue
  <2> HIDE DEF content
  <2> QED BY <1>1, <1>10, <2>1, RowHeard
<1>12. RosterTrue(ui, flight', members)
  <2>1. RosterTrue(ui, flight, members)
    BY DEF DetailTrue, RestTrue
  <2> HIDE DEF members
  <2> QED BY <1>1, <1>10, <2>1, RosterHeard
<1>13. PoolTrue(ui, flight', library)
  <2>1. PoolTrue(ui, flight, library)
    BY DEF DetailTrue, RestTrue
  <2> HIDE DEF library
  <2> QED BY <1>1, <1>10, <2>1, PoolHeard
<1>14. PanelTrue(ui, flight', after, library)
  <2>1. PanelTrue(ui, flight, panel, library) /\ TabTrue(ui.tab, ui.panel, flight', after, library)
    BY DEF DetailTrue
  <2> HIDE DEF panel, after, library
  <2> QED BY <1>1, <2>1, PanelServed
<1> QED BY <1>1, <1>8, <1>9, <1>11, <1>12, <1>13, <1>14 DEF DetailTrue, RestTrue

(* A write of the tab: where it is written, and the rows of the tab then. *)
LEMMA TabAfter ==
  ASSUME Inv, Clear(ui, flight), ui.at = "detail", DetailTrue(ui, flight, db),
         NEW i \in Slots, flight[i].fn \in TabWrites, db' = After(flight[i]), ~Refused(flight[i])
  PROVE  LET r == flight[i]
             content == PanelOf(db, ui)
             after == PanelOf(db', ui)
         IN /\ DOMAIN after = DOMAIN content
            /\ \A y \in DOMAIN content : y # r.row => after[y] = content[y]
            /\ r.row \in DOMAIN content =>
                 /\ r.fn = "attachTemplate" /\ r.value # 0 => after[r.row] = db[Library][r.row]
                 /\ r.fn = "detachTemplate" => after[r.row] = 0
                 /\ r.fn = "setProviderEnabled" => after[r.row] = r.value
                 /\ r.fn = "saveGuardrailPolicy" => after[r.row] = r.value
<1> DEFINE r == flight[i]
           t == r.table
           row == r.row
           content == PanelOf(db, ui)
           after == PanelOf(db', ui)
           library == db[Library]
<1>1. flight[i].fn \in TabFns
  BY DEF TabFns
<1>2. /\ r # Idle /\ IsRequest(r) /\ Asked(r) /\ DbTyped /\ TabWaiter(ui, r)
  BY <1>1, OfTheTab DEF Inv, Calls, CallsTyped
<1>3. t = T(AskedOf[r.fn], ui.id) /\ Writing(r)
  BY TabTable DEF Writes
<1>4. AskedOf[r.fn] = PanelTable[ui.tab] /\ t = T(PanelTable[ui.tab], ui.id) /\ ui.tab \in DOMAIN PanelTable
  BY <1>2, <1>3 DEF TabWaiter, PanelTable, AskedOf, TabWrites
<1>5. ui.id \in WorkspaceIds
  BY AtDetail DEF DetailTyped
<1>6. t \in Table /\ t[1] = AskedOf[r.fn] /\ t[1] \in {"templates", "switches", "policy"}
  BY <1>3, <1>4, <1>5 DEF Table, T, PanelTable, WorkspaceIds
<1>7. Target(r) = row /\ (Verb[r.fn] = "delete" <=> r.fn = "detachTemplate")
  BY DEF Target, Verb, TabWrites
<1>8. Providers \in Table /\ Library \in Table /\ Providers # t /\ Library # t
  BY <1>6 DEF Table, Providers, Library, T
<1>9. db'[Providers] = db[Providers] /\ db'[Library] = library
  BY <1>2, <1>3, <1>8, WriteIs
<1>10. /\ \A x \in DOMAIN db[t] : x # row => db'[t][x] = db[t][x]
       /\ row \in DOMAIN db[t] => db'[t][row] = IF r.fn = "detachTemplate" THEN 0 ELSE r.value
       /\ DOMAIN db'[t] = DOMAIN db[t]
  BY <1>2, <1>3, <1>6, <1>7, WriteIs
<1>11. DOMAIN db[t] = RowOf(t)
  BY <1>2, <1>6 DEF DbTyped
<1>12. content = Joined(db, t) /\ after = Joined(db', t)
  BY <1>4 DEF PanelOf
<1>13. r.fn = "setProviderEnabled" => db[Providers][row] # 0 /\ r.value \in Switches
  BY <1>2 DEF Refused, Rejects, Asked
<1>14. ASSUME t[1] = "templates"
       PROVE /\ content = [x \in RowOf(t) |-> IF db[t][x] = 0 THEN 0 ELSE library[x]]
             /\ after = [x \in RowOf(t) |-> IF db'[t][x] = 0 THEN 0 ELSE library[x]]
             /\ r.fn \in {"attachTemplate", "detachTemplate"}
  <2>1. r.fn \in {"attachTemplate", "detachTemplate"}
    BY <1>6, <1>14 DEF AskedOf, TabWrites
  <2> HIDE DEF t, library, row
  <2> QED BY <1>9, <1>12, <1>14, <2>1 DEF Joined, library
<1>15. ASSUME t[1] = "switches"
       PROVE /\ content = [x \in RowOf(t) |-> IF db[Providers][x] = 0 THEN 0 ELSE IF db[t][x] = 0 THEN 2 ELSE db[t][x]]
             /\ after = [x \in RowOf(t) |-> IF db[Providers][x] = 0 THEN 0 ELSE IF db'[t][x] = 0 THEN 2 ELSE db'[t][x]]
             /\ r.fn = "setProviderEnabled"
  <2>1. r.fn = "setProviderEnabled"
    BY <1>6, <1>15 DEF AskedOf, TabWrites
  <2> HIDE DEF t, library, row
  <2> QED BY <1>9, <1>12, <1>15, <2>1 DEF Joined
<1>16. ASSUME t[1] = "policy"
       PROVE content = db[t] /\ after = db'[t] /\ r.fn = "saveGuardrailPolicy"
  <2>1. r.fn = "saveGuardrailPolicy"
    BY <1>6, <1>16 DEF AskedOf, TabWrites
  <2> HIDE DEF t, library, row
  <2> QED BY <1>12, <1>16, <2>1 DEF Joined
<1> HIDE DEF content, after, library, t, row
<1>17. /\ DOMAIN after = DOMAIN content
       /\ \A y \in DOMAIN content : y # row => after[y] = content[y]
       /\ row \in DOMAIN content =>
            /\ r.fn = "attachTemplate" /\ r.value # 0 => after[row] = library[row]
            /\ r.fn = "detachTemplate" => after[row] = 0
            /\ r.fn = "setProviderEnabled" => after[row] = r.value
            /\ r.fn = "saveGuardrailPolicy" => after[row] = r.value
  <2>1. CASE t[1] = "templates"
    <3>1. /\ DOMAIN content = RowOf(t) /\ DOMAIN after = RowOf(t)
          /\ \A x \in RowOf(t) : content[x] = (IF db[t][x] = 0 THEN 0 ELSE library[x])
                                 /\ after[x] = (IF db'[t][x] = 0 THEN 0 ELSE library[x])
      BY <1>14, <2>1
    <3>2. r.fn \notin {"setProviderEnabled", "saveGuardrailPolicy"}
      BY <1>14, <2>1
    <3> QED BY <1>10, <1>11, <3>1, <3>2
  <2>2. CASE t[1] = "switches"
    <3>1. /\ DOMAIN content = RowOf(t) /\ DOMAIN after = RowOf(t)
          /\ \A x \in RowOf(t) :
               /\ content[x] = (IF db[Providers][x] = 0 THEN 0 ELSE IF db[t][x] = 0 THEN 2 ELSE db[t][x])
               /\ after[x] = (IF db[Providers][x] = 0 THEN 0 ELSE IF db'[t][x] = 0 THEN 2 ELSE db'[t][x])
      BY <1>15, <2>2
    <3>2. r.fn = "setProviderEnabled" /\ r.value # 0 /\ db[Providers][row] # 0
      BY <1>13, <1>15, <2>2 DEF Switches
    <3> QED BY <1>10, <1>11, <3>1, <3>2
  <2>3. CASE t[1] = "policy"
    <3>1. r.fn = "saveGuardrailPolicy"
      BY <1>16, <2>3
    <3> QED BY <1>10, <1>16, <2>3, <3>1
  <2> QED BY <1>6, <2>1, <2>2, <2>3
<1> QED BY <1>17 DEF content, after, library, row

(* The detail screen when a request is answered. *)
LEMMA DetailServedTrue ==
  ASSUME Inv, Clear(ui, flight), ui.at = "detail", DetailTrue(ui, flight, db),
         NEW i \in Slots, NEW reply, Served(i, reply)
  PROVE  DetailTrue(ui', flight', db')
<1> DEFINE r == flight[i]
<1>1. r # Idle /\ IsRequest(r)
  BY DEF Served
<1>2. r.owner # {}
  BY <1>1, OfTheScreen
<1>3. CASE reply \in {Error, Unauthorized, NotFound} /\ db' = db
  <2>1. reply[1] # "ok"
    BY <1>3 DEF Error, Unauthorized, NotFound
  <2> QED BY <1>3, <2>1, DetailHeard
<1>4. CASE reply = OK(Body(r)) /\ ~Writing(r) /\ db' = After(r)
  <2>1. db' = db
    BY <1>4, ReadIs
  <2> QED BY <1>4, <2>1, DetailHeard
<1>5. CASE reply = OK(Body(r)) /\ Writing(r) /\ db' = After(r) /\ ~Refused(r)
  <2>1. reply[1] = "ok"
    BY <1>5 DEF OK
  <2>2. r.fn \in MemberWrites \cup {"updateWorkspace", "deleteWorkspace"} \/ r.fn \in TabWrites
    <3>1. r.fn \notin DOMAIN BusyOf /\ r.fn \notin LibraryWrites /\ r.fn # "createWorkspace"
      BY <1>1, <1>2, WhereItIs
    <3>2. r.fn \in DOMAIN Verb
      BY <1>1 DEF IsRequest
    <3> QED BY <1>5, <3>1, <3>2 DEF Writing, Verb, BusyOf, LibraryWrites, MemberWrites, TabWrites
  <2>3. CASE r.fn \in MemberWrites \cup {"updateWorkspace", "deleteWorkspace"}
    BY <1>5, <2>1, <2>3, DetailWritten
  <2>4. CASE r.fn \in TabWrites
    <3> DEFINE content == PanelOf(db, ui)
               after == PanelOf(db', ui)
               library == db[Library]
    <3>1. r.fn \in TabFns
      BY <2>4 DEF TabFns
    <3>2. TabWaiter(ui, r) /\ Asked(r)
      BY <3>1, OfTheTab
    <3>3. ui.tab \in DOMAIN PanelTable
      BY <2>4, <3>2 DEF TabWaiter, PanelTable, TabWrites
    <3>4. ui.panel # NoList /\ ~ui.panelFailed
      BY <2>4 DEF DetailTrue, PanelTrue
    <3>5. TabTrue(ui.tab, ui.panel, flight, content, library)
      BY <3>3, <3>4, PanelIs
    <3>6. AnswersTo(flight, flight', i, reply)
      BY ServedAnswers
    <3>7. /\ DOMAIN after = DOMAIN content
          /\ \A y \in DOMAIN content : y # r.row => after[y] = content[y]
          /\ r.row \in DOMAIN content =>
               /\ r.fn = "attachTemplate" /\ r.value # 0 => after[r.row] = library[r.row]
               /\ r.fn = "detachTemplate" => after[r.row] = 0
               /\ r.fn = "setProviderEnabled" => after[r.row] = r.value
               /\ r.fn = "saveGuardrailPolicy" => after[r.row] = r.value
      BY <1>5, <2>4, TabAfter
    <3>8. \A j \in Slots : flight[j].fn = r.fn /\ flight[j].row = r.row => j = i
      <4>1. SUFFICES ASSUME NEW j \in Slots, flight[j].fn = r.fn, flight[j].row = r.row PROVE j = i
        OBVIOUS
      <4>2. Writes(r) /\ Writes(flight[j]) /\ flight[j].table = r.table
        BY <2>4, <4>1, TabTable
      <4>3. r.fn # "detachTemplate" => r.row # 0
        <5>1. CASE r.fn \in {"setProviderEnabled", "saveGuardrailPolicy"}
          BY <3>2, <5>1 DEF Asked
        <5>2. CASE r.fn = "attachTemplate"
          <6>1. r.row \in DOMAIN content
            BY <3>2, <3>5, <5>2 DEF TabWaiter, TabTrue, TemplatesTrue
          <6>2. DOMAIN content \subseteq Nat \ {0}
            <7>1. content \in [Id[PanelTable[ui.tab]] -> Nat] /\ Id[PanelTable[ui.tab]] \subseteq Nat \ {0}
              BY <3>3, PanelIs
            <7> QED BY <7>1
          <6> QED BY <6>1, <6>2
        <5> QED BY <2>4, <5>1, <5>2 DEF TabWrites
      <4>4. r.fn = "detachTemplate" => j = i
        BY <4>1 DEF Clear
      <4> QED BY <4>1, <4>2, <4>3, <4>4 DEF Clear
    <3>9. TabTrue(ui.tab, ui.panel, flight', after, library)
      <4> HIDE DEF content, after, library
      <4>1. CASE r.fn = "attachTemplate"
        <5>1. TemplatesTrue(ui.panel, flight, content, library) /\ ui.tab = "templates"
          BY <3>2, <3>5, <4>1 DEF TabWaiter, TabTrue
        <5>2. r.row \in DOMAIN content /\ r.value # 0
          BY <4>1, <5>1 DEF TemplatesTrue
        <5>3. \A j \in Slots : flight[j].fn # "detachTemplate"
          <6>1. SUFFICES ASSUME NEW j \in Slots, flight[j].fn = "detachTemplate" PROVE FALSE
            OBVIOUS
          <6>2. i # j /\ r.fn \in MoveFns
            BY <4>1, <6>1 DEF MoveFns
          <6> QED BY <6>1, <6>2, MovedAlone
        <5>4. TemplatesTrue(ui.panel, flight', after, library)
          BY <2>1, <3>6, <3>7, <4>1, <5>1, <5>2, <5>3, AttachServed
        <5> QED BY <5>1, <5>4 DEF TabTrue
      <4>2. CASE r.fn = "detachTemplate"
        <5>1. TemplatesTrue(ui.panel, flight, content, library) /\ ui.tab = "templates"
          BY <3>2, <3>5, <4>2 DEF TabWaiter, TabTrue
        <5>2. \A j \in Slots : j # i => flight[j].fn \notin MoveFns
          BY <4>2, MovedAlone
        <5>3. TemplatesTrue(ui.panel, flight', after, library)
          BY <2>1, <3>6, <3>7, <4>2, <5>1, <5>2, DetachServed
        <5> QED BY <5>1, <5>3 DEF TabTrue
      <4>3. CASE r.fn = "setProviderEnabled"
        <5>1. SwitchesTrue(ui.panel, flight, content) /\ ui.tab = "providers"
          BY <3>2, <3>5, <4>3 DEF TabWaiter, TabTrue
        <5>2. r.row \in DOMAIN content
          BY <4>3, <5>1 DEF SwitchesTrue
        <5>3. SwitchesTrue(ui.panel, flight', after)
          BY <2>1, <3>6, <3>7, <3>8, <4>3, <5>1, <5>2, SwitchServed
        <5> QED BY <5>1, <5>3 DEF TabTrue
      <4>4. CASE r.fn = "saveGuardrailPolicy"
        <5>1. PolicyTrue(ui.panel, flight, content) /\ ui.tab = "guardrails"
          BY <3>2, <3>5, <4>4 DEF TabWaiter, TabTrue
        <5>2. r.row = 1 /\ r.row \in DOMAIN content
          <6>1. content \in [Id[PanelTable[ui.tab]] -> Nat]
            BY <3>3, PanelIs DEF content
          <6>2. Id[PanelTable[ui.tab]] = {1}
            BY <5>1, ConsoleAssumption DEF PanelTable
          <6>3. r.row = 1
            BY <3>2, <4>4 DEF Asked
          <6> QED BY <6>1, <6>2, <6>3
        <5>3. \A j \in Slots : flight[j].fn = "saveGuardrailPolicy" => j = i
          <6>1. SUFFICES ASSUME NEW j \in Slots, flight[j].fn = "saveGuardrailPolicy" PROVE j = i
            OBVIOUS
          <6>2. flight[j].fn \in TabFns
            BY <6>1 DEF TabFns, TabWrites
          <6>3. Asked(flight[j])
            BY <6>2, OfTheTab
          <6> QED BY <3>8, <4>4, <5>2, <6>1, <6>3 DEF Asked
        <5>4. PolicyTrue(ui.panel, flight', after)
          BY <2>1, <3>6, <3>7, <4>4, <5>1, <5>2, <5>3, PolicyServed
        <5> QED BY <5>1, <5>4 DEF TabTrue
      <4> QED BY <2>4, <4>1, <4>2, <4>3, <4>4 DEF TabWrites
    <3> QED BY <1>5, <2>1, <2>4, <3>9, TabServed
  <2> QED BY <2>2, <2>3, <2>4
<1> QED BY <1>3, <1>4, <1>5 DEF Served

-----------------------------------------------------------------------------
(* A screen comes.                                                         *)

(* When a screen comes, only its own loads are in flight: a write that is  *)
(* left is one that nobody waits for.                                      *)
LEMMA FreshStart ==
  ASSUME Inv, NEW v, NEW g, Clear(v, g), NEW gone, NEW new, Turns(flight, g, gone, Parts, {}, new),
         NEW i \in Slots, g[i] # Idle
  PROVE  g[i] \in new
<1> SUFFICES ASSUME g[i] \notin new PROVE FALSE
  OBVIOUS
<1>1. /\ flight[i] # Idle /\ Stays(flight[i], g[i], Parts, {})
      /\ flight[i].owner = {} \/ flight[i].owner \ Parts # {} \/ Writing(flight[i])
  BY DEF Turns
<1>2. IsRequest(flight[i]) /\ Waiter(ui, flight[i])
  BY <1>1 DEF Inv, Calls, CallsTyped, Flights, Screen, Waiters
<1>3. flight[i].owner \ Parts = {}
  BY <1>2 DEF IsRequest
<1>4. Writing(flight[i])
  BY <1>1, <1>2, <1>3 DEF Waiter
<1>5. Writing(g[i]) /\ g[i].owner = {}
  BY <1>1, <1>3, <1>4, SameWrites DEF Stays
<1>6. (IF g[i].fn \in TabWrites THEN "tab" ELSE "screen") \in g[i].owner
  BY <1>5 DEF Clear, Writes
<1> QED BY <1>5, <1>6

(* What is loaded once when a screen comes is in flight once.              *)
LEMMA OneFresh ==
  ASSUME Inv, NEW S, \A r \in S : IsRequest(r), NEW loads \in Seq(S), Len(loads) =< 2, NEW v, Mount(v, flight, loads),
         NEW fn \in {"listTemplateLibrary", "getWorkspace"}, Len(loads) = 2 => loads[2].fn # fn
  PROVE  \A i, j \in Slots : flight'[i].fn = fn /\ flight'[j].fn = fn => i = j
<1> DEFINE f == Unmount(flight, Parts)
           fns == {fn}
<1>1. Flights(flight) /\ Turns(flight, flight, {}, {}, {}, {})
  BY TurnsAsIs DEF Inv, Calls, CallsTyped
<1>2. Turns(flight, f, {}, Parts, {}, {})
  BY <1>1, PartsTurn
<1>3. flight' = SendAll(f, loads) /\ Cardinality(FreeSlots(f)) >= Len(loads)
  BY DEF Mount
<1> HIDE DEF f
<1>4. Flights(f)
  BY <1>2 DEF Turns
<1>5. \A i \in Slots : f[i].fn \notin fns
  <2>1. SUFFICES ASSUME NEW i \in Slots, f[i].fn = fn PROVE FALSE
    OBVIOUS
  <2>2. f[i] # Idle
    BY <2>1 DEF Idle
  <2>3. Waiter(HomeScreen, f[i])
    BY <1>2, <2>2, AllGo DEF Inv
  <2>4. Writing(f[i])
    BY <2>3 DEF Waiter, HomeScreen
  <2> QED BY <2>1, <2>4 DEF Writing, Verb
<1>6. Len(loads) = 2 => loads[2].fn \notin fns
  OBVIOUS
<1> HIDE DEF fns
<1>7. \A i, j \in Slots : SendAll(f, loads)[i].fn \in fns /\ SendAll(f, loads)[j].fn \in fns => i = j
  BY <1>3, <1>4, <1>5, <1>6, OneOfThem DEF OneOf
<1> QED BY <1>3, <1>7 DEF fns

(* The providers screen comes.                                             *)
LEMMA OpenProvidersTrue ==
  ASSUME Inv, Clear(ui', flight'), OpenProviders
  PROVE  ProvidersTrue(ui', flight', db'[Providers])
<1> DEFINE r == ListProviders
           v == ProvidersScreen
           content == db'[Providers]
<1>1. New(r) /\ r.fn = "listProviders" /\ r.owner = {"screen"}
  BY ListProvidersIs DEF Inv, Calls, CallsTyped
<1>2. Waiter(v, r) /\ v.at = "providers"
  BY <1>1 DEF Waiter, ProvidersScreen
<1> HIDE DEF r, v
<1>3. <<r>> \in Seq({r}) /\ Len(<<r>>) =< 2 /\ ToSet(<<r>>) = {r} /\ \A q \in {r} : New(q) /\ Waiter(v, q)
  BY <1>1, <1>2 DEF ToSet
<1>4. Navigate(v, <<r>>)
  BY DEF OpenProviders, r, v
<1>5. ui' = v /\ Turns(flight, flight', {}, Parts, {}, {r})
  <2>1. v.at # "login"
    BY <1>2
  <2> QED BY <1>3, <1>4, <2>1, NavigateInv
<1>6. Coming(flight', {"listProviders"}, "screen")
  BY <1>1, <1>5, NewComes DEF New
<1>7. ASSUME NEW i \in Slots, flight'[i].fn = "listProviders" PROVE flight'[i].reply[1] # "ok"
  <2>1. flight'[i] # Idle
    BY <1>7 DEF Idle
  <2>2. flight'[i] \in {r}
    BY <1>5, <2>1, FreshStart
  <2> QED BY <1>1, <2>2 DEF New, Pending
<1> HIDE DEF content
<1>8. ProvidersTrue(ui', flight', content)
  BY <1>6, <1>7 DEF ProvidersTrue
<1> QED BY <1>8 DEF content

(* The library comes.                                                      *)
LEMMA OpenLibraryTrue ==
  ASSUME Inv, Clear(ui', flight'), OpenLibrary
  PROVE  LibraryTrue(ui', flight', db'[Library], Ahead')
<1> DEFINE r == ListTemplates
           v == LibraryScreen
           content == db'[Library]
           ahead == Ahead'
<1>1. New(r) /\ r.fn = "listTemplateLibrary" /\ r.owner = {"screen"}
  BY ListTemplatesIs DEF Inv, Calls, CallsTyped
<1>2. Waiter(v, r) /\ v.at = "library" /\ v.loading /\ v.dialog = Closed
  BY <1>1 DEF Waiter, LibraryScreen
<1> HIDE DEF r, v
<1>3. <<r>> \in Seq({r}) /\ Len(<<r>>) =< 2 /\ ToSet(<<r>>) = {r} /\ \A q \in {r} : New(q) /\ Waiter(v, q)
  BY <1>1, <1>2 DEF ToSet
<1>4. Navigate(v, <<r>>)
  BY DEF OpenLibrary, r, v
<1>5. ui' = v /\ Turns(flight, flight', {}, Parts, {}, {r})
  <2>1. v.at # "login"
    BY <1>2
  <2> QED BY <1>3, <1>4, <2>1, NavigateInv
<1>6. \A i \in Slots : flight'[i] # Idle => flight'[i] = r
  <2>1. \A i \in Slots : flight'[i] # Idle => flight'[i] \in {r}
    BY <1>5, FreshStart
  <2> QED BY <2>1
<1>7. \A i \in Slots : flight'[i].fn \in LibraryWrites \cup {"listTemplateLibrary"} => flight'[i] = r
  <2>1. SUFFICES ASSUME NEW i \in Slots, flight'[i] = Idle PROVE flight'[i].fn \notin LibraryWrites \cup {"listTemplateLibrary"}
    BY <1>6
  <2> QED BY <2>1 DEF Idle, LibraryWrites
<1>8. \A i, j \in Slots : flight'[i].fn = "listTemplateLibrary" /\ flight'[j].fn = "listTemplateLibrary" => i = j
  <2> DEFINE ls == <<r>>
  <2>1. ls \in Seq({r}) /\ Len(ls) =< 2 /\ (\A q \in {r} : IsRequest(q)) /\ Mount(v, flight, ls) /\ Len(ls) # 2
    BY <1>3, <1>4 DEF Navigate, New
  <2> HIDE DEF ls
  <2>2. "listTemplateLibrary" \in {"listTemplateLibrary", "getWorkspace"}
    OBVIOUS
  <2> QED BY <2>1, <2>2, OneFresh
<1>9. r.fn \notin LibraryWrites /\ r.reply[1] # "ok"
  BY <1>1 DEF LibraryWrites, New, Pending
<1>10. \A i \in Slots : flight'[i].fn \notin LibraryWrites
  BY <1>7, <1>9
<1>11. 0 \notin ahead
  <2>1. writes' \in Nat
    BY <1>4 DEF Navigate, Inv, Calls, CallsTyped
  <2>2. MaxWrites \in Nat
    BY ConsoleAssumption
  <2>3. ahead = writes' + 3 .. MaxWrites + 2
    BY DEF Ahead
  <2>4. \A m, n \in Nat : 0 \notin m + 3 .. n + 2
    OBVIOUS
  <2> HIDE DEF ahead
  <2> QED BY <2>1, <2>2, <2>3, <2>4
<1> HIDE DEF content, ahead
<1>12. DialogTrue(ui'.dialog, flight', content, ahead)
  BY <1>2, <1>5, <1>10, <1>11 DEF DialogTrue, Closed, Dialog, LibraryWrites
<1>13. LibraryTrue(ui', flight', content, ahead)
  BY <1>2, <1>5, <1>7, <1>8, <1>9, <1>10, <1>12 DEF LibraryTrue, Latest
<1> QED BY <1>13 DEF content, ahead

(* The list of workspaces comes, by a link or after a workspace was        *)
(* deleted.                                                                *)
LEMMA FreshListTrue ==
  ASSUME Inv, Clear(ui', flight'), NEW gone, Turns(flight, flight', gone, Parts, {}, {ListWorkspaces(1)}), ui' = ListScreen
  PROVE  ListTrue(ui', flight', PageOf(ui.page)')
<1> DEFINE r == ListWorkspaces(1)
           page == PageOf(ui.page)'
<1>1. New(r) /\ r.fn = "listWorkspaces" /\ r.row = 1
  BY ListWorkspacesIs DEF Inv, Calls, CallsTyped
<1>2. ui'.loading /\ ui'.page = 1
  BY DEF ListScreen
<1>3. ASSUME NEW i \in Slots, flight'[i].fn = "listWorkspaces" PROVE flight'[i] = r
  <2>1. flight'[i] # Idle
    BY <1>3 DEF Idle
  <2>2. flight'[i] \in {r}
    BY <2>1, FreshStart
  <2> QED BY <2>2
<1>4. r.reply[1] # "ok"
  BY <1>1 DEF New, Pending
<1> HIDE DEF r, page
<1>5. ListTrue(ui', flight', page)
  BY <1>1, <1>2, <1>3, <1>4 DEF ListTrue, Latest
<1> QED BY <1>5 DEF page

(* By a link.                                                              *)
LEMMA OpenListTrue ==
  ASSUME Inv, Clear(ui', flight'), OpenList
  PROVE  ListTrue(ui', flight', PageOf(ui.page)')
<1> DEFINE r == ListWorkspaces(1)
           v == ListScreen
<1>1. New(r) /\ r.fn = "listWorkspaces" /\ r.owner = {"screen"}
  BY ListWorkspacesIs DEF Inv, Calls, CallsTyped
<1>2. Waiter(v, r) /\ v.at = "list"
  BY <1>1 DEF Waiter, ListScreen
<1> HIDE DEF r, v
<1>3. <<r>> \in Seq({r}) /\ Len(<<r>>) =< 2 /\ ToSet(<<r>>) = {r} /\ \A q \in {r} : New(q) /\ Waiter(v, q)
  BY <1>1, <1>2 DEF ToSet
<1>4. Navigate(v, <<r>>)
  BY DEF OpenList, r, v
<1>5. ui' = v /\ Turns(flight, flight', {}, Parts, {}, {r})
  <2>1. v.at # "login"
    BY <1>2
  <2> QED BY <1>3, <1>4, <2>1, NavigateInv
<1>6. ui' = ListScreen /\ Turns(flight, flight', {}, Parts, {}, {ListWorkspaces(1)})
  BY <1>5 DEF r, v
<1> QED BY <1>6, FreshListTrue

(* After the workspace was deleted.                                        *)
LEMMA AwayTrue ==
  ASSUME Inv, Clear(ui', flight'), NEW i \in Slots, Mount(ListScreen, Done(i), <<ListWorkspaces(1)>>)
  PROVE  ListTrue(ui', flight', PageOf(ui.page)')
<1> DEFINE r == ListWorkspaces(1)
           v == ListScreen
           f == Done(i)
           ls == <<r>>
<1>1. New(r) /\ Flights(flight)
  BY ListWorkspacesIs DEF Inv, Calls, CallsTyped
<1>2. Turns(flight, f, {i}, {}, {}, {})
  BY <1>1, DoneTurns
<1>3. Mount(v, f, ls)
  OBVIOUS
<1> HIDE DEF r, v, f
<1>4. ls \in Seq({r}) /\ Len(ls) =< 2 /\ ToSet(ls) = {r} /\ \A q \in {r} : IsRequest(q)
  BY <1>1 DEF ToSet, New
<1> HIDE DEF ls
<1>5. Turns(flight, flight', {i}, Parts, {}, ToSet(ls)) /\ ui' = v
  BY <1>1, <1>2, <1>3, <1>4, MountTurns
<1>6. Turns(flight, flight', {i}, Parts, {}, {ListWorkspaces(1)}) /\ ui' = ListScreen
  BY <1>4, <1>5 DEF r, v
<1> QED BY <1>6, FreshListTrue

(* The screen of a workspace comes.                                        *)
LEMMA OpenWorkspaceTrue ==
  ASSUME Inv, Clear(ui', flight'), NEW w \in WorkspaceIds, OpenWorkspace(w)
  PROVE  DetailTrue(ui', flight', db')
<1> DEFINE v == DetailScreen(w)
           q == GetWorkspace(w)
           r == ListMembers(w, "load")
           ls == <<q, r>>
<1>0. token \in Nat
  BY DEF Inv, Calls, CallsTyped
<1>1. New(q) /\ q.fn = "getWorkspace" /\ q.owner = {"screen"} /\ q.latest /\ q.row = w
  BY <1>0, GetWorkspaceIs, DetailLoadsAreLatest
<1>2. New(r) /\ r.fn = "listMembers" /\ r.owner = {"screen", "tab"} /\ r.latest
  BY <1>0, ListMembersIs, DetailLoadsAreLatest
<1>3. Navigate(v, ls)
  BY DEF OpenWorkspace
<1>4. AtFirstIs(v, w, "members", Closed)
  BY DEF DetailScreen, AtFirstIs
<1>5. ~IsSettled(v) /\ v.at = "detail"
  BY <1>4 DEF AtFirstIs, IsSettled
<1> HIDE DEF v, q, r
<1>6. \A s \in {q, r} : New(s) /\ Waiter(v, s)
  BY <1>1, <1>2, <1>5 DEF Waiter
<1>7. ls \in Seq({q, r}) /\ Len(ls) =< 2 /\ ToSet(ls) = {q, r} /\ ls[2] = r
  BY DEF ToSet
<1> HIDE DEF ls
<1>8. ui' = v /\ Turns(flight, flight', {}, Parts, {}, {q, r})
  BY <1>3, <1>5, <1>6, <1>7, NavigateInv
<1>9. \A i \in Slots : flight'[i] # Idle => flight'[i] \in {q, r}
  BY <1>8, FreshStart
<1>10. \A i \in Slots : flight'[i].fn # "none" => flight'[i] = q \/ flight'[i] = r
  <2>1. \A i \in Slots : flight'[i].fn # "none" => flight'[i] # Idle
    BY DEF Idle
  <2> QED BY <1>9, <2>1
<1>11. \A i, j \in Slots : flight'[i].fn = "getWorkspace" /\ flight'[j].fn = "getWorkspace" => i = j
  <2>1. Mount(v, flight, ls) /\ (\A s \in {q, r} : IsRequest(s)) /\ ls[2].fn # "getWorkspace"
    BY <1>2, <1>3, <1>6, <1>7 DEF Navigate, New
  <2>2. "getWorkspace" \in {"listTemplateLibrary", "getWorkspace"}
    OBVIOUS
  <2> QED BY <1>7, <2>1, <2>2, OneFresh
<1>12. ComingLast(flight', "listMembers")
  <2>1. r \in {q, r} /\ IsRequest(r)
    BY <1>2 DEF New
  <2>2. ComingLast(flight', r.fn)
    BY <1>2, <1>8, <2>1, NewComes
  <2> QED BY <1>2, <2>2
<1>13. q.reply = Pending /\ r.reply = Pending
  BY <1>1, <1>2 DEF New
<1>14. \A i \in Slots : flight'[i].fn \in {"none", "getWorkspace", "listMembers"}
  BY <1>1, <1>2, <1>10
<1>15. \A i \in Slots : flight'[i].fn \notin TabFns \cup MemberWrites \cup {"updateWorkspace"}
  <2>1. TabFns \cup MemberWrites \cup {"updateWorkspace"} \subseteq
          {"listAttachedTemplates", "listWorkspaceProviders", "getGuardrailPolicy", "attachTemplate", "detachTemplate",
           "setProviderEnabled", "saveGuardrailPolicy", "replaceMemberRoles", "addMember", "updateWorkspace"}
    BY DEF TabFns, PanelFns, TabWrites, MemberWrites
  <2> QED BY <1>14, <2>1
<1>16. \A i, j \in Latest(flight', "getWorkspace") : i = j
  BY <1>11 DEF Latest
<1>17. \A i \in Latest(flight', "getWorkspace") : flight'[i].row = w /\ flight'[i].reply = Pending
  BY <1>1, <1>2, <1>10, <1>13 DEF Latest
<1>18. \A i \in Latest(flight', "listMembers") : flight'[i].reply = Pending
  BY <1>1, <1>2, <1>10, <1>13 DEF Latest
<1>19. PoolTrue(ui', flight', db'[Library])
  <2>1. ui'.dialog = Closed
    BY <1>4, <1>8 DEF AtFirstIs
  <2> QED BY <1>14, <2>1 DEF PoolTrue, Closed, Dialog
<1>20. AtFirstIs(ui', w, "members", Closed)
  BY <1>4, <1>8
<1> QED BY <1>12, <1>15, <1>16, <1>17, <1>18, <1>19, <1>20, FreshDetailTrue

-----------------------------------------------------------------------------
(* The screen that is mounted shows the truth.                             *)

Truth ==
  /\ ui.at = "providers" => ProvidersTrue(ui, flight, db[Providers])
  /\ ui.at = "library" => LibraryTrue(ui, flight, db[Library], Ahead)
  /\ ui.at = "list" => ListTrue(ui, flight, PageOf(ui.page))
  /\ ui.at = "detail" => DetailTrue(ui, flight, db)

(* If it stays mounted it has met none of the cases before. *)
Unexcused == Clear(ui', flight') /\ (ui'.at = ui.at => Clear(ui, flight) /\ Truth)

(* Where the screens are. *)
LEMMA NewScreens ==
  /\ ProvidersScreen.at = "providers" /\ LibraryScreen.at = "library" /\ ListScreen.at = "list"
  /\ \A w : DetailScreen(w).at = "detail"
BY DEF ProvidersScreen, LibraryScreen, ListScreen, DetailScreen

(* Whose answers they are. *)
LEMMA AnswersAt ==
  ASSUME Inv, Clear(ui, flight), NEW i \in Slots, flight[i] # Idle
  PROVE  /\ flight[i].fn \in {"listProviders", "checkProviderConnection"} \cup DOMAIN BusyOf => ui.at = "providers"
         /\ flight[i].fn \in LibraryWrites => ui.at = "library"
         /\ flight[i].fn = "listTemplateLibrary" /\ Awaits(i, "screen") => ui.at = "library"
         /\ flight[i].fn = "listTemplateLibrary" /\ Awaits(i, "dialog") => ui.at = "detail"
         /\ flight[i].fn \in {"listWorkspaces", "createWorkspace"} => ui.at = "list"
         /\ flight[i].fn \in DOMAIN AskedOf \cup {"getWorkspace", "updateWorkspace", "deleteWorkspace"} => ui.at = "detail"
<1>1. flight[i].owner # {} /\ Waiter(ui, flight[i])
  BY OfTheScreen
<1>2. flight[i].fn = "listTemplateLibrary" => ui.at \in {"library", "detail"}
  BY <1>1, WhereItIs
<1>3. flight[i].fn = "listTemplateLibrary" /\ ui.at = "detail" => "screen" \notin flight[i].owner
  BY <1>1 DEF Waiter
<1>4. flight[i].fn = "listTemplateLibrary" /\ ui.at = "library" => "dialog" \notin flight[i].owner
  BY <1>1 DEF Waiter
<1> QED BY <1>1, <1>2, <1>3, <1>4, WhereItIs DEF Awaits

(* The steps of the providers. *)
LEMMA ProvidersTruth ==
  ASSUME Inv, Base, Unexcused, ProvidersStep
  PROVE  Truth'
<1>1. ASSUME ui'.at = "providers", ProvidersTrue(ui', flight', db'[Providers]) PROVE Truth'
  BY <1>1 DEF Truth
<1>2. CASE OpenProviders
  <2>1. ui'.at = "providers"
    BY <1>2, NewScreens DEF OpenProviders, Navigate, Mount
  <2> QED BY <1>1, <1>2, <2>1, OpenProvidersTrue DEF Unexcused
<1>3. CASE ~OpenProviders
  <2>1. ui'.at = ui.at /\ Clear(ui, flight) /\ Truth /\ Clear(ui', flight')
    BY <1>3, ProvidersAt DEF Unexcused
  <2>2. ui.at = "providers" => ProvidersTrue(ui, flight, db[Providers])
    BY <2>1 DEF Truth
  <2>3. DOMAIN flight = Slots
    BY DEF Base, Sound
  <2>4. \/ CreateProvider \/ (\E newKey \in BOOLEAN : EditProvider(newKey)) \/ DeleteProvider
        \/ RetryProviders \/ CloseProviderDialog \/ RunCheck \/ PickKind
        \/ \E kind \in {"create", "edit", "delete"}, row \in RowOf(Providers) \cup {0} : OpenProviderDialog(kind, row)
        \/ \E i \in Slots : Refetched(i) \/ ProviderSaved(i) \/ RotateKey(i) \/ Checked(i)
    BY <1>3, <2>3 DEF ProvidersStep
  <2>5. ui.at = "providers"
    <3>1. ASSUME NEW i \in Slots, Refetched(i) \/ ProviderSaved(i) \/ RotateKey(i) \/ Checked(i) PROVE ui.at = "providers"
      <4>1. flight[i] # Idle /\ flight[i].fn \in {"listProviders", "checkProviderConnection"} \cup DOMAIN BusyOf
        BY <3>1 DEF Refetched, ProviderSaved, RotateKey, Checked, Answered, BusyOf
      <4> QED BY <4>1, <2>1, AnswersAt
    <3> QED BY <2>4, <3>1 DEF CreateProvider, EditProvider, DeleteProvider, RetryProviders, CloseProviderDialog, RunCheck,
                              PickKind, OpenProviderDialog
  <2>6. ProvidersTrue(ui, flight, db[Providers])
    BY <2>2, <2>5
  <2>7. CASE CreateProvider \/ (\E newKey \in BOOLEAN : EditProvider(newKey)) \/ DeleteProvider
    BY <2>5, <2>6, <2>7, <2>1, <1>1, ProviderClicksTrue
  <2>8. CASE \/ RetryProviders \/ CloseProviderDialog \/ RunCheck \/ PickKind
             \/ \E kind \in {"create", "edit", "delete"}, row \in RowOf(Providers) \cup {0} : OpenProviderDialog(kind, row)
             \/ \E i \in Slots : Checked(i)
    BY <2>5, <2>6, <2>8, <2>1, <1>1, ProviderRestTrue
  <2>9. ASSUME NEW i \in Slots, Refetched(i) PROVE Truth'
    BY <2>5, <2>6, <2>9, <2>1, <1>1, RefetchedTrue
  <2>10. ASSUME NEW i \in Slots, ProviderSaved(i) PROVE Truth'
    BY <2>5, <2>6, <2>10, <2>1, <1>1, BaseGives, ProviderSavedTrue
  <2>11. ASSUME NEW i \in Slots, RotateKey(i) PROVE Truth'
    BY <2>5, <2>11, <2>1, <1>1, RotateKeyTrue
  <2> QED BY <2>4, <2>7, <2>8, <2>9, <2>10, <2>11
<1> QED BY <1>2, <1>3

(* The steps of the library. *)
LEMMA LibraryTruth ==
  ASSUME Inv, Base, Unexcused, LibraryStep
  PROVE  Truth'
<1>1. ASSUME ui'.at = "library", LibraryTrue(ui', flight', db'[Library], Ahead') PROVE Truth'
  BY <1>1 DEF Truth
<1>2. CASE OpenLibrary
  <2>1. ui'.at = "library"
    BY <1>2, NewScreens DEF OpenLibrary, Navigate, Mount
  <2> QED BY <1>1, <1>2, <2>1, OpenLibraryTrue DEF Unexcused
<1>3. CASE ~OpenLibrary
  <2>1. ui'.at = ui.at /\ Clear(ui, flight) /\ Truth /\ Clear(ui', flight')
    BY <1>3, LibraryAt DEF Unexcused
  <2>2. ui.at = "library" => LibraryTrue(ui, flight, db[Library], Ahead)
    BY <2>1 DEF Truth
  <2>3. DOMAIN flight = Slots /\ Numbered
    BY BaseGives DEF Base, Sound
  <2>4. \/ RetryLibrary \/ CloseTemplateDialog \/ SaveTemplate \/ DeleteTemplate
        \/ \E kind \in {"create", "edit", "delete"}, row \in RowOf(Library) \cup {0} : OpenTemplateDialog(kind, row)
        \/ \E i \in Slots : LibraryLoaded(i) \/ TemplateSaved(i)
    BY <1>3, <2>3 DEF LibraryStep
  <2>5. ui.at = "library"
    <3>1. ASSUME NEW i \in Slots, LibraryLoaded(i) \/ TemplateSaved(i) PROVE ui.at = "library"
      <4>1. flight[i] # Idle /\ (flight[i].fn \in LibraryWrites \/ (flight[i].fn = "listTemplateLibrary" /\ Awaits(i, "screen")))
        BY <3>1 DEF LibraryLoaded, TemplateSaved, Answered
      <4> QED BY <4>1, <2>1, AnswersAt
    <3> QED BY <2>4, <3>1 DEF RetryLibrary, CloseTemplateDialog, SaveTemplate, DeleteTemplate, OpenTemplateDialog
  <2>6. LibraryTrue(ui, flight, db[Library], Ahead)
    BY <2>2, <2>5
  <2>7. CASE RetryLibrary
    BY <2>5, <2>6, <2>7, <2>1, <1>1, RetryLibraryTrue
  <2>8. CASE CloseTemplateDialog
    BY <2>5, <2>6, <2>8, <2>1, <1>1, CloseTemplateDialogTrue
  <2>9. CASE SaveTemplate \/ DeleteTemplate
    BY <2>3, <2>5, <2>6, <2>9, <2>1, <1>1, TemplateClicksTrue
  <2>10. ASSUME NEW kind \in {"create", "edit", "delete"}, NEW row \in RowOf(Library) \cup {0}, OpenTemplateDialog(kind, row)
         PROVE  Truth'
    BY <2>3, <2>5, <2>6, <2>10, <2>1, <1>1, OpenTemplateDialogTrue
  <2>11. ASSUME NEW i \in Slots, LibraryLoaded(i) PROVE Truth'
    BY <2>5, <2>6, <2>11, <2>1, <1>1, LibraryLoadedTrue
  <2>12. ASSUME NEW i \in Slots, TemplateSaved(i) PROVE Truth'
    BY <2>5, <2>6, <2>12, <2>1, <1>1, TemplateSavedTrue
  <2> QED BY <2>4, <2>7, <2>8, <2>9, <2>10, <2>11, <2>12
<1> QED BY <1>2, <1>3

(* The steps of the list of workspaces. *)
LEMMA ListTruth ==
  ASSUME Inv, Base, Unexcused, ListStep
  PROVE  Truth'
<1>1. ASSUME ui'.at = "list", ListTrue(ui', flight', PageOf(ui.page)') PROVE Truth'
  BY <1>1 DEF Truth
<1>2. CASE OpenList
  <2>1. ui'.at = "list"
    BY <1>2, NewScreens DEF OpenList, Navigate, Mount
  <2> QED BY <1>1, <1>2, <2>1, OpenListTrue DEF Unexcused
<1>3. CASE ~OpenList
  <2>1. ui'.at = ui.at /\ Clear(ui, flight) /\ Truth /\ Clear(ui', flight')
    BY <1>3, ListAt DEF Unexcused
  <2>2. ui.at = "list" => ListTrue(ui, flight, PageOf(ui.page))
    BY <2>1 DEF Truth
  <2>3. DOMAIN flight = Slots
    BY DEF Base, Sound
  <2>4. \/ (\E p : PickPage(p)) \/ RetryList \/ ToggleCreate \/ CreateWorkspace
        \/ \E i \in Slots : PageLoaded(i) \/ WorkspaceCreated(i)
    BY <1>3, <2>3 DEF ListStep
  <2>5. ui.at = "list"
    <3>1. ASSUME NEW i \in Slots, PageLoaded(i) \/ WorkspaceCreated(i) PROVE ui.at = "list"
      <4>1. flight[i] # Idle /\ flight[i].fn \in {"listWorkspaces", "createWorkspace"}
        BY <3>1 DEF PageLoaded, WorkspaceCreated, Answered
      <4> QED BY <4>1, <2>1, AnswersAt
    <3> QED BY <2>4, <3>1 DEF PickPage, RetryList, ToggleCreate, CreateWorkspace
  <2>6. ListTrue(ui, flight, PageOf(ui.page))
    BY <2>2, <2>5
  <2>7. CASE (\E p : PickPage(p)) \/ RetryList \/ ToggleCreate \/ CreateWorkspace
    BY <2>5, <2>6, <2>7, <2>1, <1>1, ListClicksTrue
  <2>8. ASSUME NEW i \in Slots, PageLoaded(i) PROVE Truth'
    BY <2>5, <2>6, <2>8, <2>1, <1>1, PageLoadedTrue
  <2>9. ASSUME NEW i \in Slots, WorkspaceCreated(i) PROVE Truth'
    BY <2>5, <2>6, <2>9, <2>1, <1>1, WorkspaceCreatedTrue
  <2> QED BY <2>4, <2>7, <2>8, <2>9
<1> QED BY <1>2, <1>3

(* The loads of one workspace. *)
LEMMA DetailLoadsTruth ==
  ASSUME Inv, Clear(ui, flight), Clear(ui', flight'), DetailTrue(ui, flight, db),
         \/ \E w \in WorkspaceIds : Jump(w)
         \/ RetryWorkspace \/ RetryMembers \/ RetryPanel \/ CloseDetailDialog
         \/ \E tab \in Tabs : PickTab(tab)
         \/ \E kind \in Dialogs \cup {"deleteWorkspace"}, row \in Id["members"] \cup {0} : OpenDetailDialog(kind, row)
  PROVE  DetailTrue(ui', flight', db')
BY JumpTrue, RetryWorkspaceTrue, RetryMembersTrue, RetryPanelTrue, CloseDetailDialogTrue, PickTabTrue, OpenDetailDialogTrue

(* The buttons of one workspace. *)
LEMMA DetailWritesTruth ==
  ASSUME Inv, Clear(ui, flight), Clear(ui', flight'), DetailTrue(ui, flight, db),
         \/ SaveRoles \/ SavePolicy \/ Rename \/ DeleteWorkspace
         \/ \E row \in Id["members"] : AddMember(row)
         \/ \E row \in Id["templates"] : DetachTemplate(row)
         \/ ui.pool # NoList /\ \E x \in ToSet(ui.pool) : AttachTemplate(x)
         \/ ui.panel # NoList /\ \E x \in ToSet(ui.panel) : Toggle(x)
  PROVE  DetailTrue(ui', flight', db')
<1>1. CASE SaveRoles \/ (\E row \in Id["members"] : AddMember(row)) \/ Rename \/ DeleteWorkspace
  BY <1>1, DetailClicksTrue
<1>2. CASE SavePolicy
  BY <1>2, SavePolicyTrue
<1>3. CASE \E row \in Id["templates"] : DetachTemplate(row)
  BY <1>3, DetachTemplateTrue
<1>4. CASE ui.pool # NoList /\ \E x \in ToSet(ui.pool) : AttachTemplate(x)
  BY <1>4, AttachTemplateTrue
<1>5. CASE ui.panel # NoList /\ \E x \in ToSet(ui.panel) : Toggle(x)
  BY <1>5, ToggleTrue
<1> QED BY <1>1, <1>2, <1>3, <1>4, <1>5

(* The answers for one workspace. *)
LEMMA DetailAnswersTruth ==
  ASSUME Inv, Clear(ui, flight), DetailTrue(ui, flight, db), NEW i \in Slots,
         \/ GotWorkspace(i) \/ MembersLoaded(i) \/ PanelLoaded(i) \/ PoolLoaded(i) \/ MemberSaved(i)
         \/ TemplateMoved(i) \/ Toggled(i) \/ PolicySaved(i) \/ Renamed(i)
  PROVE  DetailTrue(ui', flight', db')
<1>1. CASE GotWorkspace(i) \/ MembersLoaded(i) \/ PanelLoaded(i)
  BY <1>1, GotWorkspaceTrue, MembersLoadedTrue, PanelLoadedTrue
<1>2. CASE PoolLoaded(i) \/ MemberSaved(i) \/ TemplateMoved(i)
  BY <1>2, PoolLoadedTrue, MemberSavedTrue, TemplateMovedTrue
<1>3. CASE Toggled(i) \/ PolicySaved(i) \/ Renamed(i)
  BY <1>3, ToggledTrue, PolicySavedTrue, RenamedTrue
<1> QED BY <1>1, <1>2, <1>3

(* The steps of one workspace. *)
LEMMA DetailTruth ==
  ASSUME Inv, Base, Unexcused, DetailStep
  PROVE  Truth'
<1>1. ASSUME ui'.at = "detail", DetailTrue(ui', flight', db') PROVE Truth'
  BY <1>1 DEF Truth
<1>2. ASSUME NEW w \in WorkspaceIds, OpenWorkspace(w) PROVE Truth'
  <2>1. ui'.at = "detail"
    BY <1>2, NewScreens DEF OpenWorkspace, Navigate, Mount
  <2> QED BY <1>1, <1>2, <2>1, OpenWorkspaceTrue DEF Unexcused
<1>3. ASSUME ui'.at = ui.at, ui.at = "detail" PROVE Clear(ui, flight) /\ Clear(ui', flight') /\ DetailTrue(ui, flight, db)
  BY <1>3 DEF Unexcused, Truth
<1>4. CASE \/ \E w \in WorkspaceIds : Jump(w)
           \/ RetryWorkspace \/ RetryMembers \/ RetryPanel \/ CloseDetailDialog
           \/ \E tab \in Tabs : PickTab(tab)
           \/ \E kind \in Dialogs \cup {"deleteWorkspace"}, row \in Id["members"] \cup {0} : OpenDetailDialog(kind, row)
  <2>1. ui'.at = ui.at
    BY <1>4, DetailLoadsAt
  <2>2. ui.at = "detail"
    BY <1>4, WhenSettled DEF Jump, RetryWorkspace, RetryMembers, RetryPanel, CloseDetailDialog, PickTab, OpenDetailDialog
  <2>3. DetailTrue(ui', flight', db')
    BY <1>3, <1>4, <2>1, <2>2, DetailLoadsTruth
  <2> QED BY <1>1, <2>1, <2>2, <2>3
<1>5. CASE \/ SaveRoles \/ SavePolicy \/ Rename \/ DeleteWorkspace
           \/ \E row \in Id["members"] : AddMember(row)
           \/ \E row \in Id["templates"] : DetachTemplate(row)
           \/ ui.pool # NoList /\ \E x \in ToSet(ui.pool) : AttachTemplate(x)
           \/ ui.panel # NoList /\ \E x \in ToSet(ui.panel) : Toggle(x)
  <2>1. ui'.at = ui.at
    BY <1>5, DetailClicksAt
  <2>2. ui.at = "detail"
    BY <1>5, WhenSettled DEF SaveRoles, SavePolicy, Rename, DeleteWorkspace, AddMember, DetachTemplate, AttachTemplate, Toggle
  <2>3. DetailTrue(ui', flight', db')
    BY <1>3, <1>5, <2>1, <2>2, DetailWritesTruth
  <2> QED BY <1>1, <2>1, <2>2, <2>3
<1>6. ASSUME NEW i \in Slots,
             \/ GotWorkspace(i) \/ MembersLoaded(i) \/ PanelLoaded(i) \/ PoolLoaded(i) \/ MemberSaved(i)
             \/ TemplateMoved(i) \/ Toggled(i) \/ PolicySaved(i) \/ Renamed(i)
      PROVE  Truth'
  <2>1. ui'.at = ui.at /\ Clear(ui, flight)
    BY <1>6, DetailAnswersAt DEF Unexcused
  <2>2. /\ flight[i] # Idle
        /\ \/ flight[i].fn \in DOMAIN AskedOf \cup {"getWorkspace", "updateWorkspace", "deleteWorkspace"}
           \/ flight[i].fn = "listTemplateLibrary" /\ Awaits(i, "dialog")
    BY <1>6 DEF GotWorkspace, MembersLoaded, PanelLoaded, PoolLoaded, MemberSaved, TemplateMoved, Toggled, PolicySaved,
                Renamed, Answered, AskedOf, PanelFns
  <2>3. ui.at = "detail"
    BY <2>1, <2>2, AnswersAt
  <2>4. DetailTrue(ui', flight', db')
    BY <1>3, <1>6, <2>1, <2>3, DetailAnswersTruth
  <2> QED BY <1>1, <2>1, <2>3, <2>4
<1>7. ASSUME NEW i \in Slots, WorkspaceDeleted(i) PROVE Truth'
  <2>1. CASE Mount(ListScreen, Done(i), <<ListWorkspaces(1)>>)
    <3>1. ui'.at = "list"
      BY <2>1, NewScreens DEF Mount
    <3>2. ListTrue(ui', flight', PageOf(ui.page)')
      BY <2>1, AwayTrue DEF Unexcused
    <3> QED BY <3>1, <3>2 DEF Truth
  <2>2. CASE ui'.at = ui.at
    <3>1. Clear(ui, flight)
      BY <2>2 DEF Unexcused
    <3>2. flight[i] # Idle /\ flight[i].fn = "deleteWorkspace"
      BY <1>7 DEF WorkspaceDeleted, Answered
    <3>3. ui.at = "detail"
      BY <3>1, <3>2, AnswersAt
    <3>4. DetailTrue(ui', flight', db')
      BY <1>3, <1>7, <2>2, <3>3, WorkspaceKeptTrue
    <3> QED BY <1>1, <2>2, <3>3, <3>4
  <2> QED BY <1>7, <2>1, <2>2, DeletedAt
<1>8. DOMAIN flight = Slots
  BY DEF Base, Sound
<1> QED BY <1>2, <1>4, <1>5, <1>6, <1>7, <1>8 DEF DetailStep, WorkspaceIds

(* The server handles a request, of whichever screen. *)
LEMMA ServeTruth ==
  ASSUME Inv, Base, Unexcused, NEW i \in Slots, Serve(i)
  PROVE  Truth'
<1>1. PICK reply : Served(i, reply)
  BY ServeIs DEF Unexcused
<1>2. ui' = ui
  BY <1>1 DEF Served
<1>3. Clear(ui, flight) /\ Truth
  BY <1>2 DEF Unexcused
<1>4. CASE ui.at = "providers"
  <2>1. ProvidersTrue(ui', flight', db'[Providers])
    BY <1>1, <1>3, <1>4, ProviderServedTrue DEF Truth
  <2> QED BY <1>2, <1>4, <2>1 DEF Truth
<1>5. CASE ui.at = "library"
  <2>1. LibraryTrue(ui', flight', db'[Library], Ahead')
    BY <1>1, <1>3, <1>5, LibraryServedTrue DEF Truth
  <2> QED BY <1>2, <1>5, <2>1 DEF Truth
<1>6. CASE ui.at = "list"
  <2>1. ListTrue(ui', flight', PageOf(ui.page)')
    BY <1>1, <1>3, <1>6, ListServedTrue DEF Truth
  <2> QED BY <1>2, <1>6, <2>1 DEF Truth
<1>7. CASE ui.at = "detail"
  <2>1. DetailTrue(ui', flight', db')
    BY <1>1, <1>3, <1>7, DetailServedTrue DEF Truth
  <2> QED BY <1>2, <1>7, <2>1 DEF Truth
<1>8. CASE ui.at \notin {"providers", "library", "list", "detail"}
  BY <1>2, <1>8 DEF Truth
<1> QED BY <1>4, <1>5, <1>6, <1>7, <1>8

(* A session begins or ends. *)
LEMMA SessionTruth ==
  ASSUME Inv, Base, Unexcused,
         \/ \E i \in Slots : Unauthorised(i) \/ LoggedIn(i)
         \/ \E s \in strays : StrayUnauthorised(s)
         \/ SubmitLogin
  PROVE  Truth'
<1>1. ui'.at \in {"login", "home"}
  <2>1. LoginScreen.at = "login" /\ HomeScreen.at = "home"
    BY DEF LoginScreen, HomeScreen
  <2>2. CASE \E i \in Slots : Unauthorised(i)
    BY <2>1, <2>2 DEF Unauthorised, SignOut, Mount
  <2>3. CASE \E s \in strays : StrayUnauthorised(s)
    BY <2>1, <2>3 DEF StrayUnauthorised
  <2>4. CASE SubmitLogin
    <3>1. Here([ui EXCEPT !.busy = {"login"}])
      BY HereAtFirst DEF Here
    <3> QED BY <2>4, <3>1 DEF SubmitLogin, Here
  <2>5. ASSUME NEW i \in Slots, LoggedIn(i) PROVE ui'.at \in {"login", "home"}
    <3>1. CASE Got(i)
      BY <2>1, <2>5, <3>1 DEF LoggedIn, Mount
    <3>2. CASE ~Got(i)
      <4>1. Here([ui EXCEPT !.busy = {}])
        BY HereAtFirst DEF Here
      <4>2. ui'.at = ui.at /\ flight[i] # Idle /\ flight[i].fn = "login"
        BY <2>5, <3>2, <4>1 DEF LoggedIn, Here, Answered
      <4>3. Clear(ui, flight)
        BY <4>2 DEF Unexcused
      <4>4. Waiter(ui, flight[i]) /\ flight[i].owner # {} /\ flight[i].owner \subseteq Parts
        BY <4>2, <4>3, OfTheScreen DEF IsRequest
      <4>5. ui.at \notin {"providers", "library", "list", "detail", "home"}
        BY <4>2, <4>4 DEF Waiter, Parts, TabWaiter, DialogWaiter, BusyOf, LibraryWrites
      <4>6. ui.at \in {"login", "home", "providers", "library", "list", "detail"}
        BY DEF Inv, Screen, ScreenTyped
      <4> QED BY <4>2, <4>5, <4>6
    <3> QED BY <3>1, <3>2
  <2> QED BY <2>2, <2>3, <2>4, <2>5
<1> QED BY <1>1 DEF Truth

(* Nothing that it shows changes. *)
LEMMA SameTruth ==
  ASSUME ui' = ui, flight' = flight, db' = db, writes' = writes
  PROVE  (Clear(ui, flight) /\ Truth) => Clear(ui', flight') /\ Truth'
<1>1. PageOf(ui.page)' = PageOf(ui.page)
  BY PageStays
<1>2. Ahead' = Ahead
  BY DEF Ahead
<1> QED BY <1>1, <1>2 DEF Truth

-----------------------------------------------------------------------------
(* What is so of every state.                                              *)

(* The inductive invariant. *)
TrueInv == Inv /\ Base /\ (excused = {} => Clear(ui, flight) /\ Truth)

(* At first there is nothing to show. *)
LEMMA TrueInit == Init => TrueInv
<1> SUFFICES ASSUME Init PROVE TrueInv
  OBVIOUS
<1>1. Inv /\ Base
  BY InvInit, BaseInit
<1>2. ui.at = "home" /\ \A i \in Slots : flight[i] = Idle
  BY DEF Init, CallsInit, HomeScreen, Slots
<1>3. \A i \in Slots : flight[i].fn = "none" /\ ~Writes(flight[i])
  BY <1>2, IdleIsNone DEF Writes
<1>4. Clear(ui, flight)
  BY <1>2, <1>3 DEF Clear, LibraryWrites
<1>5. Truth
  BY <1>2 DEF Truth
<1> QED BY <1>1, <1>4, <1>5 DEF TrueInv

(* Every step keeps it. *)
LEMMA TrueNext == TrueInv /\ [Next]_vars => TrueInv'
<1> SUFFICES ASSUME TrueInv, [Next]_vars PROVE TrueInv'
  OBVIOUS
<1>1. Inv /\ Base /\ Inv' /\ Base'
  BY InvNext, BaseNext DEF TrueInv
<1>2. CASE UNCHANGED vars
  <2>1. ui' = ui /\ flight' = flight /\ db' = db /\ writes' = writes /\ excused' = excused
    BY <1>2 DEF vars, serverVars, countVars
  <2>2. excused' = {} => Clear(ui', flight') /\ Truth'
    BY <2>1, SameTruth DEF TrueInv
  <2> QED BY <1>1, <2>2 DEF TrueInv
<1>3. CASE Next
  <2>1. ASSUME excused' = {} PROVE Clear(ui', flight') /\ Truth'
    <3>1. Met' = {} /\ (ui'.at = ui.at => excused = {})
      BY <1>3, <2>1 DEF Next
    <3>2. Clear(ui', flight')
      <4>1. Flights(flight')
        BY <1>1 DEF Inv, Calls, CallsTyped
      <4> QED BY <3>1, <4>1, Unmet
    <3>3. Unexcused
      BY <3>1, <3>2 DEF Unexcused, TrueInv
    <3>4. DOMAIN flight = Slots
      BY <1>1 DEF Base, Sound
    <3>5. CASE \E i \in DOMAIN flight : Serve(i)
      BY <1>1, <3>2, <3>3, <3>4, <3>5, ServeTruth
    <3>6. CASE \/ \E i \in DOMAIN flight : Unauthorised(i) \/ LoggedIn(i)
               \/ \E s \in strays : StrayUnauthorised(s)
               \/ SubmitLogin
      BY <1>1, <3>2, <3>3, <3>4, <3>6, SessionTruth
    <3>7. CASE Expire
      <4>1. ui' = ui /\ flight' = flight /\ db' = db /\ writes' = writes
        BY <3>7 DEF Expire
      <4>2. Clear(ui, flight) /\ Truth
        BY <4>1, <3>3 DEF Unexcused
      <4> QED BY <4>1, <4>2, SameTruth
    <3>8. CASE ProvidersStep
      BY <1>1, <3>2, <3>3, <3>8, ProvidersTruth
    <3>9. CASE LibraryStep
      BY <1>1, <3>2, <3>3, <3>9, LibraryTruth
    <3>10. CASE ListStep
      BY <1>1, <3>2, <3>3, <3>10, ListTruth
    <3>11. CASE DetailStep
      BY <1>1, <3>2, <3>3, <3>11, DetailTruth
    <3> QED BY <1>3, <3>5, <3>6, <3>7, <3>8, <3>9, <3>10, <3>11 DEF Next, Step
  <2> QED BY <1>1, <2>1 DEF TrueInv
<1> QED BY <1>2, <1>3

-----------------------------------------------------------------------------
(* With no request in flight.                                              *)

(* When nothing is on its way all that is shown is there. *)
LEMMA QuietPanel ==
  ASSUME Inv, DetailTrue(ui, flight, db), Settled, ~ui.panelFailed, \A i \in Slots : flight[i] = Idle
  PROVE  TruePanel
<1> SUFFICES ASSUME ui.tab \in DOMAIN PanelTable PROVE SameRows(ui.panel, Listing(T(PanelTable[ui.tab], Shown)))
  BY DEF TruePanel
<1> DEFINE t == T(PanelTable[ui.tab], ui.id)
           content == PanelOf(db, ui)
<1>1. /\ IsSettled(ui) /\ ui.at = "detail" /\ ui.id \in WorkspaceIds /\ Shown = ui.id /\ DetailWait(ui, flight) /\ DbTyped
  BY WhenSettled, ShownIs DEF Inv, Calls, CallsTyped
<1>2. \A i \in Slots : flight[i].fn = "none"
  BY IdleIsNone
<1>3. ui.panel # NoList
  <2>1. ~Coming(flight, PanelFns, "tab")
    BY DEF Coming
  <2> QED BY <1>1, <2>1 DEF DetailWait, PanelWait
<1>4. TabTrue(ui.tab, ui.panel, flight, content, db[Library])
  BY <1>1, <1>3, PanelIs
<1>5. t \in Table
  BY <1>1 DEF Table, T, PanelTable, WorkspaceIds
<1>6. content = Content(t)
  BY <1>1, <1>5, JoinedIs DEF PanelOf
<1> HIDE DEF content
<1>7. Fits(ui.panel, content)
  <2>1. CASE ui.tab = "templates"
    <3>1. \A i \in Slots : flight[i].fn \notin MoveFns
      BY <1>2 DEF MoveFns
    <3> QED BY <1>4, <2>1, <3>1, NoneMoved DEF TabTrue
  <2>2. CASE ui.tab = "providers"
    <3>1. SwitchesTrue(ui.panel, flight, content)
      BY <1>4, <2>2 DEF TabTrue
    <3>2. Near(ui.panel, content) /\ \A x \in DOMAIN content : Agrees(ui.panel, content, x)
      BY <1>2, <3>1 DEF SwitchesTrue
    <3> QED BY <3>2, FitsIsNear
  <2>3. CASE ui.tab = "guardrails"
    BY <1>2, <1>4, <2>3 DEF TabTrue, PolicyTrue, Took
  <2> QED BY <2>1, <2>2, <2>3 DEF PanelTable
<1>8. Fits(Listing(t), content)
  BY <1>1, <1>5, <1>6, ListingFits
<1> QED BY <1>1, <1>7, <1>8, SameFit

(* With no request in flight the screen of a workspace shows its row, its  *)
(* members and its tab, or says which of them it could not load.           *)
LEMMA QuietDetail ==
  ASSUME Inv, DetailTrue(ui, flight, db), ui.at = "detail", \A i \in Slots : flight[i] = Idle
  PROVE  /\ ui.gone => Gone(T("members", ui.id))
         /\ Settled => ui.rows = <<<<ui.id, db[Workspaces][ui.id]>>>>
         /\ Settled /\ ~ui.rosterFailed => SameRows(ui.roster, Listing(T("members", ui.id)))
         /\ Settled /\ ~ui.panelFailed => TruePanel
<1> DEFINE t == T("members", ui.id)
<1>1. ui.id \in WorkspaceIds /\ ui.id # 0 /\ DbTyped
  BY AtDetail, WorkspaceIdsTyped DEF DetailTyped, Inv, Calls, CallsTyped
<1>2. \A i \in Slots : flight[i].fn = "none"
  BY IdleIsNone
<1>3. ui.gone => Gone(t)
  BY <1>1 DEF DetailTrue, RestTrue, RowTrue, Gone, T
<1>4. Settled => ui.rows = <<<<ui.id, db[Workspaces][ui.id]>>>>
  <2>1. \A fns \in SUBSET {"updateWorkspace", "deleteWorkspace"} : ~TookOf(flight, fns, ui.id)
    BY <1>2 DEF TookOf
  <2>2. Settled => IsSettled(ui)
    BY WhenSettled
  <2>3. {"updateWorkspace", "deleteWorkspace"} \in SUBSET {"updateWorkspace", "deleteWorkspace"}
    OBVIOUS
  <2> QED BY <2>1, <2>2, <2>3 DEF DetailTrue, RestTrue, RowTrue
<1>5. Settled /\ ~ui.rosterFailed => SameRows(ui.roster, Listing(t))
  <2>1. t \in Table /\ Joined(db, t) = db[t]
    BY <1>1 DEF Table, T, WorkspaceIds, Joined
  <2>2. Fits(Listing(t), db[t])
    BY <1>1, <2>1, ListingFits, JoinedIs
  <2>3. ~ComingLast(flight, "listMembers") /\ ~Took(flight, MemberWrites)
    BY <1>2 DEF ComingLast, Took, MemberWrites
  <2>4. ~ui.rosterFailed => Fits(ui.roster, db[t])
    BY <2>3 DEF DetailTrue, RestTrue, RosterTrue, MembersOf
  <2> QED BY <2>2, <2>4, SameFit
<1> QED BY <1>3, <1>4, <1>5, QuietPanel

(* What follows of it once every answer is in. *)
LEMMA TrueShows == TrueInv => ShownIsTrue
<1> SUFFICES ASSUME TrueInv, Quiet, excused = {}
             PROVE  CASE ui.at = "providers" -> ~ui.failed => SameRows(ui.rows, Listing(Providers))
                      [] ui.at = "library" -> Ready => SameRows(ui.rows, Listing(Library))
                      [] ui.at = "list" -> Ready => ui.rows = PageOf(ui.page).rows /\ ui.total = PageOf(ui.page).total
                      [] ui.at = "detail" ->
                           /\ ui.gone => Gone(T("members", ui.id))
                           /\ Settled => ui.rows = <<<<ui.id, db[Workspaces][ui.id]>>>>
                           /\ Settled /\ ~ui.rosterFailed => SameRows(ui.roster, Listing(T("members", ui.id)))
                           /\ Settled /\ ~ui.panelFailed => TruePanel
                      [] OTHER -> TRUE
  BY DEF ShownIsTrue
<1>1. Inv /\ Truth /\ DbTyped /\ Flights(flight)
  BY DEF TrueInv, Inv, Calls, CallsTyped
<1>2. \A i \in Slots : flight[i] = Idle
  BY <1>1, InSlots DEF Quiet
<1>3. \A i \in Slots : flight[i].fn = "none"
  BY <1>2, IdleIsNone
<1>4. ASSUME ui.at = "providers", ~ui.failed PROVE SameRows(ui.rows, Listing(Providers))
  <2>1. ~Coming(flight, {"listProviders"}, "screen") /\ ~Refetching(flight)
    BY <1>2, <1>3 DEF Coming, Refetching, Took, BusyOf
  <2>2. Fits(ui.rows, db[Providers])
    BY <1>1, <1>4, <2>1 DEF Truth, ProvidersTrue
  <2>3. Providers \in Table /\ Joined(db, Providers) = db[Providers]
    BY DEF Table, Joined, Providers, T
  <2>4. Fits(Listing(Providers), db[Providers])
    BY <1>1, <2>3, ListingFits, JoinedIs
  <2> QED BY <2>2, <2>4, SameFit
<1>5. ASSUME ui.at = "library", Ready PROVE SameRows(ui.rows, Listing(Library))
  <2>1. LibraryShown(ui.rows, flight, db[Library])
    BY <1>1, <1>5 DEF Truth, LibraryTrue, Ready
  <2>2. Near(ui.rows, db[Library]) /\ \A x \in DOMAIN db[Library] : Agrees(ui.rows, db[Library], x)
    BY <1>3, <2>1 DEF LibraryShown, LibraryWrites
  <2>3. Library \in Table /\ Joined(db, Library) = db[Library]
    BY DEF Table, Joined, Library, T
  <2>4. Fits(Listing(Library), db[Library])
    BY <1>1, <2>3, ListingFits, JoinedIs
  <2> QED BY <2>2, <2>4, FitsIsNear, SameFit
<1>6. ASSUME ui.at = "list", Ready PROVE ui.rows = PageOf(ui.page).rows /\ ui.total = PageOf(ui.page).total
  <2>1. ~Took(flight, {"createWorkspace"})
    BY <1>3 DEF Took
  <2> QED BY <1>1, <1>6, <2>1 DEF Truth, ListTrue, Ready
<1>7. ASSUME ui.at = "detail"
      PROVE  /\ ui.gone => Gone(T("members", ui.id))
             /\ Settled => ui.rows = <<<<ui.id, db[Workspaces][ui.id]>>>>
             /\ Settled /\ ~ui.rosterFailed => SameRows(ui.roster, Listing(T("members", ui.id)))
             /\ Settled /\ ~ui.panelFailed => TruePanel
  <2>1. DetailTrue(ui, flight, db)
    BY <1>1, <1>7 DEF Truth
  <2> QED BY <1>1, <1>2, <1>7, <2>1, QuietDetail
<1> QED BY <1>4, <1>5, <1>6, <1>7

(* Once every answer is in, the screen shows what the server has, unless   *)
(* it says that it could not load it or has met one of the cases.          *)
THEOREM ConsoleShowsTheTruth == Spec => []ShownIsTrue
<1>1. Init => TrueInv
  BY TrueInit
<1>2. TrueInv /\ [Next]_vars => TrueInv'
  BY TrueNext
<1>3. TrueInv => ShownIsTrue
  BY TrueShows
<1> QED BY <1>1, <1>2, <1>3, PTL DEF Spec
=============================================================================
