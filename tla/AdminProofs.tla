---------------------------- MODULE AdminProofs ----------------------------
(***************************************************************************)
(* What the administration routes keep, whatever requests are handled at a *)
(* time, in whatever order, and whichever of their statements fail.        *)
(***************************************************************************)
EXTENDS AdminServer, FiniteSetTheorems, WellFoundedInduction, TLAPS

AllFrames == UNION {Frames(f) : f \in Inputs}

ReqTyped == req \in [Slots -> AllFrames \cup {None}]

Looks == {None} \cup (SUBSET (Users \X Workspaces)) \cup Row

(* The request is the same, and what its route takes for granted.          *)
Same(f, g) ==
  /\ g.op = f.op /\ g.by = f.by /\ g.ws = f.ws /\ g.user = f.user
  /\ g.roles = f.roles /\ g.item = f.item /\ g.body = f.body

(* The facts about a frame. *)
LEMMA FrameFacts ==
  ASSUME NEW g \in AllFrames
  PROVE  /\ g # None /\ Meant(g) /\ g.op \in Ops /\ g.at \in Places /\ g.wrote \in BOOLEAN
         /\ g.roles \subseteq Roles /\ g.saw \in Looks
<1>1. PICK f \in Inputs : g \in Frames(f)
  BY DEF AllFrames
<1>2. /\ g.op = f.op /\ g.by = f.by /\ g.ws = f.ws /\ g.user = f.user /\ g.roles = f.roles /\ g.item = f.item
      /\ g.body = f.body /\ g.at \in Places /\ g.wrote \in BOOLEAN
      /\ g.saw \in Looks
  BY <1>1 DEF Frames, Looks
<1>3. g # None /\ f.op \in Ops /\ f.roles \subseteq Roles /\ Meant(f)
  BY <1>1, InputsAssumption
<1>4. Meant(g)
  BY <1>2, <1>3 DEF Meant
<1> QED BY <1>2, <1>3, <1>4

Becomes(g, h, at, saw, wrote) ==
  h \in AllFrames /\ Same(g, h) /\ h.at = at /\ h.saw = saw /\ h.wrote = wrote

(* A frame that has gone on. *)
LEMMA FrameMoves ==
  ASSUME NEW g \in AllFrames, NEW at \in Places
  PROVE  /\ Becomes(g, [g EXCEPT !.at = at], at, g.saw, g.wrote)
         /\ Becomes(g, [g EXCEPT !.at = at, !.wrote = TRUE], at, g.saw, TRUE)
         /\ \A saw \in Looks :
              /\ Becomes(g, [g EXCEPT !.saw = saw, !.at = at], at, saw, g.wrote)
              /\ Becomes(g, [g EXCEPT !.at = at, !.saw = saw], at, saw, g.wrote)
<1>1. PICK f \in Inputs : g \in Frames(f)
  BY DEF AllFrames
<1>2. \A h \in Frames(f) : Same(g, h) /\ h \in AllFrames
  BY <1>1 DEF Frames, Same, AllFrames
<1>3. Becomes(g, [g EXCEPT !.at = at], at, g.saw, g.wrote)
  BY <1>1, <1>2 DEF Frames, Becomes
<1>4. Becomes(g, [g EXCEPT !.at = at, !.wrote = TRUE], at, g.saw, TRUE)
  BY <1>1, <1>2 DEF Frames, Becomes
<1>5. ASSUME NEW saw \in Looks
      PROVE  /\ Becomes(g, [g EXCEPT !.saw = saw, !.at = at], at, saw, g.wrote)
             /\ Becomes(g, [g EXCEPT !.at = at, !.saw = saw], at, saw, g.wrote)
  BY <1>1, <1>2 DEF Frames, Becomes, Looks
<1> QED BY <1>3, <1>4, <1>5

-----------------------------------------------------------------------------
(* How a step changes the requests.                                        *)

Apart(s) == ReqTyped' /\ \A t \in Slots \ {s} : req'[t] = req[t]

(* The request at s awaits another statement, or has been answered.        *)
Moved(s, at, saw, wrote) ==
  /\ Apart(s)
  /\ req'[s] # None /\ Same(req[s], req'[s])
  /\ req'[s].at = at /\ req'[s].saw = saw /\ req'[s].wrote = wrote

Left(s) == Apart(s) /\ req'[s] = None

(* The three ways to await. *)
LEMMA Awaits ==
  ASSUME ReqTyped, NEW s \in Slots, req[s] # None, NEW at \in Places
  PROVE  /\ Await(s, at) => Moved(s, at, req[s].saw, req[s].wrote)
         /\ AwaitWritten(s, at) => Moved(s, at, req[s].saw, TRUE)
         /\ \A saw \in Looks :
              \/ req' = [req EXCEPT ![s].saw = saw, ![s].at = at]
              \/ req' = [req EXCEPT ![s].at = at, ![s].saw = saw]
              => Moved(s, at, saw, req[s].wrote)
<1>1. req[s] \in AllFrames
  BY DEF ReqTyped
<1>2. ASSUME NEW h, NEW saw, NEW wrote, Becomes(req[s], h, at, saw, wrote), req' = [req EXCEPT ![s] = h]
      PROVE  Moved(s, at, saw, wrote)
  <2>1. h \in AllFrames /\ h # None
    BY <1>2, FrameFacts DEF Becomes
  <2>2. req' \in [Slots -> AllFrames \cup {None}] /\ req'[s] = h /\ \A t \in Slots \ {s} : req'[t] = req[t]
    BY <1>2, <2>1 DEF ReqTyped
  <2> QED BY <1>2, <2>1, <2>2 DEF Becomes, Moved, Apart, ReqTyped
<1>3. Await(s, at) => req' = [req EXCEPT ![s] = [req[s] EXCEPT !.at = at]]
  BY DEF Await
<1>4. AwaitWritten(s, at) => req' = [req EXCEPT ![s] = [req[s] EXCEPT !.at = at, !.wrote = TRUE]]
  BY DEF AwaitWritten
<1>5. Await(s, at) => Moved(s, at, req[s].saw, req[s].wrote)
  BY <1>1, <1>2, <1>3, FrameMoves
<1>6. AwaitWritten(s, at) => Moved(s, at, req[s].saw, TRUE)
  BY <1>1, <1>2, <1>4, FrameMoves
<1>7. ASSUME NEW saw \in Looks, req' = [req EXCEPT ![s].saw = saw, ![s].at = at]
      PROVE  Moved(s, at, saw, req[s].wrote)
  <2>1. req' = [req EXCEPT ![s] = [req[s] EXCEPT !.saw = saw, !.at = at]]
    BY <1>7
  <2> QED BY <1>1, <1>2, <2>1, FrameMoves
<1>8. ASSUME NEW saw \in Looks, req' = [req EXCEPT ![s].at = at, ![s].saw = saw]
      PROVE  Moved(s, at, saw, req[s].wrote)
  <2>1. req' = [req EXCEPT ![s] = [req[s] EXCEPT !.at = at, !.saw = saw]]
    BY <1>8
  <2> QED BY <1>1, <1>2, <2>1, FrameMoves
<1> QED BY <1>5, <1>6, <1>7, <1>8

(* An answer. *)
LEMMA Answers ==
  ASSUME ReqTyped, NEW s \in Slots, NEW code, NEW wrote, Answer(s, code, wrote)
  PROVE  Left(s) /\ reply' = [to |-> req[s], code |-> code, wrote |-> wrote, truths |-> truths[s]]
BY DEF ReqTyped, Answer, Left, Apart

-----------------------------------------------------------------------------
(* What a request has come to, and what is known to have held meanwhile.   *)

Stage(op, by, at, saw, wrote, known) ==
  /\ wrote => at = "again" /\ op \in {"putPolicy", "updateProvider", "rotateKey"}
  /\ op \in Views =>
       /\ at # "ws" => "workspace_seen" \in known
       /\ at = "member" => by \notin Admins
       /\ at \notin {"ws", "member"} => "member_seen" \in known
  /\ op \in ListOps /\ at = "again" => saw \in SUBSET (Users \X Workspaces)

StageOf(f, known) == Stage(f.op, f.by, f.at, f.saw, f.wrote, known)

Known ==
  \A s \in Slots : req[s] # None => TrueOf(req[s]) \subseteq truths[s] /\ StageOf(req[s], truths[s])

(* What is claimed by each code. *)
LEMMA Claims ==
  ASSUME NEW f
  PROVE  /\ ~ Live(f.ws) /\ f.ws # None => Claim(f, "workspace_not_found")
         /\ f.ws # None /\ f.op \in Views /\ f.by \notin Admins /\ <<f.by, f.ws>> \notin members
              => Claim(f, "workspace_not_found")
         /\ f.user \notin registered => Claim(f, "user_not_found")
         /\ f.user \in registered => Claim(f, "username_taken")
         /\ <<f.user, f.ws>> \in members => Claim(f, "member_exists")
         /\ <<f.user, f.ws>> \notin members => Claim(f, "member_not_found")
         /\ SlugTaken(f.ws, f.item) => Claim(f, "slug_taken")
         /\ f.op = "detach" /\ <<f.ws, f.item>> \notin attached => Claim(f, "template_not_found")
         /\ f.op # "detach" /\ templates[f.item] # "there" => Claim(f, "template_not_found")
         /\ <<f.ws, f.item>> \in attached => Claim(f, "template_attached")
         /\ (\E x \in attached : x[2] = f.item) => Claim(f, "template_in_use")
         /\ ~ Exists(f.item) => Claim(f, "provider_not_found")
         /\ Binds(f.item) => Claim(f, "provider_in_use")
         /\ Namesakes(f.body.alias) \ {f.item} # {} => Claim(f, "duplicate_name")
         /\ Live(f.ws) => Claim(f, "workspace_seen")
         /\ f.saw # None /\ ~ (f.saw \subseteq Visible(f)) => Claim(f, "seen_torn")
         /\ f.by \in Admins \/ <<f.by, f.ws>> \in members => Claim(f, "member_seen")
BY DEF Claim

(* Codes that claim nothing, and those that a reader's route claims. *)
LEMMA Codes ==
  ASSUME NEW op
  PROVE  /\ \A code \in {"done", "failed", "seen", "checked", "role_required"} : code \notin CodesOf(op)
         /\ op \in Views => {"workspace_seen", "member_seen"} \subseteq CodesOf(op)
BY DEF CodesOf, Views

StepOk(s) ==
  /\ RepliesAreTrue' /\ RefusedChangesNothing'
  /\ \/ Left(s)
     \/ Apart(s) /\ req'[s] # None /\ Same(req[s], req'[s]) /\ StageOf(req'[s], truths[s])

(* A request that goes on. *)
LEMMA GoesOn ==
  ASSUME NEW s \in Slots, NEW at, NEW saw, NEW wrote, Moved(s, at, saw, wrote), reply' = None,
         Stage(req[s].op, req[s].by, at, saw, wrote, truths[s])
  PROVE  StepOk(s)
BY DEF StepOk, Moved, StageOf, Same, RepliesAreTrue, RefusedChangesNothing

(* A request that is answered. *)
LEMMA IsAnswered ==
  ASSUME ReqTyped, Known, NEW s \in Slots, req[s] # None, NEW code, NEW wrote, Answer(s, code, wrote),
         code \in CodesOf(req[s].op) => Claim(req[s], code),
         code = "seen" => req[s].at \in {"read", "again"},
         wrote => code = "done" \/ (code = "failed" /\ req[s].at = "again")
  PROVE  StepOk(s)
<1>1. Left(s) /\ reply' = [to |-> req[s], code |-> code, wrote |-> wrote, truths |-> truths[s]]
  BY Answers
<1>2. code \in CodesOf(req[s].op) => code \in truths[s]
  BY DEF Known, TrueOf
<1>3. code = "seen" /\ req[s].op \in Views => {"workspace_seen", "member_seen"} \subseteq truths[s]
  BY DEF Known, StageOf, Stage
<1>4. RepliesAreTrue'
  BY <1>1, <1>2, <1>3 DEF RepliesAreTrue
<1>5. RefusedChangesNothing'
  BY <1>1 DEF RefusedChangesNothing
<1> QED BY <1>1, <1>4, <1>5 DEF StepOk

(* A refusal, and the end of a handler that wrote. *)
LEMMA Refusals ==
  ASSUME ReqTyped, Known, NEW s \in Slots, req[s] # None
  PROVE  /\ \A code : /\ Refuse(s, code)
                      /\ code \in CodesOf(req[s].op) => Claim(req[s], code)
                      /\ code = "seen" => req[s].at \in {"read", "again"}
                      /\ code = "failed" \/ req[s].at # "again" \/ req[s].op \in ListOps
                      => StepOk(s)
         /\ Succeed(s, "done") => StepOk(s)
         /\ Refuse(s, "failed") => StepOk(s)
<1>1. req[s].wrote => req[s].at = "again" /\ req[s].op \in {"putPolicy", "updateProvider", "rotateKey"}
  BY DEF Known, StageOf, Stage
<1>2. ASSUME NEW code, Refuse(s, code), code \in CodesOf(req[s].op) => Claim(req[s], code),
             code = "seen" => req[s].at \in {"read", "again"},
             code = "failed" \/ req[s].at # "again" \/ req[s].op \in ListOps
      PROVE  StepOk(s)
  BY <1>1, <1>2, IsAnswered DEF Refuse, ListOps
<1>3. Succeed(s, "done") => StepOk(s)
  BY Codes, IsAnswered DEF Succeed
<1>4. Refuse(s, "failed") => StepOk(s)
  BY <1>2, Codes
<1> QED BY <1>2, <1>3, <1>4

(* Outside of the readers' routes a request simply goes on. *)
LEMMA Proceeds ==
  ASSUME ReqTyped, Known, NEW s \in Slots, req[s] # None, req[s].at # "again", NEW at \in Places,
         req[s].op \notin Views, at = "again" => req[s].op \notin ListOps, reply' = None
  PROVE  /\ Await(s, at) => StepOk(s)
         /\ \A saw \in Looks :
              req' = [req EXCEPT ![s].at = at, ![s].saw = saw] => StepOk(s)
         /\ AwaitWritten(s, "again") /\ req[s].op \in {"putPolicy", "updateProvider", "rotateKey"}
              => StepOk(s)
<1>1. ~ req[s].wrote
  BY DEF Known, StageOf, Stage
<1>2. req[s].wrote \in BOOLEAN /\ req[s].wrote = FALSE
  BY <1>1, FrameFacts DEF ReqTyped
<1>3. \A saw : Stage(req[s].op, req[s].by, at, saw, FALSE, truths[s])
  BY DEF Stage
<1>4. req[s].op \in {"putPolicy", "updateProvider", "rotateKey"}
        => Stage(req[s].op, req[s].by, "again", req[s].saw, TRUE, truths[s])
  BY DEF Stage, Views, ListOps
<1>5. "again" \in Places
  BY DEF Places
<1>6. Await(s, at) => StepOk(s)
  BY <1>2, <1>3, Awaits, GoesOn
<1>7. ASSUME NEW saw \in Looks, req' = [req EXCEPT ![s].at = at, ![s].saw = saw] PROVE StepOk(s)
  <2>1. Moved(s, at, saw, req[s].wrote)
    BY <1>7, Awaits
  <2> QED BY <1>2, <1>3, <2>1, GoesOn
<1>8. AwaitWritten(s, "again") /\ req[s].op \in {"putPolicy", "updateProvider", "rotateKey"} => StepOk(s)
  BY <1>4, <1>5, Awaits, GoesOn
<1> QED BY <1>6, <1>7, <1>8

(* The members' routes. *)
LEMMA MembersOk ==
  ASSUME ReqTyped, Known, NEW s \in Slots, MemberStep(s) \/ MemberFails(s)
  PROVE  StepOk(s)
<1>0. req[s] # None /\ req[s].op \in MemberOps
  BY DEF MemberStep, MemberFails, MemberWorkspace, UserExists, Join, SeeSeat, Leave, ClearSnapshot,
         ClearRows, Grant, Handling, Awaiting, MemberOps
<1>1. /\ req[s].op \notin Views /\ req[s].op \notin ListOps
      /\ req[s].ws \in Workspaces /\ req[s].ws # None
  BY <1>0, FrameFacts, AdminDbAssumption DEF ReqTyped, Meant, MemberOps, Views, ListOps
<1>2. \A code : Rollback(s, code) => Refuse(s, code)
  BY DEF Rollback
<1>3. ASSUME NEW at \in Places, Await(s, at), reply' = None, req[s].at # "again" PROVE StepOk(s)
  BY <1>0, <1>1, <1>3, Proceeds
<1>4. ASSUME NEW code, Refuse(s, code), Claim(req[s], code), code # "seen", req[s].at # "again" PROVE StepOk(s)
  BY <1>0, <1>4, Refusals
<1>5. Seat(s) = <<req[s].user, req[s].ws>>
  BY DEF Seat
<1> USE DEF Handling, Awaiting, Places
<1>6. CASE MemberWorkspace(s)
  <2>1. CASE Live(req[s].ws)
    BY <1>3, <1>6, <2>1 DEF MemberWorkspace, MemberOps
  <2>2. CASE ~ Live(req[s].ws)
    BY <1>1, <1>4, <1>6, <2>2, Claims DEF MemberWorkspace
  <2> QED BY <2>1, <2>2
<1>7. CASE UserExists(s)
  BY <1>3, <1>4, <1>7, Claims DEF UserExists
<1>8. CASE Join(s)
  BY <1>2, <1>3, <1>4, <1>5, <1>8, Claims DEF Join
<1>9. CASE SeeSeat(s)
  BY <1>2, <1>3, <1>4, <1>5, <1>9, Claims DEF SeeSeat
<1>10. CASE Leave(s)
  BY <1>2, <1>3, <1>4, <1>5, <1>10, Claims DEF Leave
<1>11. CASE ClearSnapshot(s)
  BY <1>3, <1>11 DEF ClearSnapshot
<1>12. CASE ClearRows(s)
  BY <1>0, <1>3, <1>12, Refusals DEF ClearRows, Commit
<1>13. CASE Grant(s)
  BY <1>0, <1>2, <1>13, Refusals DEF Grant, Commit
<1>14. CASE MemberFails(s)
  BY <1>0, <1>2, <1>14, Refusals DEF MemberFails
<1> QED BY <1>6, <1>7, <1>8, <1>9, <1>10, <1>11, <1>12, <1>13, <1>14 DEF MemberStep

MembersTyped == members \subseteq Users \X Workspaces

(* What the first query of a list shows. *)
LEMMA VisibleFacts ==
  ASSUME NEW f \in AllFrames, f.op \in ListOps, MembersTyped
  PROVE  /\ Visible(f) \in SUBSET (Users \X Workspaces)
         /\ f.op = "listWorkspaces" => IsFiniteSet(Visible(f))
         /\ f.op # "listWorkspaces" => Visible(f) \subseteq members
<1>1. f.by \in Users
  BY FrameFacts DEF Meant, ListOps
<1>2. Visible(f) \in SUBSET (Users \X Workspaces)
  <2>1. CASE f.op = "listWorkspaces" /\ f.by \in Admins
    <3>1. Visible(f) = {<<f.by, w>> : w \in {v \in Workspaces : Live(v)}}
      BY <2>1 DEF Visible
    <3> QED BY <1>1, <3>1
  <2>2. CASE ~ (f.op = "listWorkspaces" /\ f.by \in Admins)
    <3>1. Visible(f) \subseteq members
      BY <2>2 DEF Visible
    <3> QED BY <3>1 DEF MembersTyped
  <2> QED BY <2>1, <2>2
<1>3. f.op # "listWorkspaces" => Visible(f) \subseteq members
  BY DEF Visible
<1>4. ASSUME f.op = "listWorkspaces" PROVE IsFiniteSet(Visible(f))
  <2> DEFINE Own == {<<f.by, w>> : w \in Workspaces}
             own == [w \in Workspaces |-> <<f.by, w>>]
  <2>1. IsFiniteSet(Own)
    <3>1. own \in Surjection(Workspaces, Own)
      BY DEF Surjection
    <3> QED BY <3>1, AdminDbAssumption, FS_Surjection
  <2>2. Visible(f) \subseteq Own
    BY <1>4 DEF Visible, MembersTyped
  <2> QED BY <2>1, <2>2, FS_Subset
<1> QED BY <1>2, <1>3, <1>4

(* The users' routes and those of one statement. *)
LEMMA DirectOk ==
  ASSUME ReqTyped, Known, NEW s \in Slots,
         \/ Register(s) \/ CreateWorkspace(s) \/ PatchWorkspace(s) \/ DeleteWorkspace(s)
         \/ CreateTemplate(s) \/ UpdateTemplate(s) \/ DeleteTemplate(s)
  PROVE  StepOk(s)
<1>0. /\ req[s] # None /\ req[s].op \in DirectOps /\ req[s].at = "write"
      /\ req[s].op \in {"patchWorkspace", "deleteWorkspace"} => req[s].ws \in Workspaces /\ req[s].ws # None
      /\ req[s].op = "createWorkspace" => req[s].ws = None
  <2>1. req[s] # None /\ req[s].op \in DirectOps /\ req[s].at = "write"
    BY DEF Register, CreateWorkspace, PatchWorkspace, DeleteWorkspace, CreateTemplate, UpdateTemplate,
           DeleteTemplate, Handling, Awaiting, DirectOps
  <2> QED BY <2>1, FrameFacts, AdminDbAssumption DEF ReqTyped, Meant
<1>1. ASSUME NEW code, Refuse(s, code), Claim(req[s], code), code # "seen" PROVE StepOk(s)
  BY <1>0, <1>1, Refusals
<1>2. Succeed(s, "done") => StepOk(s)
  BY <1>0, Refusals
<1> USE DEF Handling, Awaiting
<1>3. CASE Register(s)
  BY <1>1, <1>2, <1>3, Claims DEF Register
<1>4. CASE CreateWorkspace(s)
  BY <1>0, <1>1, <1>2, <1>4, Claims DEF CreateWorkspace
<1>5. CASE PatchWorkspace(s)
  <2>1. CASE ~ Live(req[s].ws)
    BY <1>0, <1>1, <1>5, <2>1, Claims DEF PatchWorkspace
  <2>2. CASE Live(req[s].ws) /\ req[s].item # None /\ SlugTaken(req[s].ws, req[s].item)
    BY <1>1, <1>5, <2>2, Claims DEF PatchWorkspace
  <2>3. CASE Live(req[s].ws) /\ ~ (req[s].item # None /\ SlugTaken(req[s].ws, req[s].item))
    BY <1>2, <1>5, <2>3 DEF PatchWorkspace
  <2> QED BY <2>1, <2>2, <2>3
<1>6. CASE DeleteWorkspace(s)
  BY <1>0, <1>1, <1>2, <1>6, Claims DEF DeleteWorkspace
<1>7. CASE CreateTemplate(s)
  BY <1>2, <1>7 DEF CreateTemplate
<1>8. CASE UpdateTemplate(s)
  BY <1>1, <1>2, <1>8, Claims DEF UpdateTemplate
<1>9. CASE DeleteTemplate(s)
  <2>1. CASE templates[req[s].item] # "there"
    BY <1>1, <1>9, <2>1, Claims DEF DeleteTemplate
  <2>2. CASE templates[req[s].item] = "there" /\ \E x \in attached : x[2] = req[s].item
    BY <1>1, <1>9, <2>2, Claims DEF DeleteTemplate
  <2>3. CASE templates[req[s].item] = "there" /\ ~ \E x \in attached : x[2] = req[s].item
    BY <1>2, <1>9, <2>3 DEF DeleteTemplate
  <2> QED BY <2>1, <2>2, <2>3
<1> QED BY <1>3, <1>4, <1>5, <1>6, <1>7, <1>8, <1>9

(* The readers' routes. *)
LEMMA ReadersOk ==
  ASSUME ReqTyped, Known, MembersTyped, MembersHaveRoles, NEW s \in Slots, req[s] # None,
         req[s].op \in Views \cup ListOps,
         FindWorkspace(s) \/ SeeMember(s) \/ View(s) \/ ListFirst(s) \/ ListSecond(s)
  PROVE  StepOk(s)
<1> DEFINE f == req[s]
<1>0. /\ f \in AllFrames /\ TrueOf(f) \subseteq truths[s] /\ StageOf(f, truths[s])
      /\ ~ f.wrote /\ f.wrote = FALSE
      /\ f.op \in WorkspaceOps => f.ws # None
  <2>1. f \in AllFrames /\ TrueOf(f) \subseteq truths[s] /\ StageOf(f, truths[s])
    BY DEF ReqTyped, Known
  <2>2. f.wrote \in BOOLEAN /\ Meant(f)
    BY <2>1, FrameFacts
  <2>3. ~ f.wrote
    BY <2>1 DEF StageOf, Stage, Views, ListOps
  <2>4. f.op \in WorkspaceOps => f.ws # None
    BY <2>2, AdminDbAssumption DEF Meant
  <2> QED BY <2>1, <2>2, <2>3, <2>4
<1>1. ASSUME NEW code, Refuse(s, code), code \in CodesOf(f.op) => Claim(f, code),
             code = "seen" => f.at \in {"read", "again"}, f.at # "again" \/ f.op \in ListOps
      PROVE  StepOk(s)
  BY <1>1, Refusals
<1>2. ASSUME NEW at \in Places, Await(s, at), reply' = None,
             Stage(f.op, f.by, at, f.saw, FALSE, truths[s])
      PROVE  StepOk(s)
  BY <1>0, <1>2, Awaits, GoesOn
<1> HIDE DEF f
<1> USE DEF Handling, Awaiting, Places
<1>3. CASE FindWorkspace(s)
  <2>1. f.at = "ws" /\ f.op \in Views
    BY <1>3 DEF FindWorkspace, WorkspaceOps, Views, ListOps, f
  <2>2. CASE Live(f.ws)
    <3>1. "workspace_seen" \in truths[s] /\ (f.by \in Admins => "member_seen" \in truths[s])
      BY <1>0, <2>1, <2>2, Claims, Codes DEF TrueOf
    <3>2. reply' = None /\ Await(s, IF f.by \in Admins THEN "read" ELSE "member")
      BY <1>3, <2>1, <2>2 DEF FindWorkspace, Views, f
    <3>3. Stage(f.op, f.by, IF f.by \in Admins THEN "read" ELSE "member", f.saw, FALSE, truths[s])
      BY <3>1 DEF Stage
    <3> QED BY <1>2, <3>2, <3>3
  <2>3. CASE ~ Live(f.ws)
    <3>1. Refuse(s, "workspace_not_found") /\ f.ws # None
      BY <1>0, <1>3, <2>3 DEF FindWorkspace, f
    <3> QED BY <1>1, <2>1, <2>3, <3>1, Claims
  <2> QED BY <2>2, <2>3
<1>4. CASE SeeMember(s)
  <2>1. f.at = "member" /\ f.op \in Views
    BY <1>4 DEF SeeMember, f
  <2>2. f.by \notin Admins /\ "workspace_seen" \in truths[s]
    BY <1>0, <2>1 DEF StageOf, Stage
  <2>3. CASE <<f.by, f.ws>> \in members
    <3>1. "member_seen" \in truths[s]
      BY <1>0, <2>1, <2>3, Claims, Codes DEF TrueOf
    <3>2. Stage(f.op, f.by, "read", f.saw, FALSE, truths[s])
      BY <2>2, <3>1 DEF Stage
    <3> QED BY <1>2, <1>4, <2>3, <3>2 DEF SeeMember, f
  <2>4. CASE <<f.by, f.ws>> \notin members
    <3>1. Refuse(s, "workspace_not_found") /\ f.ws # None
      BY <1>0, <1>4, <2>1, <2>4 DEF SeeMember, f, Views, WorkspaceOps
    <3> QED BY <1>1, <2>1, <2>2, <2>4, <3>1, Claims
  <2> QED BY <2>3, <2>4
<1>5. CASE View(s)
  BY <1>1, <1>5, Codes DEF View, f
<1>6. CASE ListFirst(s)
  <2>1. f.at = "read" /\ f.op \in ListOps
    BY <1>6 DEF ListFirst, f
  <2>2. CASE Visible(f) = {}
    BY <1>1, <1>6, <2>1, <2>2, Codes DEF ListFirst, f
  <2>3. CASE Visible(f) # {}
    <3>1. Visible(f) \in Looks /\ Visible(f) \in SUBSET (Users \X Workspaces)
      BY <1>0, <2>1, VisibleFacts DEF Looks
    <3>2. req' = [req EXCEPT ![s].saw = Visible(f), ![s].at = "again"] /\ reply' = None
      BY <1>6, <2>3 DEF ListFirst, f
    <3>3. Moved(s, "again", Visible(f), f.wrote)
      BY <3>1, <3>2, Awaits DEF f
    <3>4. Stage(f.op, f.by, "again", Visible(f), FALSE, truths[s])
      BY <1>0, <2>1, <3>1 DEF StageOf, Stage
    <3> QED BY <1>0, <3>2, <3>3, <3>4, GoesOn DEF f
  <2> QED BY <2>2, <2>3
<1>7. CASE ListSecond(s)
  <2> DEFINE torn == IF f.op = "listWorkspaces"
                       THEN Cardinality(Visible(f)) < Cardinality(f.saw)
                       ELSE \E m \in f.saw : ~ \E r \in Roles : <<m[1], m[2], r>> \in roles
  <2>1. f.at = "again" /\ f.op \in ListOps /\ Refuse(s, IF torn THEN "seen_torn" ELSE "seen")
    BY <1>7 DEF ListSecond, f
  <2>2. f.saw \in SUBSET (Users \X Workspaces) /\ f.saw # None
    BY <1>0, <2>1, AdminDbAssumption DEF StageOf, Stage
  <2>3. torn => ~ (f.saw \subseteq Visible(f))
    <3>1. CASE f.op = "listWorkspaces"
      <4>1. IsFiniteSet(Visible(f))
        BY <1>0, <2>1, <3>1, VisibleFacts
      <4>2. f.saw \subseteq Visible(f) => Cardinality(f.saw) =< Cardinality(Visible(f))
                                         /\ Cardinality(f.saw) \in Nat
        BY <4>1, FS_Subset, FS_CardinalityType
      <4>3. Cardinality(Visible(f)) \in Nat
        BY <4>1, FS_CardinalityType
      <4> QED BY <3>1, <4>2, <4>3
    <3>2. CASE f.op # "listWorkspaces"
      BY <1>0, <2>1, <3>2, VisibleFacts DEF MembersHaveRoles
    <3> QED BY <3>1, <3>2
  <2> HIDE DEF torn
  <2>4. CASE torn
    BY <1>1, <2>1, <2>2, <2>3, <2>4, Claims
  <2>5. CASE ~ torn
    BY <1>1, <2>1, <2>5, Codes
  <2> QED BY <2>4, <2>5
<1> QED BY <1>3, <1>4, <1>5, <1>6, <1>7

(* The nested routes that write. *)
LEMMA NestedOk ==
  ASSUME ReqTyped, Known, NEW s \in Slots, req[s] # None, req[s].op \notin Views \cup ListOps,
         \/ FindWorkspace(s) \/ SeeItem(s) \/ Attach(s) \/ Detach(s) \/ Toggle(s) \/ PutPolicy(s)
         \/ ReadPolicy(s)
  PROVE  StepOk(s)
<1> DEFINE f == req[s]
<1>0. f.op \in {"attach", "detach", "toggle", "putPolicy"} /\ f.ws # None
  <2>1. f.op \in {"attach", "detach", "toggle", "putPolicy"}
    BY DEF FindWorkspace, SeeItem, Attach, Detach, Toggle, PutPolicy, ReadPolicy, Handling, Awaiting,
           WorkspaceOps, Views
  <2> QED BY <2>1, FrameFacts, AdminDbAssumption DEF ReqTyped, Meant, WorkspaceOps
<1>1. ASSUME NEW at \in Places, Await(s, at), reply' = None, f.at # "again" PROVE StepOk(s)
  BY <1>0, <1>1, Proceeds DEF ListOps
<1>2. ASSUME NEW code, Refuse(s, code), Claim(f, code), code # "seen", f.at # "again" PROVE StepOk(s)
  BY <1>2, Refusals
<1>3. Refuse(s, "failed") => StepOk(s)
  BY Refusals
<1>4. Succeed(s, "done") => StepOk(s)
  BY Refusals
<1> HIDE DEF f
<1> USE DEF Handling, Awaiting, Places
<1>5. CASE FindWorkspace(s)
  <2>1. f.at = "ws"
    BY <1>5 DEF FindWorkspace, f
  <2>2. CASE Live(f.ws)
    <3>1. Await(s, IF f.op \in {"attach", "toggle"} THEN "exists" ELSE "write") /\ reply' = None
      BY <1>0, <1>5, <2>2 DEF FindWorkspace, Views, f
    <3> QED BY <1>1, <2>1, <3>1
  <2>3. CASE ~ Live(f.ws)
    <3>1. Refuse(s, "workspace_not_found")
      BY <1>5, <2>3 DEF FindWorkspace, f
    <3> QED BY <1>0, <1>2, <2>1, <2>3, <3>1, Claims
  <2> QED BY <2>2, <2>3
<1>6. CASE SeeItem(s)
  <2>1. f.at = "exists" /\ f.op \in {"attach", "toggle"}
    BY <1>6 DEF SeeItem, f
  <2>2. CASE f.op = "attach"
    <3>1. CASE templates[f.item] = "there"
      BY <1>1, <1>6, <2>1, <2>2, <3>1 DEF SeeItem, f
    <3>2. CASE templates[f.item] # "there"
      BY <1>2, <1>6, <2>1, <2>2, <3>2, Claims DEF SeeItem, f
    <3> QED BY <3>1, <3>2
  <2>3. CASE f.op # "attach"
    <3>1. CASE Exists(f.item)
      BY <1>1, <1>6, <2>1, <2>3, <3>1 DEF SeeItem, f
    <3>2. CASE ~ Exists(f.item)
      BY <1>2, <1>6, <2>1, <2>3, <3>2, Claims DEF SeeItem, f
    <3> QED BY <3>1, <3>2
  <2> QED BY <2>2, <2>3
<1>7. CASE Attach(s)
  <2>1. f.at = "write"
    BY <1>7 DEF Attach, f
  <2>2. CASE <<f.ws, f.item>> \in attached
    BY <1>2, <1>7, <2>1, <2>2, Claims DEF Attach, f
  <2>3. CASE <<f.ws, f.item>> \notin attached
    BY <1>3, <1>4, <1>7, <2>3 DEF Attach, f
  <2> QED BY <2>2, <2>3
<1>8. CASE Detach(s)
  <2>1. f.at = "write" /\ f.op = "detach"
    BY <1>8 DEF Detach, f
  <2>2. CASE <<f.ws, f.item>> \in attached
    BY <1>4, <1>8, <2>2 DEF Detach, f
  <2>3. CASE <<f.ws, f.item>> \notin attached
    BY <1>2, <1>8, <2>1, <2>3, Claims DEF Detach, f
  <2> QED BY <2>2, <2>3
<1>9. CASE Toggle(s)
  BY <1>3, <1>4, <1>9 DEF Toggle
<1>10. CASE PutPolicy(s)
  <2>1. f.at = "write" /\ f.op = "putPolicy" /\ AwaitWritten(s, "again") /\ reply' = None
    BY <1>10 DEF PutPolicy, f
  <2>2. f.op \notin Views /\ f.op \notin ListOps
    BY <2>1 DEF Views, ListOps
  <2> QED BY <2>1, <2>2, Proceeds DEF f
<1>11. CASE ReadPolicy(s)
  BY <1>4, <1>11 DEF ReadPolicy
<1> QED BY <1>5, <1>6, <1>7, <1>8, <1>9, <1>10, <1>11

(* All of these routes. *)
LEMMA WorkspacesOk ==
  ASSUME ReqTyped, Known, MembersTyped, MembersHaveRoles, NEW s \in Slots,
         WorkspaceStep(s) \/ WorkspaceFails(s)
  PROVE  StepOk(s)
<1>1. req[s] # None
  BY DEF WorkspaceStep, WorkspaceFails, Register, CreateWorkspace, PatchWorkspace, DeleteWorkspace,
         CreateTemplate, UpdateTemplate, DeleteTemplate, FindWorkspace, SeeMember, View, ListFirst,
         ListSecond, SeeItem, Attach, Detach, Toggle, PutPolicy, ReadPolicy, Handling, Awaiting
<1>2. CASE WorkspaceFails(s)
  BY <1>1, <1>2, Refusals DEF WorkspaceFails
<1>3. CASE \/ Register(s) \/ CreateWorkspace(s) \/ PatchWorkspace(s) \/ DeleteWorkspace(s)
           \/ CreateTemplate(s) \/ UpdateTemplate(s) \/ DeleteTemplate(s)
  BY <1>3, DirectOk
<1>4. CASE SeeMember(s) \/ View(s) \/ ListFirst(s) \/ ListSecond(s)
  <2>1. req[s].op \in Views \cup ListOps
    BY <1>4 DEF SeeMember, View, ListFirst, ListSecond, Handling, Views
  <2> QED BY <1>1, <1>4, <2>1, ReadersOk
<1>5. CASE SeeItem(s) \/ Attach(s) \/ Detach(s) \/ Toggle(s) \/ PutPolicy(s) \/ ReadPolicy(s)
  <2>1. req[s].op \notin Views \cup ListOps
    BY <1>5 DEF SeeItem, Attach, Detach, Toggle, PutPolicy, ReadPolicy, Handling, Views, ListOps
  <2> QED BY <1>1, <1>5, <2>1, NestedOk
<1>6. CASE FindWorkspace(s)
  BY <1>1, <1>6, ReadersOk, NestedOk
<1> QED BY <1>2, <1>3, <1>4, <1>5, <1>6 DEF WorkspaceStep

(* The providers' routes. *)
LEMMA ProvidersOk ==
  ASSUME ReqTyped, Known, NEW s \in Slots, ProviderStep(s) \/ ProviderFails(s),
         \A p \in ProviderIds : providers[p] \in Row \cup {None, Gone}
  PROVE  StepOk(s)
<1> DEFINE f == req[s]
<1>0. f # None /\ f.op \in ProviderOps
  BY DEF ProviderStep, ProviderFails, SeeName, GetCatalog, InsertProvider, Find, SeeOtherName, UpdateProvider,
         FindAgain, DeleteProvider, Resolve, Probed, Handling, Awaiting, ProviderOps
<1>1. /\ f.op \notin Views /\ f.op \notin ListOps /\ (f.op = "addProvider" => f.item = None)
      /\ f.op \notin {"addProvider", "checkNew"} => f.item \in ProviderIds
  BY <1>0, FrameFacts DEF ReqTyped, Meant, ProviderOps, Views, ListOps
<1>2. ASSUME NEW at \in Places, Await(s, at), reply' = None, f.at # "again" PROVE StepOk(s)
  BY <1>0, <1>1, <1>2, Proceeds
<1>3. ASSUME NEW code, Refuse(s, code), Claim(f, code), code # "seen", f.at # "again" PROVE StepOk(s)
  BY <1>0, <1>3, Refusals
<1>4. \A code \in {"failed", "checked"} : Refuse(s, code) /\ (code = "checked" => f.at # "again") => StepOk(s)
  BY <1>0, Refusals, Codes
<1>5. Succeed(s, "done") => StepOk(s)
  BY <1>0, Refusals
<1> HIDE DEF f
<1> USE DEF Handling, Awaiting, Places
<1>6. CASE SeeName(s)
  <2>1. f.at = "name" /\ f.item = None
    BY <1>1, <1>6 DEF SeeName, f
  <2>2. CASE Namesakes(f.body.alias) = {}
    BY <1>2, <1>6, <2>1, <2>2 DEF SeeName, f
  <2>3. CASE Namesakes(f.body.alias) # {}
    <3>1. Namesakes(f.body.alias) \ {f.item} # {}
      BY <2>1, <2>3, ProviderAssumption DEF Namesakes, Rows
    <3> QED BY <1>3, <1>6, <2>1, <2>3, <3>1, Claims DEF SeeName, f
  <2> QED BY <2>2, <2>3
<1>7. CASE GetCatalog(s)
  BY <1>2, <1>7 DEF GetCatalog, f
<1>8. CASE InsertProvider(s)
  <2>1. f.at = "insert" /\ f.op = "addProvider"
    BY <1>8 DEF InsertProvider, f
  <2>2. CASE Clashes(None, f.body.kind, f.body.alias)
    <3>1. Namesakes(f.body.alias) \ {f.item} # {}
      <4>1. PICK q \in Rows \ {None} : providers[q].alias = f.body.alias
        BY <2>2 DEF Clashes
      <4>2. f.body.alias \in Aliases
        BY <1>0, <2>1, FrameFacts DEF ReqTyped, Meant, f
      <4>3. q \in Namesakes(f.body.alias)
        BY <4>1, <4>2, ProviderAssumption DEF Namesakes
      <4> QED BY <1>1, <2>1, <4>1, <4>3
    <3> QED BY <1>3, <1>8, <2>1, <2>2, <3>1, Claims DEF InsertProvider, f
  <2>3. CASE ~ Clashes(None, f.body.kind, f.body.alias)
    BY <1>5, <1>8, <2>3 DEF InsertProvider, f
  <2> QED BY <2>2, <2>3
<1>9. CASE Find(s)
  <2>1. f.at = "find" /\ f.op \notin {"addProvider", "checkNew"}
    BY <1>9 DEF Find, f
  <2>2. CASE Exists(f.item)
    <3>1. PICK at \in {"resolve", "name", "write"} : req' = [req EXCEPT ![s].at = at, ![s].saw = providers[f.item]]
      BY <1>9, <2>2 DEF Find, f
    <3>2. reply' = None /\ providers[f.item] \in Looks
      BY <1>1, <1>9, <2>1, <2>2 DEF Find, Exists, Looks, f
    <3>3. at \in Places /\ at # "again" /\ f.at # "again"
      BY <2>1, <3>1
    <3>4. /\ req[s] # None /\ req[s].at # "again" /\ req[s].op \notin Views
          /\ at = "again" => req[s].op \notin ListOps
      BY <1>0, <1>1, <3>3 DEF f
    <3> QED BY <3>1, <3>2, <3>3, <3>4, Proceeds, Zenon
  <2>3. CASE ~ Exists(f.item)
    BY <1>3, <1>9, <2>1, <2>3, Claims DEF Find, f
  <2> QED BY <2>2, <2>3
<1>10. CASE SeeOtherName(s)
  BY <1>2, <1>3, <1>10, Claims DEF SeeOtherName, f
<1>11. CASE UpdateProvider(s)
  <2>1. f.at = "write" /\ f.op \in {"updateProvider", "rotateKey"}
    BY <1>11 DEF UpdateProvider, f
  <2>2. CASE ~ Exists(f.item)
    BY <1>4, <1>11, <2>2 DEF UpdateProvider, f
  <2>3. CASE Exists(f.item) /\ f.body.alias # None /\ Clashes(f.item, providers[f.item].kind, f.body.alias)
    <3>1. Refuse(s, "duplicate_name")
      BY <1>11, <2>3 DEF UpdateProvider, f
    <3>2. Namesakes(f.body.alias) \ {f.item} # {}
      <4>1. PICK q \in Rows \ {f.item} : providers[q].alias = f.body.alias
        BY <2>3 DEF Clashes
      <4>2. f.body.alias \in Aliases
        BY <1>0, <2>1, <2>3, FrameFacts DEF ReqTyped, Meant, f
      <4> QED BY <4>1, <4>2, ProviderAssumption DEF Namesakes
    <3> QED BY <1>3, <2>1, <3>1, <3>2, Claims
  <2>4. CASE Exists(f.item) /\ ~ (f.body.alias # None /\ Clashes(f.item, providers[f.item].kind, f.body.alias))
    <3>1. AwaitWritten(s, "again") /\ reply' = None
      BY <1>11, <2>4 DEF UpdateProvider, f
    <3> QED BY <1>0, <1>1, <2>1, <3>1, Proceeds DEF f
  <2> QED BY <2>2, <2>3, <2>4
<1>12. CASE FindAgain(s)
  BY <1>4, <1>5, <1>12 DEF FindAgain
<1>13. CASE DeleteProvider(s)
  <2>1. f.at = "write"
    BY <1>13 DEF DeleteProvider, f
  <2>2. CASE ~ Exists(f.item)
    BY <1>4, <1>13, <2>2 DEF DeleteProvider, f
  <2>3. CASE Exists(f.item) /\ Binds(f.item)
    BY <1>3, <1>13, <2>1, <2>3, Claims DEF DeleteProvider, f
  <2>4. CASE Exists(f.item) /\ ~ Binds(f.item)
    BY <1>5, <1>13, <2>4 DEF DeleteProvider, f
  <2> QED BY <2>2, <2>3, <2>4
<1>14. CASE Resolve(s)
  <2>1. f.at = "resolve"
    BY <1>14 DEF Resolve, f
  <2>2. Refuse(s, "checked") \/ (Await(s, "probed") /\ reply' = None)
    BY <1>14 DEF Resolve
  <2>3. CASE Refuse(s, "checked")
    BY <1>4, <2>1, <2>3
  <2>4. CASE Await(s, "probed") /\ reply' = None
    BY <1>2, <2>1, <2>4
  <2> QED BY <2>2, <2>3, <2>4
<1>15. CASE Probed(s)
  BY <1>4, <1>15 DEF Probed, f
<1>16. CASE ProviderFails(s)
  BY <1>4, <1>16 DEF ProviderFails
<1> QED BY <1>6, <1>7, <1>8, <1>9, <1>10, <1>11, <1>12, <1>13, <1>14, <1>15, <1>16 DEF ProviderStep

-----------------------------------------------------------------------------
(* The transactions over memberships.                                      *)

Theirs(f) == {x \in Users \X Workspaces \X Roles : x[1] = f.user /\ x[2] = f.ws}

(* What a transaction has locked or deleted belongs to its own seat, and   *)
(* before it has begun there is nothing.                                   *)
SeatOk(f, locked, wanted, deleted) ==
  /\ f # None => locked \subseteq {<<f.user, f.ws>>} /\ wanted \subseteq Theirs(f) /\ deleted \subseteq Theirs(f)
  /\ f = None \/ f.op \notin MemberOps \/ f.at \in {"ws", "user"}
       => locked = {} /\ wanted = {} /\ deleted = {}

Seats ==
  /\ lock \in [Slots -> SUBSET (Users \X Workspaces)]
  /\ want \in [Slots -> SUBSET (Users \X Workspaces \X Roles)]
  /\ cut \in [Slots -> SUBSET (Users \X Workspaces \X Roles)]
  /\ \A s \in Slots : SeatOk(req[s], lock[s], want[s], cut[s])

RolesTyped == roles \subseteq Users \X Workspaces \X Roles

Membership == Seats /\ MembersTyped /\ RolesTyped /\ MembersHaveRoles

(* A step that is none of a member's route. *)
LEMMA OthersKeepSeats ==
  ASSUME Membership, UNCHANGED <<memberVars, members, roles>>, NEW s \in Slots,
         req[s] = None \/ req[s].op \notin MemberOps,
         \A t \in Slots \ {s} : req'[t] = req[t]
  PROVE  Membership'
<1>1. ASSUME NEW t \in Slots PROVE SeatOk(req'[t], lock'[t], want'[t], cut'[t])
  <2>1. CASE t = s
    BY <2>1 DEF Membership, Seats, SeatOk, memberVars
  <2>2. CASE t # s
    BY <2>2 DEF Membership, Seats, memberVars
  <2> QED BY <2>1, <2>2
<1>2. Seats'
  BY <1>1 DEF Membership, Seats, memberVars
<1> QED BY <1>2 DEF Membership, MembersTyped, RolesTyped, MembersHaveRoles

(* The end of a transaction: rows of its own seat go and come. *)
LEMMA SeatEnds ==
  ASSUME Membership, NEW s \in Slots, Left(s), NEW gone, EndTxn(s, gone)
  PROVE  Seats'
<1>1. /\ lock' \in [Slots -> SUBSET (Users \X Workspaces)]
      /\ want' \in [Slots -> SUBSET (Users \X Workspaces \X Roles)]
      /\ cut' \in [Slots -> SUBSET (Users \X Workspaces \X Roles)]
  BY DEF Membership, Seats, EndTxn
<1>2. ASSUME NEW t \in Slots PROVE SeatOk(req'[t], lock'[t], want'[t], cut'[t])
  <2>1. CASE t = s
    BY <2>1 DEF Membership, Seats, EndTxn, Left, SeatOk
  <2>2. CASE t # s
    <3>1. req'[t] = req[t] /\ lock'[t] = lock[t] /\ cut'[t] = cut[t] /\ want'[t] \subseteq want[t]
      BY <2>2 DEF Membership, Seats, EndTxn, Left, Apart
    <3> QED BY <3>1 DEF Membership, Seats, SeatOk
  <2> QED BY <2>1, <2>2
<1> QED BY <1>1, <1>2 DEF Seats

(* A statement within a transaction. *)
LEMMA SeatHolds ==
  ASSUME Membership, NEW s \in Slots, Apart(s), req[s] # None, req[s].op \in MemberOps,
         req'[s] # None, Same(req[s], req'[s]), UNCHANGED <<members, roles>>,
         NEW locked \in SUBSET (Users \X Workspaces), locked \subseteq {Seat(s)},
         NEW wanted \in SUBSET Theirs(req[s]), NEW deleted \in SUBSET Theirs(req[s]),
         req'[s].at \in {"ws", "user"} => locked = {} /\ wanted = {} /\ deleted = {},
         lock' = [lock EXCEPT ![s] = locked],
         want' = [want EXCEPT ![s] = wanted],
         cut' = [cut EXCEPT ![s] = deleted]
  PROVE  Membership'
<1>1. /\ lock' \in [Slots -> SUBSET (Users \X Workspaces)]
      /\ want' \in [Slots -> SUBSET (Users \X Workspaces \X Roles)]
      /\ cut' \in [Slots -> SUBSET (Users \X Workspaces \X Roles)]
  BY DEF Membership, Seats, Theirs
<1>2. ASSUME NEW t \in Slots PROVE SeatOk(req'[t], lock'[t], want'[t], cut'[t])
  <2>1. CASE t = s
    BY <2>1 DEF Membership, Seats, SeatOk, Same, Seat, Theirs
  <2>2. CASE t # s
    BY <2>2 DEF Membership, Seats, Apart
  <2> QED BY <2>1, <2>2
<1>3. Seats'
  BY <1>1, <1>2 DEF Seats
<1> QED BY <1>3 DEF Membership, MembersTyped, RolesTyped, MembersHaveRoles

(* The statement that locks the seat. *)
LEMMA SeatLocks ==
  ASSUME Membership, NEW s \in Slots, Apart(s), req[s] # None, req[s].op \in MemberOps,
         req'[s] # None, Same(req[s], req'[s]), req'[s].at \notin {"ws", "user"},
         UNCHANGED <<members, roles, want, cut>>, Seat(s) \in Users \X Workspaces,
         lock' = [lock EXCEPT ![s] = {Seat(s)}]
  PROVE  Membership'
<1>1. lock' \in [Slots -> SUBSET (Users \X Workspaces)]
  BY DEF Membership, Seats
<1>2. ASSUME NEW t \in Slots PROVE SeatOk(req'[t], lock'[t], want'[t], cut'[t])
  <2>1. CASE t = s
    BY <2>1 DEF Membership, Seats, SeatOk, Same, Seat, Theirs
  <2>2. CASE t # s
    BY <2>2 DEF Membership, Seats, Apart
  <2> QED BY <2>1, <2>2
<1>3. Seats'
  BY <1>1, <1>2 DEF Membership, Seats
<1> QED BY <1>3 DEF Membership, MembersTyped, RolesTyped, MembersHaveRoles

(* A commit: other members keep their roles, and this one has the new.     *)
LEMMA SeatCommits ==
  ASSUME Membership, NEW s \in Slots, Left(s), req[s] # None, Seat(s) \in Users \X Workspaces,
         NEW deleted \in SUBSET Theirs(req[s]), NEW inserted \in SUBSET Granted(s), req[s].roles \subseteq Roles,
         EndTxn(s, deleted), roles' = (roles \ deleted) \cup inserted,
         \/ members' = members \ {Seat(s)}
         \/ members' = members \cup lock[s] /\ lock[s] \subseteq {Seat(s)} /\ inserted # {}
  PROVE  Membership'
<1>1. Seats'
  BY SeatEnds
<1>2. MembersTyped' /\ \A m \in members' \ {Seat(s)} : m \in members
  BY DEF Membership, MembersTyped
<1>3. inserted \subseteq Theirs(req[s]) /\ RolesTyped'
  <2>1. Granted(s) \subseteq Theirs(req[s])
    BY DEF Granted, Theirs, Seat
  <2> QED BY <2>1 DEF Membership, RolesTyped, Theirs
<1>4. ASSUME NEW m \in members' PROVE \E r \in Roles : <<m[1], m[2], r>> \in roles'
  <2>1. CASE m = Seat(s) /\ inserted # {}
    <3>1. PICK r \in req[s].roles : <<req[s].user, req[s].ws, r>> \in inserted
      BY <2>1 DEF Granted
    <3> QED BY <2>1, <3>1 DEF Seat
  <2>2. CASE m # Seat(s)
    <3>1. PICK r \in Roles : <<m[1], m[2], r>> \in roles
      BY <1>2, <2>2 DEF Membership, MembersHaveRoles
    <3>2. m \in Users \X Workspaces
      BY <1>2 DEF MembersTyped
    <3>3. m[1] # req[s].user \/ m[2] # req[s].ws
      BY <2>2, <3>2 DEF Seat
    <3>4. <<m[1], m[2], r>> \notin Theirs(req[s])
      BY <3>3 DEF Theirs
    <3> QED BY <3>1, <3>4
  <2>3. m = Seat(s) => inserted # {}
    OBVIOUS
  <2> QED BY <2>1, <2>2, <2>3
<1> QED BY <1>1, <1>2, <1>3, <1>4 DEF Membership, MembersHaveRoles

(* The members' routes. *)
LEMMA MembersKept ==
  ASSUME ReqTyped, Membership, NEW s \in Slots, MemberStep(s) \/ MemberFails(s)
  PROVE  Membership'
<1> DEFINE f == req[s]
<1>0. f # None /\ f.op \in MemberOps /\ f \in AllFrames
  BY DEF MemberStep, MemberFails, MemberWorkspace, UserExists, Join, SeeSeat, Leave, ClearSnapshot,
         ClearRows, Grant, Handling, Awaiting, MemberOps, ReqTyped
<1>1. /\ Seat(s) \in Users \X Workspaces /\ Seat(s) = <<f.user, f.ws>> /\ f.roles \subseteq Roles
      /\ f.op \in {"addMember", "replaceRoles"} => f.roles # {}
  BY <1>0, FrameFacts DEF Meant, Seat
<1>2. /\ lock[s] \in SUBSET (Users \X Workspaces) /\ lock[s] \subseteq {Seat(s)}
      /\ want[s] \in SUBSET Theirs(f) /\ cut[s] \in SUBSET Theirs(f)
      /\ f.at \in {"ws", "user"} => lock[s] = {} /\ want[s] = {} /\ cut[s] = {}
      /\ lock = [lock EXCEPT ![s] = lock[s]] /\ want = [want EXCEPT ![s] = want[s]]
      /\ cut = [cut EXCEPT ![s] = cut[s]]
  BY <1>0, <1>1 DEF Membership, Seats, SeatOk
<1>3. ASSUME NEW at \in Places, Await(s, at)
      PROVE  Apart(s) /\ req'[s] # None /\ Same(f, req'[s]) /\ req'[s].at = at
  BY <1>0, <1>3, Awaits DEF Moved
<1>4. \A code : Refuse(s, code) \/ Succeed(s, code) => Left(s)
  BY Answers DEF Refuse, Succeed
<1>5. ASSUME NEW code, Rollback(s, code) PROVE Membership'
  <2>1. Seats'
    BY <1>4, <1>5, SeatEnds DEF Rollback
  <2> QED BY <1>5, <2>1 DEF Rollback, tables, Membership, MembersTyped, RolesTyped, MembersHaveRoles
<1>6. ASSUME NEW at \in Places, Await(s, at), UNCHANGED <<tables, memberVars>>, f.at \in {"ws", "user"}
      PROVE  Membership'
  <2>1. /\ lock' = [lock EXCEPT ![s] = lock[s]] /\ want' = [want EXCEPT ![s] = want[s]]
        /\ cut' = [cut EXCEPT ![s] = cut[s]] /\ UNCHANGED <<members, roles>>
    BY <1>2, <1>6 DEF tables, memberVars
  <2>2. Apart(s) /\ req'[s] # None /\ Same(f, req'[s])
    BY <1>3, <1>6
  <2> QED BY <1>0, <1>2, <1>6, <2>1, <2>2, SeatHolds
<1>7. ASSUME NEW code, Refuse(s, code), UNCHANGED <<tables, memberVars>>, f.at \in {"ws", "user"}
      PROVE  Membership'
  <2>1. want = [t \in Slots |-> IF t = s THEN {} ELSE want[t] \ {}]
    BY <1>2, <1>7 DEF Membership, Seats
  <2>2. EndTxn(s, {})
    BY <1>2, <1>7, <2>1 DEF EndTxn, memberVars
  <2> QED BY <1>5, <1>7, <2>2 DEF Rollback
<1>8. ASSUME NEW deleted \in SUBSET Theirs(f), NEW inserted \in SUBSET Granted(s), NEW newMembers,
             Commit(s, newMembers, deleted, inserted),
             \/ newMembers = members \ {Seat(s)}
             \/ newMembers = members \cup lock[s] /\ inserted # {}
      PROVE  Membership'
  <2>1. Left(s)
    BY <1>4, <1>8 DEF Commit
  <2> QED BY <1>0, <1>1, <1>2, <1>8, <2>1, SeatCommits DEF Commit
<1> HIDE DEF f
<1> USE DEF Handling, Awaiting, Places
<1>9. CASE MemberWorkspace(s)
  <2>1. f.at = "ws" /\ UNCHANGED <<tables, memberVars>>
    BY <1>9 DEF MemberWorkspace, f
  <2>2. CASE Live(f.ws)
    BY <1>0, <1>6, <1>9, <2>1, <2>2 DEF MemberWorkspace, MemberOps, f
  <2>3. CASE ~ Live(f.ws)
    BY <1>7, <1>9, <2>1, <2>3 DEF MemberWorkspace, f
  <2> QED BY <2>2, <2>3
<1>10. CASE UserExists(s)
  <2>1. f.at = "user" /\ UNCHANGED <<tables, memberVars>>
    BY <1>10 DEF UserExists, f
  <2> QED BY <1>6, <1>7, <1>10, <2>1 DEF UserExists
<1>11. CASE Join(s)
  <2>1. CASE Seat(s) \in members
    BY <1>5, <1>11, <2>1 DEF Join
  <2>2. CASE Seat(s) \notin members
    <3>1. Await(s, "grant") /\ lock' = [lock EXCEPT ![s] = {Seat(s)}] /\ UNCHANGED <<tables, want, cut>>
      BY <1>11, <2>2 DEF Join
    <3>2. Apart(s) /\ req'[s] # None /\ Same(f, req'[s]) /\ req'[s].at \notin {"ws", "user"}
      BY <1>3, <3>1
    <3> QED BY <1>0, <1>1, <3>1, <3>2, SeatLocks DEF tables, f
  <2> QED BY <2>1, <2>2
<1>12. CASE SeeSeat(s)
  <2>1. CASE Seat(s) \in members
    <3>1. Await(s, "clear") /\ UNCHANGED <<tables, memberVars>>
      BY <1>12, <2>1 DEF SeeSeat
    <3>2. /\ lock' = [lock EXCEPT ![s] = lock[s]] /\ want' = [want EXCEPT ![s] = want[s]]
          /\ cut' = [cut EXCEPT ![s] = cut[s]] /\ UNCHANGED <<members, roles>>
      BY <1>2, <3>1 DEF tables, memberVars
    <3>3. Apart(s) /\ req'[s] # None /\ Same(f, req'[s]) /\ req'[s].at = "clear"
      BY <1>3, <3>1
    <3> QED BY <1>0, <1>2, <3>2, <3>3, SeatHolds DEF f
  <2>2. CASE Seat(s) \notin members
    BY <1>5, <1>12, <2>2 DEF SeeSeat
  <2> QED BY <2>1, <2>2
<1>13. CASE Leave(s)
  <2>1. CASE Seat(s) \in members
    <3>1. Await(s, "clear") /\ lock' = [lock EXCEPT ![s] = {Seat(s)}] /\ UNCHANGED <<tables, want, cut>>
      BY <1>13, <2>1 DEF Leave
    <3>2. Apart(s) /\ req'[s] # None /\ Same(f, req'[s]) /\ req'[s].at \notin {"ws", "user"}
      BY <1>3, <3>1
    <3> QED BY <1>0, <1>1, <3>1, <3>2, SeatLocks DEF tables, f
  <2>2. CASE Seat(s) \notin members
    BY <1>5, <1>13, <2>2 DEF Leave
  <2> QED BY <2>1, <2>2
<1>14. CASE ClearSnapshot(s)
  <2>1. RolesOf(s) \in SUBSET Theirs(f)
    BY DEF RolesOf, Theirs, Membership, RolesTyped, f
  <2>2. Await(s, "clearing") /\ want' = [want EXCEPT ![s] = RolesOf(s)] /\ UNCHANGED <<tables, lock, cut>>
    BY <1>14 DEF ClearSnapshot
  <2> QED BY <1>0, <1>2, <1>3, <2>1, <2>2, SeatHolds DEF tables, f
<1>15. CASE ClearRows(s)
  <2>1. CASE f.op = "removeMember"
    BY <1>2, <1>8, <1>15, <2>1 DEF ClearRows, f
  <2>2. CASE f.op # "removeMember"
    <3>1. /\ Await(s, "grant") /\ UNCHANGED <<tables, lock>>
          /\ cut' = [cut EXCEPT ![s] = want[s]] /\ want' = [want EXCEPT ![s] = {}]
      BY <1>15, <2>2 DEF ClearRows, f
    <3>2. {} \in SUBSET Theirs(f)
      OBVIOUS
    <3> QED BY <1>0, <1>2, <1>3, <3>1, <3>2, SeatHolds DEF tables, f
  <2> QED BY <2>1, <2>2
<1>16. CASE Grant(s)
  <2>1. CASE Rollback(s, "failed")
    BY <1>5, <2>1
  <2>2. CASE Commit(s, members \cup lock[s], cut[s], Granted(s))
    <3>1. Granted(s) # {}
      BY <1>1, <1>16 DEF Grant, Granted, f
    <3> QED BY <1>2, <1>8, <2>2, <3>1
  <2> QED BY <1>16, <2>1, <2>2 DEF Grant
<1>17. CASE MemberFails(s)
  BY <1>5, <1>17 DEF MemberFails
<1> QED BY <1>9, <1>10, <1>11, <1>12, <1>13, <1>14, <1>15, <1>16, <1>17 DEF MemberStep

-----------------------------------------------------------------------------
(* Providers: rows, keys and where they were stored.                       *)

RowsTyped == providers \in [ProviderIds -> Row \cup {None, Gone}]

(* A check that has its row has one that was stored.                       *)
SawStored(f, known) ==
  f # None /\ f.op \in {"check", "checkNew"} /\ f.at = "resolve" => f.saw = None \/ PairOf(f.saw) \in known

SentStored(probe, known) == probe # None /\ probe.stored => <<probe.key, probe.base>> \in known

Pairs ==
  /\ RowsTyped
  /\ \A p \in Rows : PairOf(providers[p]) \in pairs
  /\ \A s \in Slots : SawStored(req[s], pairs)
  /\ probes = [s \in Slots |-> probes[s]]
  /\ \A s \in Slots : SentStored(probes[s], pairs)

(* What a step of one request owes. *)
LEMMA PairsStep ==
  ASSUME Pairs, NEW s \in Slots, \A t \in Slots \ {s} : req'[t] = req[t],
         SawStored(req'[s], pairs'),
         \/ UNCHANGED <<providers, pairs>>
         \/ \E p \in ProviderIds, row \in Row :
              providers' = [providers EXCEPT ![p] = row] /\ pairs' = pairs \cup {PairOf(row)}
         \/ UNCHANGED pairs /\ \E p \in ProviderIds : providers' = [providers EXCEPT ![p] = Gone],
         NEW probe, SentStored(probe, pairs'),
         UNCHANGED probes \/ probes' = [probes EXCEPT ![s] = probe]
  PROVE  Pairs'
<1>1. pairs \subseteq pairs'
  OBVIOUS
<1>2. RowsTyped' /\ \A p \in Rows' : PairOf(providers'[p]) \in pairs'
  BY <1>1 DEF Pairs, RowsTyped, Rows, Exists
<1>3. \A t \in Slots : SawStored(req'[t], pairs')
  BY <1>1 DEF Pairs, SawStored
<1>4. probes' = [t \in Slots |-> probes'[t]] /\ \A t \in Slots : SentStored(probes'[t], pairs')
  BY <1>1 DEF Pairs, SentStored
<1>5. (\A p \in Rows : PairOf(providers[p]) \in pairs)'
  BY <1>2 DEF PairOf
<1> QED BY <1>2, <1>3, <1>4, <1>5 DEF Pairs

(* What is written is a row. *)
LEMMA Stamped ==
  ASSUME RowsTyped, NEW micros \in SUBSET Micros, NEW n \in Stamps(micros)
  PROVE  n \in [ms : Nat, us : Micros]
<1>1. \A p \in Rows : providers[p].stamp.ms \in Nat
  BY DEF RowsTyped, Rows, Exists, Row
<1> QED BY <1>1 DEF Stamps

(* The providers' routes. *)
LEMMA ProvidersKept ==
  ASSUME ReqTyped, Pairs, NEW s \in Slots, ProviderStep(s) \/ ProviderFails(s)
  PROVE  Pairs'
<1> DEFINE f == req[s]
<1>0. f # None /\ f.op \in ProviderOps /\ f \in AllFrames /\ Meant(f)
  <2>1. f # None /\ f.op \in ProviderOps
    BY DEF ProviderStep, ProviderFails, SeeName, GetCatalog, InsertProvider, Find, SeeOtherName, UpdateProvider,
           FindAgain, DeleteProvider, Resolve, Probed, Handling, Awaiting, ProviderOps
  <2> QED BY <2>1, FrameFacts DEF ReqTyped
<1>1. f.op \notin {"addProvider", "checkNew"} => f.item \in ProviderIds
  BY <1>0 DEF Meant
<1>2. ASSUME NEW at \in Places, at # "resolve", Await(s, at) \/ AwaitWritten(s, at)
      PROVE  (\A t \in Slots \ {s} : req'[t] = req[t]) /\ \A known : SawStored(req'[s], known)
  BY <1>0, <1>2, Awaits DEF Moved, Apart, SawStored
<1>3. ASSUME NEW code, Refuse(s, code) \/ Succeed(s, code)
      PROVE  (\A t \in Slots \ {s} : req'[t] = req[t]) /\ \A known : SawStored(req'[s], known)
  BY <1>0, <1>3, Answers DEF Left, Apart, SawStored, Refuse, Succeed
<1>4. \A known : SentStored(None, known)
  BY DEF SentStored
<1> HIDE DEF f
<1> USE DEF Handling, Awaiting, Places
<1>5. CASE SeeName(s) \/ SeeOtherName(s)
  <2>1. UNCHANGED <<providers, pairs, probes>>
    BY <1>5 DEF SeeName, SeeOtherName, tables, providerVars
  <2>2. (\E code : Refuse(s, code)) \/ \E at \in {"catalog", "write"} : Await(s, at)
    BY <1>5 DEF SeeName, SeeOtherName
  <2> QED BY <1>2, <1>3, <1>4, <2>1, <2>2, PairsStep
<1>6. CASE GetCatalog(s)
  <2>1. UNCHANGED <<providers, pairs, probes>> /\ Await(s, "insert")
    BY <1>6 DEF GetCatalog, tables
  <2> QED BY <1>2, <1>4, <2>1, PairsStep
<1>7. CASE InsertProvider(s)
  <2>1. f.op = "addProvider" /\ UNCHANGED probes
    BY <1>7 DEF InsertProvider, f
  <2>2. CASE Clashes(None, f.body.kind, f.body.alias)
    <3>1. UNCHANGED <<providers, pairs>> /\ Refuse(s, "duplicate_name")
      BY <1>7, <2>2 DEF InsertProvider, tables, f
    <3> QED BY <1>3, <1>4, <2>1, <3>1, PairsStep
  <2>3. CASE ~ Clashes(None, f.body.kind, f.body.alias)
    <3>1. Succeed(s, "done")
      BY <1>7, <2>3 DEF InsertProvider, f
    <3>2. PICK p \in ProviderIds, n \in Stamps(Micros) :
            Save(p, [kind |-> f.body.kind, alias |-> f.body.alias, key |-> f.body.key,
                     base |-> f.body.base, on |-> TRUE, stamp |-> n])
      BY <1>7, <2>3 DEF InsertProvider, f
    <3>3. f.body \in [kind : Kinds, alias : Aliases, key : Keys \cup {None}, base : Hosts \cup {None}]
      BY <1>0, <2>1 DEF Meant
    <3>4. [kind |-> f.body.kind, alias |-> f.body.alias, key |-> f.body.key,
           base |-> f.body.base, on |-> TRUE, stamp |-> n] \in Row
      BY <3>3, Stamped DEF Row, Pairs
    <3> QED BY <1>3, <1>4, <2>1, <3>1, <3>2, <3>4, PairsStep DEF Save
  <2> QED BY <2>2, <2>3
<1>8. CASE Find(s)
  <2>1. UNCHANGED <<providers, pairs, probes>> /\ f.op \notin {"addProvider", "checkNew"}
    BY <1>8 DEF Find, tables, providerVars, f
  <2>2. CASE Exists(f.item)
    <3>1. PICK at \in {"resolve", "name", "write"} : req' = [req EXCEPT ![s].at = at, ![s].saw = providers[f.item]]
      BY <1>8, <2>2 DEF Find, f
    <3>2. f.item \in Rows /\ providers[f.item] \in Looks
      BY <1>1, <2>1, <2>2 DEF Rows, Exists, Pairs, RowsTyped, Looks
    <3>3. Moved(s, at, providers[f.item], f.wrote)
      BY <1>0, <3>1, <3>2, Awaits DEF f
    <3>4. SawStored(req'[s], pairs')
      BY <2>1, <3>2, <3>3 DEF Moved, SawStored, Pairs
    <3> QED BY <1>4, <2>1, <3>3, <3>4, PairsStep DEF Moved, Apart
  <2>3. CASE ~ Exists(f.item)
    BY <1>3, <1>4, <1>8, <2>1, <2>3, PairsStep DEF Find, f
  <2> QED BY <2>2, <2>3
<1>9. CASE UpdateProvider(s)
  <2>1. UNCHANGED probes /\ f.op \in {"updateProvider", "rotateKey"} /\ f.item \in ProviderIds
    BY <1>1, <1>9 DEF UpdateProvider, f
  <2>2. CASE ~ Exists(f.item)
    BY <1>3, <1>4, <1>9, <2>1, <2>2, PairsStep DEF UpdateProvider, tables, f
  <2>3. CASE Exists(f.item) /\ f.body.alias # None /\ Clashes(f.item, providers[f.item].kind, f.body.alias)
    <3>1. Refuse(s, "duplicate_name") /\ UNCHANGED <<tables, pairs>>
      BY <1>9, <2>3 DEF UpdateProvider, f
    <3> QED BY <1>3, <1>4, <2>1, <3>1, PairsStep DEF tables
  <2>4. CASE Exists(f.item) /\ ~ (f.body.alias # None /\ Clashes(f.item, providers[f.item].kind, f.body.alias))
    <3>1. AwaitWritten(s, "again")
      BY <1>9, <2>4 DEF UpdateProvider, f
    <3>2. PICK n \in Stamps({0}) : Save(f.item, [Patched(providers[f.item], f.body) EXCEPT !.stamp = n])
      BY <1>9, <2>4 DEF UpdateProvider, f
    <3>3. f.body \in [alias : Aliases \cup {None}, base : Hosts \cup {None}, key : Keys \cup {None},
                      on : BOOLEAN \cup {None}]
      BY <1>0, <2>1 DEF Meant
    <3>4. providers[f.item] \in Row
      BY <2>1, <2>4 DEF Exists, Pairs, RowsTyped
    <3>5. Patched(providers[f.item], f.body) \in Row
      BY <3>3, <3>4 DEF Patched, Row
    <3>6. [Patched(providers[f.item], f.body) EXCEPT !.stamp = n] \in Row
      <4>1. n \in [ms : Nat, us : Micros]
        BY Stamped, StampAssumption DEF Pairs
      <4> QED BY <3>5, <4>1 DEF Row
    <3> QED BY <1>2, <1>4, <2>1, <3>1, <3>2, <3>6, PairsStep DEF Save
  <2> QED BY <2>2, <2>3, <2>4
<1>10. CASE FindAgain(s)
  <2>1. UNCHANGED <<providers, pairs, probes>> /\ \E code : Refuse(s, code) \/ Succeed(s, code)
    BY <1>10 DEF FindAgain, tables, providerVars
  <2> QED BY <1>3, <1>4, <2>1, PairsStep
<1>11. CASE DeleteProvider(s)
  <2>1. f.op = "deleteProvider" /\ f.item \in ProviderIds /\ UNCHANGED <<pairs, probes>>
    BY <1>1, <1>11 DEF DeleteProvider, providerVars, f
  <2>2. /\ \E code : Refuse(s, code) \/ Succeed(s, code)
        /\ UNCHANGED providers \/ providers' = [providers EXCEPT ![f.item] = Gone]
    BY <1>11 DEF DeleteProvider, tables, f
  <2> QED BY <1>3, <1>4, <2>1, <2>2, PairsStep
<1>12. CASE Resolve(s)
  <2> DEFINE target == CheckTarget(f.saw, f.body)
  <2>1. UNCHANGED <<providers, pairs>> /\ f.at = "resolve" /\ f.op \in {"check", "checkNew"}
    BY <1>12 DEF Resolve, tables, f
  <2>2. SentStored(target, pairs)
    BY <1>0, <2>1 DEF Pairs, SawStored, SentStored, CheckTarget, PairOf, f
  <2>3. \/ probes' = [probes EXCEPT ![s] = target] /\ Await(s, "probed")
        \/ Refuse(s, "checked") /\ UNCHANGED probes
    BY <1>12 DEF Resolve, f
  <2> HIDE DEF target
  <2>4. CASE probes' = [probes EXCEPT ![s] = target] /\ Await(s, "probed")
    BY <1>2, <2>1, <2>2, <2>4, PairsStep
  <2>5. CASE Refuse(s, "checked") /\ UNCHANGED probes
    BY <1>3, <1>4, <2>1, <2>5, PairsStep
  <2> QED BY <2>3, <2>4, <2>5
<1>13. CASE Probed(s)
  <2>1. UNCHANGED <<providers, pairs>> /\ probes' = [probes EXCEPT ![s] = None] /\ Refuse(s, "checked")
    BY <1>13 DEF Probed, tables
  <2> QED BY <1>3, <1>4, <2>1, PairsStep
<1>14. CASE ProviderFails(s)
  <2>1. UNCHANGED <<providers, pairs, probes>> /\ Refuse(s, "failed")
    BY <1>14 DEF ProviderFails, tables
  <2> QED BY <1>3, <1>4, <2>1, PairsStep
<1> QED BY <1>5, <1>6, <1>7, <1>8, <1>9, <1>10, <1>11, <1>12, <1>13, <1>14 DEF ProviderStep

-----------------------------------------------------------------------------
(* The server.                                                             *)

AdminInv ==
  /\ ReqTyped /\ Known /\ Membership /\ Pairs
  /\ RepliesAreTrue /\ RefusedChangesNothing

(* What a step of any kind leaves of the requests.                         *)
Requests(s) ==
  /\ RepliesAreTrue' /\ RefusedChangesNothing' /\ Apart(s)
  /\ req'[s] # None => StageOf(req'[s], truths[s])

(* What a frame rests on stays known as its request learns more. *)
LEMMA StageGrows ==
  ASSUME NEW op, NEW by, NEW at, NEW saw, NEW wrote, NEW known, NEW more, known \subseteq more,
         Stage(op, by, at, saw, wrote, known)
  PROVE  Stage(op, by, at, saw, wrote, more)
BY DEF Stage

(* Remember adds to what is known of the requests that go on.              *)
LEMMA KnownKept ==
  ASSUME ReqTyped, Known, NEW s \in Slots, Requests(s), Remember
  PROVE  ReqTyped' /\ Known'
<1>1. ASSUME NEW t \in Slots, req'[t] # None
      PROVE  (TrueOf(req[t]) \subseteq truths[t])' /\ StageOf(req'[t], truths'[t])
  <2>1. truths'[t] = truths[t] \cup (TrueOf(req[t]))'
    BY <1>1 DEF Remember
  <2>2. StageOf(req'[t], truths[t])
    BY <1>1 DEF Requests, Apart, Known
  <2>3. StageOf(req'[t], truths'[t])
    BY <2>1, <2>2, StageGrows DEF StageOf
  <2> QED BY <2>1, <2>3
<1>2. (\A t \in Slots : req[t] # None => TrueOf(req[t]) \subseteq truths[t] /\ StageOf(req[t], truths[t]))'
  BY <1>1 DEF StageOf
<1> QED BY <1>2 DEF Requests, Apart, Known

(* A request that begins, and one that requireRole turns away. *)
LEMMA Begins ==
  ASSUME AdminInv, NEW s \in Slots, Begin(s)
  PROVE  Requests(s) /\ Membership' /\ Pairs'
<1>1. req[s] = None /\ UNCHANGED <<tables, memberVars, providerVars>>
  BY DEF Begin
<1>2. PICK f \in Inputs :
        \/ req' = [req EXCEPT ![s] = f] /\ reply' = None
        \/ UNCHANGED req /\ reply' = [to |-> f, code |-> "role_required", wrote |-> FALSE, truths |-> {}]
  BY DEF Begin
<1>3. /\ f \in AllFrames /\ f.at = Entry(f.op) /\ f.saw = None /\ ~ f.wrote
  BY InputsAssumption DEF AllFrames
<1>4. ReqTyped' /\ Apart(s) /\ (req'[s] = None \/ req'[s] = f)
  BY <1>1, <1>2, <1>3 DEF AdminInv, ReqTyped, Apart
<1>5. f.op \in Ops
  BY InputsAssumption
<1>6. StageOf(f, truths[s])
  BY <1>3 DEF StageOf, Stage, Entry, Views, ListOps, WorkspaceOps, MemberOps, DirectOps
<1>7. RepliesAreTrue' /\ RefusedChangesNothing'
  BY <1>2, Codes DEF RepliesAreTrue, RefusedChangesNothing
<1>8. Membership'
  BY <1>1, <1>4, OthersKeepSeats DEF AdminInv, Apart, tables
<1>9. SawStored(req'[s], pairs')
  BY <1>3, <1>4 DEF SawStored
<1>10. Pairs'
  BY <1>1, <1>4, <1>9, PairsStep DEF AdminInv, Apart, tables, providerVars, SentStored
<1> QED BY <1>4, <1>6, <1>7, <1>8, <1>10 DEF Requests

(* The handlers' steps. *)
LEMMA Handles ==
  ASSUME AdminInv, NEW s \in Slots, Serve(s) \/ Fail(s)
  PROVE  Requests(s) /\ Membership' /\ Pairs'
<1>1. ReqTyped /\ Known /\ Membership /\ Pairs /\ MembersTyped /\ MembersHaveRoles
  BY DEF AdminInv, Membership
<1>2. StepOk(s) => Requests(s)
  BY DEF StepOk, Requests, Left
<1>3. CASE (MemberStep(s) \/ MemberFails(s)) /\ UNCHANGED providerVars
  <2>1. StepOk(s) /\ Membership'
    BY <1>1, <1>3, MembersOk, MembersKept
  <2>2. req[s] # None /\ req[s].op \in MemberOps /\ UNCHANGED providers
    BY <1>3 DEF MemberStep, MemberFails, MemberWorkspace, UserExists, Join, SeeSeat, Leave, ClearSnapshot,
           ClearRows, Grant, Handling, Awaiting, MemberOps, Rollback, Commit, tables
  <2>3. SawStored(req'[s], pairs')
    BY <2>1, <2>2 DEF SawStored, StepOk, Left, Same, MemberOps
  <2>4. Pairs'
    BY <1>1, <1>3, <2>1, <2>2, <2>3, PairsStep DEF StepOk, Left, Apart, providerVars, SentStored
  <2> QED BY <1>2, <2>1, <2>4
<1>4. CASE (WorkspaceStep(s) \/ WorkspaceFails(s)) /\ UNCHANGED <<memberVars, providerVars>>
  <2>1. StepOk(s)
    BY <1>1, <1>4, WorkspacesOk
  <2>2. /\ req[s] # None /\ req[s].op \in WorkspaceOps \cup ListOps \cup DirectOps
        /\ UNCHANGED <<members, roles, providers>>
    <3>1. CASE \/ WorkspaceFails(s) \/ FindWorkspace(s) \/ SeeMember(s) \/ View(s) \/ ListFirst(s)
               \/ ListSecond(s) \/ SeeItem(s) \/ ReadPolicy(s)
      BY <3>1 DEF WorkspaceFails, FindWorkspace, SeeMember, View, ListFirst, ListSecond, SeeItem, ReadPolicy,
           Handling, Awaiting, WorkspaceOps, Views, tables
    <3>2. CASE Register(s) \/ CreateWorkspace(s) \/ PatchWorkspace(s) \/ DeleteWorkspace(s)
      BY <3>2 DEF Register, CreateWorkspace, PatchWorkspace, DeleteWorkspace, Handling, Awaiting, DirectOps,
           tables, OnlyUsers, OnlyWorkspaces
    <3>3. CASE CreateTemplate(s) \/ UpdateTemplate(s) \/ DeleteTemplate(s)
      BY <3>3 DEF CreateTemplate, UpdateTemplate, DeleteTemplate, Handling, Awaiting, DirectOps, tables,
           OnlyTemplates
    <3>4. CASE Attach(s) \/ Detach(s) \/ Toggle(s) \/ PutPolicy(s)
      BY <3>4 DEF Attach, Detach, Toggle, PutPolicy, Handling, Awaiting, WorkspaceOps, tables, OnlyAttached,
           OnlyBindings, OnlyPolicy
    <3> QED BY <1>4, <3>1, <3>2, <3>3, <3>4 DEF WorkspaceStep
  <2>3. req[s].op \notin MemberOps /\ req[s].op \notin {"check", "checkNew"}
    BY <2>2 DEF WorkspaceOps, ListOps, DirectOps, MemberOps
  <2>4. \A t \in Slots \ {s} : req'[t] = req[t]
    BY <2>1 DEF StepOk, Left, Apart
  <2>5. Membership'
    BY <1>1, <1>4, <2>2, <2>3, <2>4, OthersKeepSeats
  <2>6. SawStored(req'[s], pairs')
    BY <2>1, <2>3 DEF SawStored, StepOk, Left, Same
  <2>7. Pairs'
    BY <1>1, <1>4, <2>2, <2>4, <2>6, PairsStep DEF providerVars, SentStored
  <2> QED BY <1>2, <2>1, <2>5, <2>7
<1>5. CASE (ProviderStep(s) \/ ProviderFails(s)) /\ UNCHANGED memberVars
  <2>1. Pairs' /\ StepOk(s)
    BY <1>1, <1>5, ProvidersKept, ProvidersOk DEF Pairs, RowsTyped
  <2>2. req[s] # None /\ req[s].op \in ProviderOps /\ UNCHANGED <<members, roles>>
    BY <1>5 DEF ProviderStep, ProviderFails, SeeName, GetCatalog, InsertProvider, Find, SeeOtherName,
         UpdateProvider, FindAgain, DeleteProvider, Resolve, Probed, Handling, Awaiting, ProviderOps, tables,
         Save, OnlyProviders
  <2>3. req[s].op \notin MemberOps /\ \A t \in Slots \ {s} : req'[t] = req[t]
    BY <2>1, <2>2 DEF ProviderOps, MemberOps, StepOk, Left, Apart
  <2>4. Membership'
    BY <1>1, <1>5, <2>2, <2>3, OthersKeepSeats
  <2> QED BY <1>2, <2>1, <2>4
<1> QED BY <1>3, <1>4, <1>5 DEF Serve, Fail

(* The invariant at first, and over every step. *)
LEMMA AdminStarts == Init => AdminInv
<1> SUFFICES ASSUME Init PROVE AdminInv
  OBVIOUS
<1>1. ReqTyped /\ Known
  BY DEF Init, ReqTyped, Known
<1>2. Seats
  BY DEF Init, MemberInit, Seats, SeatOk
<1>3. Membership
  BY <1>2, InitAssumption DEF Init, Membership, MembersTyped, RolesTyped, MembersHaveRoles
<1>4. RowsTyped /\ \A p \in Rows : PairOf(providers[p]) \in pairs
  BY InitAssumption DEF Init, RowsTyped
<1>5. Pairs
  BY <1>4 DEF Init, Pairs, SawStored, SentStored
<1>6. RepliesAreTrue /\ RefusedChangesNothing
  BY DEF Init, RepliesAreTrue, RefusedChangesNothing
<1> QED BY <1>1, <1>3, <1>5, <1>6 DEF AdminInv

(* Every step keeps the invariant. *)
LEMMA AdminKept == AdminInv /\ [Next]_vars => AdminInv'
<1> SUFFICES ASSUME AdminInv, [Next]_vars PROVE AdminInv'
  OBVIOUS
<1>1. ASSUME NEW s \in Slots, Requests(s), Membership', Pairs', Remember PROVE AdminInv'
  BY <1>1, KnownKept DEF AdminInv, Requests
<1>2. CASE \E s \in Slots : Begin(s) /\ Remember
  BY <1>1, <1>2, Begins
<1>3. CASE \E s \in Slots : (Serve(s) \/ Fail(s)) /\ Remember
  BY <1>1, <1>3, Handles
<1>4. CASE Rest /\ Remember
  <2>1. UNCHANGED <<req, tables, memberVars, providerVars>> /\ reply' = None /\ \A s \in Slots : req[s] = None
    BY <1>4 DEF Rest
  <2>2. ReqTyped' /\ Known' /\ RepliesAreTrue' /\ RefusedChangesNothing'
    BY <2>1 DEF AdminInv, ReqTyped, Known, RepliesAreTrue, RefusedChangesNothing
  <2>3. Membership'
    BY <2>1 DEF AdminInv, Membership, Seats, MembersTyped, RolesTyped, MembersHaveRoles, memberVars, tables
  <2>4. Pairs'
    BY <2>1 DEF AdminInv, Pairs, RowsTyped, Rows, Exists, providerVars, tables
  <2> QED BY <2>2, <2>3, <2>4 DEF AdminInv
<1>5. CASE UNCHANGED vars
  <2>1. ReqTyped' /\ Known' /\ RepliesAreTrue' /\ RefusedChangesNothing'
    <3>1. UNCHANGED <<req, reply, truths, tables>>
      BY <1>5 DEF vars
    <3>2. ASSUME NEW t \in Slots PROVE TrueOf(req[t])' = TrueOf(req[t])
      BY <3>1 DEF tables, TrueOf, Claim, Live, SlugTaken, Exists, Binds, Namesakes, Rows, Visible
    <3>3. Known'
      BY <3>1, <3>2 DEF AdminInv, Known
    <3>4. ReqTyped' /\ RepliesAreTrue' /\ RefusedChangesNothing'
      BY <3>1 DEF AdminInv, ReqTyped, RepliesAreTrue, RefusedChangesNothing
    <3> QED BY <3>3, <3>4
  <2>2. Membership'
    BY <1>5 DEF vars, AdminInv, Membership, Seats, MembersTyped, RolesTyped, MembersHaveRoles, memberVars, tables
  <2>3. Pairs'
    BY <1>5 DEF vars, AdminInv, Pairs, RowsTyped, Rows, Exists, providerVars, tables
  <2> QED BY <2>1, <2>2, <2>3 DEF AdminInv
<1> QED BY <1>2, <1>3, <1>4, <1>5 DEF Next

-----------------------------------------------------------------------------
(* Types, and the catalogs: getOrCreateCatalog has found or inserted the   *)
(* row of the kind before a provider refers to it.                         *)

CatOk(f, known) ==
  f # None /\ f.op = "addProvider" /\ f.at = "insert" => f.body.kind \in known

Catalogs ==
  /\ claims = [s \in Slots |-> claims[s]]
  /\ \A p \in Rows : providers[p].kind \in catalogs
  /\ \A s \in Slots : CatOk(req[s], catalogs \cup claims[s])

Counted == begun \in 0 .. MaxRequests /\ failures \in 0 .. MaxFailures /\ registered \subseteq Users

(* What a step of one request owes. *)
LEMMA CatalogsStep ==
  ASSUME Catalogs, RowsTyped, NEW s \in Slots, \A t \in Slots \ {s} : req'[t] = req[t], catalogs \subseteq catalogs',
         NEW mine, UNCHANGED claims \/ claims' = [claims EXCEPT ![s] = mine],
         CatOk(req'[s], catalogs' \cup claims'[s]),
         \/ UNCHANGED providers
         \/ \E p \in ProviderIds : \E row : providers' = [providers EXCEPT ![p] = row] /\ row.kind \in catalogs'
         \/ \E p \in ProviderIds : providers' = [providers EXCEPT ![p] = Gone]
  PROVE  Catalogs'
<1>1. claims' = [t \in Slots |-> claims'[t]] /\ \A t \in Slots \ {s} : claims'[t] = claims[t]
  BY DEF Catalogs
<1>2. \A t \in Slots : CatOk(req'[t], catalogs' \cup claims'[t])
  BY <1>1 DEF Catalogs, CatOk
<1>3. (\A p \in Rows : providers[p].kind \in catalogs)'
  BY DEF Catalogs, Rows, Exists, RowsTyped
<1> QED BY <1>1, <1>2, <1>3 DEF Catalogs

(* The providers' routes. *)
LEMMA CatalogsKept ==
  ASSUME ReqTyped, RowsTyped, Catalogs, NEW s \in Slots, ProviderStep(s) \/ ProviderFails(s)
  PROVE  Catalogs'
<1> DEFINE f == req[s]
<1>0. f # None /\ f.op \in ProviderOps /\ f \in AllFrames
  BY DEF ProviderStep, ProviderFails, SeeName, GetCatalog, InsertProvider, Find, SeeOtherName, UpdateProvider,
         FindAgain, DeleteProvider, Resolve, Probed, Handling, Awaiting, ProviderOps, ReqTyped
<1>1. f.op \notin {"addProvider", "checkNew"} => f.item \in ProviderIds
  BY <1>0, FrameFacts DEF Meant
<1>2. ASSUME NEW at \in Places, Await(s, at) \/ AwaitWritten(s, at)
      PROVE  /\ \A t \in Slots \ {s} : req'[t] = req[t]
             /\ req'[s] # None /\ Same(f, req'[s]) /\ req'[s].at = at
  BY <1>0, <1>2, Awaits DEF Moved, Apart
<1>3. ASSUME NEW code, Refuse(s, code) \/ Succeed(s, code)
      PROVE  (\A t \in Slots \ {s} : req'[t] = req[t]) /\ req'[s] = None
  BY <1>0, <1>3, Answers DEF Left, Apart, Refuse, Succeed
<1> HIDE DEF f
<1> USE DEF Handling, Awaiting, Places
<1>4. CASE SeeName(s) \/ SeeOtherName(s) \/ FindAgain(s)
  <2>1. UNCHANGED <<providers, catalogs, claims>>
    BY <1>4 DEF SeeName, SeeOtherName, FindAgain, tables, providerVars
  <2>2. (\E code : Refuse(s, code) \/ Succeed(s, code)) \/ \E at \in {"catalog", "write"} : Await(s, at)
    BY <1>4 DEF SeeName, SeeOtherName, FindAgain
  <2> QED BY <1>2, <1>3, <2>1, <2>2, CatalogsStep DEF CatOk
<1>5. CASE GetCatalog(s)
  <2>1. /\ UNCHANGED <<providers, catalogs>> /\ Await(s, "insert")
        /\ claims' = [claims EXCEPT ![s] = {f.body.kind} \ catalogs]
    BY <1>5 DEF GetCatalog, tables, f
  <2>2. CatOk(req'[s], catalogs' \cup claims'[s])
    BY <1>2, <2>1 DEF CatOk, Same, Catalogs
  <2> QED BY <1>2, <2>1, <2>2, CatalogsStep
<1>6. CASE InsertProvider(s)
  <2>1. f.op = "addProvider" /\ f.at = "insert" /\ claims' = [claims EXCEPT ![s] = {}]
    BY <1>6 DEF InsertProvider, f
  <2>2. CASE Clashes(None, f.body.kind, f.body.alias)
    <3>1. UNCHANGED <<providers, catalogs>> /\ Refuse(s, "duplicate_name")
      BY <1>6, <2>2 DEF InsertProvider, tables, f
    <3> QED BY <1>3, <2>1, <3>1, CatalogsStep DEF CatOk
  <2>3. CASE ~ Clashes(None, f.body.kind, f.body.alias)
    <3>1. Succeed(s, "done") /\ catalogs' = catalogs \cup claims[s]
      BY <1>6, <2>3 DEF InsertProvider, f
    <3>2. PICK p \in ProviderIds, n \in Stamps(Micros) :
            Save(p, [kind |-> f.body.kind, alias |-> f.body.alias, key |-> f.body.key,
                     base |-> f.body.base, on |-> TRUE, stamp |-> n])
      BY <1>6, <2>3 DEF InsertProvider, f
    <3>3. f.body.kind \in catalogs'
      BY <1>0, <2>1, <3>1 DEF Catalogs, CatOk, f
    <3> DEFINE new == [kind |-> f.body.kind, alias |-> f.body.alias, key |-> f.body.key,
                       base |-> f.body.base, on |-> TRUE, stamp |-> n]
    <3>4. providers' = [providers EXCEPT ![p] = new] /\ new.kind = f.body.kind
      BY <3>2 DEF Save
    <3> HIDE DEF new
    <3> QED BY <1>3, <2>1, <3>1, <3>3, <3>4, CatalogsStep DEF CatOk
  <2> QED BY <2>2, <2>3
<1>7. CASE Find(s)
  <2>1. UNCHANGED <<providers, catalogs, claims>> /\ f.op \notin {"addProvider", "checkNew"}
    BY <1>7 DEF Find, tables, providerVars, f
  <2>2. CASE Exists(f.item)
    <3>1. PICK at \in {"resolve", "name", "write"} : req' = [req EXCEPT ![s].at = at, ![s].saw = providers[f.item]]
      BY <1>7, <2>2 DEF Find, f
    <3>2. providers[f.item] \in Looks
      BY <1>1, <2>1, <2>2 DEF Exists, RowsTyped, Looks
    <3>3. Moved(s, at, providers[f.item], f.wrote)
      BY <1>0, <3>1, <3>2, Awaits DEF f
    <3> QED BY <2>1, <3>3, CatalogsStep DEF Moved, Apart, CatOk
  <2>3. CASE ~ Exists(f.item)
    <3>1. Refuse(s, "provider_not_found")
      BY <1>7, <2>3 DEF Find, f
    <3> QED BY <1>3, <2>1, <3>1, CatalogsStep DEF CatOk
  <2> QED BY <2>2, <2>3
<1>8. CASE UpdateProvider(s)
  <2>1. UNCHANGED <<catalogs, claims>> /\ f.item \in ProviderIds
    BY <1>1, <1>8 DEF UpdateProvider, f
  <2>2. CASE ~ Exists(f.item) \/ (f.body.alias # None /\ Clashes(f.item, providers[f.item].kind, f.body.alias))
    <3>1. UNCHANGED providers /\ \E code : Refuse(s, code)
      BY <1>8, <2>2 DEF UpdateProvider, tables, f
    <3> QED BY <1>3, <2>1, <3>1, CatalogsStep DEF CatOk
  <2>3. CASE Exists(f.item) /\ ~ (f.body.alias # None /\ Clashes(f.item, providers[f.item].kind, f.body.alias))
    <3>1. AwaitWritten(s, "again")
      BY <1>8, <2>3 DEF UpdateProvider, f
    <3>2. PICK n \in Stamps({0}) : Save(f.item, [Patched(providers[f.item], f.body) EXCEPT !.stamp = n])
      BY <1>8, <2>3 DEF UpdateProvider, f
    <3>3. providers[f.item] \in Row /\ f.item \in Rows
      BY <2>1, <2>3 DEF Exists, RowsTyped, Rows
    <3>4. [Patched(providers[f.item], f.body) EXCEPT !.stamp = n].kind = providers[f.item].kind
      BY <3>3 DEF Patched, Row
    <3>5. PICK row : providers' = [providers EXCEPT ![f.item] = row] /\ row.kind = providers[f.item].kind
      BY <3>2, <3>4 DEF Save
    <3>6. row.kind \in catalogs'
      BY <2>1, <3>3, <3>5 DEF Catalogs
    <3> QED BY <1>2, <2>1, <3>1, <3>5, <3>6, CatalogsStep DEF CatOk
  <2> QED BY <2>2, <2>3
<1>9. CASE DeleteProvider(s)
  <2>1. f.op = "deleteProvider" /\ f.item \in ProviderIds /\ UNCHANGED <<catalogs, claims>>
    BY <1>1, <1>9 DEF DeleteProvider, providerVars, f
  <2>2. /\ \E code : Refuse(s, code) \/ Succeed(s, code)
        /\ UNCHANGED providers \/ providers' = [providers EXCEPT ![f.item] = Gone]
    BY <1>9 DEF DeleteProvider, tables, f
  <2> QED BY <1>3, <2>1, <2>2, CatalogsStep DEF CatOk
<1>10. CASE Resolve(s) \/ Probed(s)
  <2>1. UNCHANGED <<providers, catalogs, claims>>
    BY <1>10 DEF Resolve, Probed, tables
  <2>2. Refuse(s, "checked") \/ Await(s, "probed")
    BY <1>10 DEF Resolve, Probed
  <2> QED BY <1>2, <1>3, <2>1, <2>2, CatalogsStep DEF CatOk
<1>11. CASE ProviderFails(s)
  <2>1. UNCHANGED <<providers, catalogs>> /\ claims' = [claims EXCEPT ![s] = {}] /\ Refuse(s, "failed")
    BY <1>11 DEF ProviderFails, tables
  <2> QED BY <1>3, <2>1, CatalogsStep DEF CatOk
<1> QED BY <1>4, <1>5, <1>6, <1>7, <1>8, <1>9, <1>10, <1>11 DEF ProviderStep

(* The catalogs and the counters keep their types. *)
LEMMA TypesKept ==
  ASSUME AdminInv, Catalogs, Counted, [Next]_vars
  PROVE  Catalogs' /\ Counted'
<1>0. ReqTyped /\ RowsTyped /\ MaxRequests \in Nat /\ MaxFailures \in Nat
  BY AdminDbAssumption DEF AdminInv, Pairs
<1>1. ASSUME NEW s \in Slots, Begin(s) PROVE Catalogs' /\ Counted'
  <2>1. Requests(s) /\ UNCHANGED <<catalogs, claims, providers, registered, failures>> /\ begun' = begun + 1
        /\ begun < MaxRequests
    BY <1>1, Begins DEF Begin, tables, providerVars
  <2>2. req'[s] # None => req'[s] \in Inputs
    BY <1>0, <1>1 DEF Begin, ReqTyped
  <2>3. CatOk(req'[s], catalogs' \cup claims'[s])
    BY <2>2, InputsAssumption DEF CatOk, Entry, MemberOps, WorkspaceOps, ListOps, DirectOps
  <2>4. Catalogs'
    BY <1>0, <2>1, <2>3, CatalogsStep DEF Requests, Apart
  <2>5. Counted'
    BY <1>0, <2>1 DEF Counted
  <2> QED BY <2>4, <2>5
<1>2. ASSUME NEW s \in Slots, (Serve(s) /\ UNCHANGED <<begun, failures>>) \/ Fail(s) PROVE Catalogs' /\ Counted'
  <2>1. Requests(s)
    BY <1>2, Handles
  <2>2. begun' = begun /\ failures' \in 0 .. MaxFailures
    BY <1>0, <1>2 DEF Fail, Counted
  <2>3. CASE (MemberStep(s) \/ MemberFails(s)) /\ UNCHANGED providerVars
    <3>1. /\ req[s] # None /\ req[s].op \in MemberOps /\ UNCHANGED <<providers, registered>>
          /\ StepOk(s)
      BY <1>0, <2>3, MembersOk DEF MemberStep, MemberFails, MemberWorkspace, UserExists, Join, SeeSeat, Leave,
           ClearSnapshot, ClearRows, Grant, Handling, Awaiting, MemberOps, Rollback, Commit, tables, AdminInv
    <3>2. CatOk(req'[s], catalogs' \cup claims'[s])
      BY <3>1 DEF CatOk, StepOk, Left, Same, MemberOps
    <3> QED BY <1>0, <2>1, <2>2, <2>3, <3>1, <3>2, CatalogsStep DEF providerVars, Requests, Apart, Counted
  <2>4. CASE (WorkspaceStep(s) \/ WorkspaceFails(s)) /\ UNCHANGED <<memberVars, providerVars>>
    <3>1. StepOk(s)
      BY <2>4, WorkspacesOk DEF AdminInv, Membership
    <3>2. /\ req[s] # None /\ req[s].op \in WorkspaceOps \cup ListOps \cup DirectOps
          /\ UNCHANGED providers /\ registered' \subseteq Users
      <4>1. CASE \/ WorkspaceFails(s) \/ FindWorkspace(s) \/ SeeMember(s) \/ View(s) \/ ListFirst(s)
                 \/ ListSecond(s) \/ SeeItem(s) \/ ReadPolicy(s)
        BY <4>1 DEF WorkspaceFails, FindWorkspace, SeeMember, View, ListFirst, ListSecond, SeeItem, ReadPolicy,
             Handling, Awaiting, WorkspaceOps, Views, tables, Counted
      <4>2. CASE Register(s)
        <5>1. req[s] # None /\ req[s].op = "register" /\ req[s].user \in Users
          BY <1>0, <4>2, FrameFacts DEF Register, Handling, Awaiting, ReqTyped, Meant
        <5> QED BY <4>2, <5>1 DEF Register, DirectOps, tables, OnlyUsers, Counted
      <4>3. CASE CreateWorkspace(s) \/ PatchWorkspace(s) \/ DeleteWorkspace(s)
        BY <4>3 DEF CreateWorkspace, PatchWorkspace, DeleteWorkspace, Handling, Awaiting, DirectOps,
             tables, OnlyWorkspaces, Counted
      <4>4. CASE CreateTemplate(s) \/ UpdateTemplate(s) \/ DeleteTemplate(s)
        BY <4>4 DEF CreateTemplate, UpdateTemplate, DeleteTemplate, Handling, Awaiting, DirectOps, tables,
             OnlyTemplates, Counted
      <4>5. CASE Attach(s) \/ Detach(s) \/ Toggle(s) \/ PutPolicy(s)
        BY <4>5 DEF Attach, Detach, Toggle, PutPolicy, Handling, Awaiting, WorkspaceOps, tables, OnlyAttached,
             OnlyBindings, OnlyPolicy, Counted
      <4> QED BY <2>4, <4>1, <4>2, <4>3, <4>4, <4>5 DEF WorkspaceStep
    <3>3. CatOk(req'[s], catalogs' \cup claims'[s])
      BY <3>1, <3>2 DEF CatOk, StepOk, Left, Same, WorkspaceOps, ListOps, DirectOps
    <3> QED BY <1>0, <2>1, <2>2, <2>4, <3>2, <3>3, CatalogsStep DEF providerVars, Requests, Apart, Counted
  <2>5. CASE ProviderStep(s) \/ ProviderFails(s)
    <3>1. Catalogs'
      BY <1>0, <2>5, CatalogsKept
    <3>2. UNCHANGED registered
      BY <2>5 DEF ProviderStep, ProviderFails, SeeName, GetCatalog, InsertProvider, Find, SeeOtherName,
           UpdateProvider, FindAgain, DeleteProvider, Resolve, Probed, tables, Save, OnlyProviders
    <3> QED BY <2>2, <3>1, <3>2 DEF Counted
  <2> QED BY <1>2, <2>3, <2>4, <2>5 DEF Serve, Fail
<1>3. CASE Rest \/ UNCHANGED vars
  <2>1. UNCHANGED <<req, begun, failures, registered, providers, catalogs, claims>>
    BY <1>3 DEF Rest, vars, tables, providerVars
  <2> QED BY <2>1 DEF Catalogs, Counted, Rows, Exists
<1> QED BY <1>1, <1>2, <1>3 DEF Next

(* The two parts of a row's stamp. *)
Ms(p) == providers[p].stamp.ms
Us(p) == providers[p].stamp.us

(* Arithmetic of the microseconds in a millisecond.                        *)
LEMMA LastMicro ==
  /\ \A a \in Int, b \in Int, x \in Int : x + b = 999 /\ x =< 999 - a => a =< b
  /\ \A a \in Int, b \in Int : a =< b => a = b \/ b > a
OBVIOUS

(* Of rows stamped to the microsecond one is the first in the database's   *)
(* order: of those in the last millisecond, those of the last microsecond  *)
(* there are, and of these the first by id.                                *)
LEMMA FirstRow ==
  ASSUME NEW E \in SUBSET ProviderIds, \A p \in E : Ms(p) \in Int /\ Us(p) \in Int /\ Us(p) =< 999,
         NEW w \in E, \A q \in E : Ms(q) =< Ms(w)
  PROVE  \E p \in E : \A q \in E \ {p} :
           \/ Ms(p) > Ms(q)
           \/ Ms(p) = Ms(q) /\ Us(p) > Us(q)
           \/ Ms(p) = Ms(q) /\ Us(p) = Us(q) /\ UuidBefore(p, q)
<1> DEFINE Latest == {p \in E : Ms(p) = Ms(w)}
           Gaps == {n \in Nat : \E p \in Latest : n + Us(p) = 999}
<1>1. \A p \in Latest : 999 - Us(p) \in Gaps
  <2> SUFFICES ASSUME NEW p \in Latest PROVE 999 - Us(p) \in Gaps
    OBVIOUS
  <2>1. Us(p) \in Int /\ Us(p) =< 999
    OBVIOUS
  <2>2. 999 - Us(p) \in Nat /\ (999 - Us(p)) + Us(p) = 999
    BY <2>1
  <2> QED BY <2>2
<1>2. Gaps \subseteq Nat /\ Gaps # {}
  BY <1>1
<1> HIDE DEF Gaps
<1>3. PICK x \in Gaps : \A y \in Gaps : ~ (<<y, x>> \in OpToRel(<, Nat))
  BY <1>2, NatLessThanWellFounded, WFMin, Zenon
<1>4. ASSUME NEW y \in Gaps PROVE x =< y
  <2>1. x \in Nat /\ y \in Nat
    BY <1>2
  <2>2. y < x => <<y, x>> \in OpToRel(<, Nat)
    BY <2>1 DEF OpToRel
  <2>3. ~ (y < x)
    BY <1>3, <2>2, Zenon
  <2> QED BY <2>1, <2>3
<1>5. PICK l \in Latest : x + Us(l) = 999
  BY DEF Gaps
<1>6. ASSUME NEW q \in Latest PROVE Us(q) =< Us(l)
  <2>1. Us(q) \in Int /\ Us(l) \in Int /\ x \in Int
    BY <1>2
  <2>2. x =< 999 - Us(q)
    BY <1>1, <1>4
  <2>3. x + Us(l) = 999
    BY <1>5
  <2> QED BY <2>1, <2>2, <2>3, LastMicro
<1> DEFINE Top == {p \in Latest : Us(p) = Us(l)}
<1>7. Top \in (SUBSET ProviderIds) \ {{}}
  OBVIOUS
<1>8. PICK p \in Top : \A q \in Top \ {p} : UuidBefore(p, q)
  BY <1>7, OrderAssumption, Zenon
<1>9. ASSUME NEW q \in E
      PROVE  /\ Ms(q) = Ms(w) \/ Ms(p) > Ms(q)
             /\ Ms(q) = Ms(w) => Us(q) = Us(p) \/ Us(p) > Us(q)
  <2>1. Ms(q) \in Int /\ Ms(w) \in Int /\ Ms(p) = Ms(w) /\ Ms(q) =< Ms(w)
    OBVIOUS
  <2>2. Us(q) \in Int /\ Us(p) \in Int /\ Us(p) = Us(l)
    OBVIOUS
  <2>3. q \in Latest => Us(q) =< Us(l)
    BY <1>6
  <2>4. Ms(q) = Ms(w) \/ Ms(p) > Ms(q)
    BY <2>1
  <2>5. Us(q) =< Us(p) => Us(q) = Us(p) \/ Us(p) > Us(q)
    <3> HIDE DEF Top, Latest
    <3> QED BY <2>2, LastMicro
  <2>6. Ms(q) = Ms(w) => Us(q) =< Us(p)
    BY <2>2, <2>3
  <2> QED BY <2>4, <2>5, <2>6
<1>10. ASSUME NEW q \in E \ {p}, Ms(p) = Ms(q), Us(p) = Us(q) PROVE UuidBefore(p, q)
  BY <1>8, <1>10
<1> QED BY <1>9, <1>10

(* The first row in the database's order and the first in JavaScript's are *)
(* both of the last millisecond.                                           *)
LEMMA BillsWhatIsLoaded == RowsTyped => BilledRowIsLoaded
<1> SUFFICES ASSUME RowsTyped, NEW k \in DOMAIN LoadedConfig
             PROVE  \E p \in Enabled(k) :
                      providers[p].stamp.ms = providers[ActiveProvider(k)].stamp.ms /\ LoadedConfig[k] = Served(p)
  BY Zenon DEF BilledRowIsLoaded
<1> DEFINE E == Enabled(k)
           w == CHOOSE p \in Winner(k) : TRUE
           billed == ActiveProvider(k)
<1>1. \A p \in E : p \in ProviderIds /\ providers[p].stamp \in [ms : Nat, us : Micros]
  BY DEF Enabled, Rows, Exists, RowsTyped, Row
<1>2. \A p \in E : Ms(p) \in Int /\ Us(p) \in Int /\ Us(p) =< 999
  <2>1. \A n \in Micros : n \in Int /\ n =< 999
    BY StampAssumption
  <2> QED BY <1>1, <2>1 DEF Ms, Us
<1>3. w \in Winner(k) /\ LoadedConfig[k] = Served(w)
  BY DEF LoadedConfig
<1> HIDE DEF w
<1>4. w \in E /\ \A q \in E \ {w} : Newer(w, q)
  BY <1>3 DEF Winner
<1>5. \A q \in E : Ms(q) =< Ms(w)
  BY <1>2, <1>4 DEF Newer, Ms
<1>6. \E p \in E : \A q \in E \ {p} : SortsBefore(p, q)
  <2>1. PICK p \in E : \A q \in E \ {p} :
           \/ Ms(p) > Ms(q)
           \/ Ms(p) = Ms(q) /\ Us(p) > Us(q)
           \/ Ms(p) = Ms(q) /\ Us(p) = Us(q) /\ UuidBefore(p, q)
    <3>1. E \in SUBSET ProviderIds /\ w \in E
      BY <1>1, <1>4
    <3> HIDE DEF E
    <3> QED BY <1>2, <1>5, <3>1, FirstRow
  <2>2. ASSUME NEW q \in E \ {p} PROVE SortsBefore(p, q)
    <3>1. Ms(p) = Ms(q) /\ Us(p) = Us(q) => providers[p].stamp = providers[q].stamp
      BY <1>1 DEF Ms, Us
    <3> QED BY <2>1, <3>1 DEF SortsBefore, Ms, Us
  <2> QED BY <2>2
<1>7. billed \in E /\ \A q \in E \ {billed} : SortsBefore(billed, q)
  BY <1>4, <1>6 DEF ActiveProvider
<1> HIDE DEF billed
<1>8. w # billed => Ms(billed) > Ms(w) \/ Ms(billed) = Ms(w)
  BY <1>4, <1>7 DEF SortsBefore, Ms
<1>9. Ms(w) = Ms(billed)
  BY <1>2, <1>4, <1>5, <1>7, <1>8
<1> USE DEF billed
<1> QED BY <1>3, <1>4, <1>9 DEF Ms

-----------------------------------------------------------------------------
(* Theorems.                                                               *)

(* The invariants hold of every state. *)
LEMMA Administered == Spec => [](AdminInv /\ Catalogs /\ Counted)
<1>1. Init => Catalogs /\ Counted
  BY InitAssumption, AdminDbAssumption DEF Init, Catalogs, CatOk, Counted, Rows, Exists
<1>2. Init => AdminInv /\ Catalogs /\ Counted
  BY <1>1, AdminStarts
<1>3. AdminInv /\ Catalogs /\ Counted /\ [Next]_vars => (AdminInv /\ Catalogs /\ Counted)'
  BY AdminKept, TypesKept
<1> QED BY <1>2, <1>3, PTL DEF Spec

(* Every table holds what its columns allow, and a provider's kind has its *)
(* catalog row (llm-db's schema, getOrCreateCatalog).                      *)
THEOREM AdminTyped == Spec => []TypeOK
<1>1. AdminInv /\ Catalogs /\ Counted => TypeOK
  <2> SUFFICES ASSUME AdminInv, Catalogs, Counted PROVE TypeOK
    OBVIOUS
  <2>1. \A s \in Slots : req[s] # None => req[s].op \in Ops /\ req[s].wrote \in BOOLEAN
    BY FrameFacts DEF AdminInv, ReqTyped
  <2>2. \A p \in Rows : providers[p] \in Row /\ providers[p].kind \in catalogs
    BY DEF AdminInv, Pairs, RowsTyped, Rows, Exists, Catalogs
  <2> QED BY <2>1, <2>2 DEF TypeOK, Counted, AdminInv, Membership, MembersTyped, RolesTyped
<1> QED BY <1>1, Administered, PTL

(* A 404, a 409 or a page shown is true of some moment since its request   *)
(* began (the routes of llm-http's administration).                        *)
THEOREM RepliesHold == Spec => []RepliesAreTrue
<1>1. AdminInv => RepliesAreTrue
  BY DEF AdminInv
<1> QED BY <1>1, Administered, PTL

(* A request refused or failed has written nothing, unless its reply's     *)
(* read failed after the write.                                            *)
THEOREM RefusalsChangeNothing == Spec => []RefusedChangesNothing
<1>1. AdminInv => RefusedChangesNothing
  BY DEF AdminInv
<1> QED BY <1>1, Administered, PTL

(* No interleaving of add, replaceRoles and remove leaves a member without *)
(* a role (drizzle-workspace-members-repository.ts).                       *)
THEOREM MembersKeepRoles == Spec => []MembersHaveRoles
<1>1. AdminInv => MembersHaveRoles
  BY DEF AdminInv, Membership
<1> QED BY <1>1, Administered, PTL

(* A stored key is sent to a base URL that it was stored with              *)
(* (resolveCheckTarget).                                                   *)
THEOREM KeysStayHome == Spec => []StoredKeyStaysHome
<1>1. AdminInv => StoredKeyStaysHome
  BY DEF AdminInv, Pairs, SentStored, StoredKeyStaysHome
<1> QED BY <1>1, Administered, PTL

(* The configuration source and the resolver of billing agree on the row   *)
(* of a kind, whatever rows there are, up to the millisecond.              *)
THEOREM BillingFollowsLoading == Spec => []BilledRowIsLoaded
<1>1. AdminInv => BilledRowIsLoaded
  BY BillsWhatIsLoaded DEF AdminInv, Pairs
<1> QED BY <1>1, Administered, PTL
=============================================================================
