--------------------------- MODULE AccountingPage ---------------------------
(***************************************************************************)
(* The signed-in accounting page (src/authoritative-app.jsx): identity and *)
(* release checks, the selected company and period, the shared AP, AR and  *)
(* journal rows, the journal opened for its workflow, and every reader and *)
(* callback that may answer after the page has moved on, under the guard   *)
(* of authoritative-read-guard.js; with the session record, its silent     *)
(* renewal (oidc-client.js) and the release check                          *)
(* (authoritative-release-gate.js).                                        *)
(*                                                                         *)
(* One tab with OIDC configured.  A company and period is a scope; rows    *)
(* are the scope they were read for and whether the guard let them in.     *)
(* Reads of the workspaces themselves are not modelled, but for the 401    *)
(* any of them may meet.                                                   *)
(***************************************************************************)
EXTENDS Integers, FiniteSets

CONSTANTS
  Scope,    \* company and period pairs
  Company,  \* the company of each scope
  Home,     \* the scope the deployment configures
  MaxActs,  \* bound: acts of the user
  None      \* null

Origin == [scope : Scope, guarded : BOOLEAN]

ASSUME PageAssumption ==
  /\ Home \in Scope
  /\ Company \in [Scope -> Scope]
  /\ MaxActs \in Nat
  /\ None \notin Origin

(* payables stands for receivables too, approvals for the AI workbenches.  *)
SharedRoute == {"approvals", "payables", "journals"}
OwnRoute == {"fixed-assets", "wbs-autorec-evidence"}
Route == SharedRoute \cup OwnRoute

Settlement == {"native-settlement", "asset-acquisition"}
Channel == {"refresh", "controlled-workflow", "draft", "adjustment-journal"}
             \cup Settlement

(* What a workspace may start, on the page it stands.                      *)
Offered ==
  [r \in Route |->
     CASE r = "payables" -> {"draft", "adjustment-journal", "native-settlement"}
       [] r = "fixed-assets" -> {"asset-acquisition"}
       [] OTHER -> {}]

SignedOut == {"LOGIN_REQUIRED", "IDENTITY_FAILED"}
Inside == {"AUTHENTICATED", "LOADING_ACCOUNTING", "READY", "ACCESS_DENIED"}
Phase == SignedOut \cup Inside
           \cup {"CHECKING_IDENTITY", "CHECKING_RELEASE", "LOAD_FAILED"}

VARIABLES
  phase,      \* the page's phase
  scope,      \* selectedScope, or the configured one
  route,      \* the retained route
  workflow,   \* workflowJournalId: the rows the open journal came from
  data,       \* the shared rows: of documents, and of journals
  loaded,     \* sharedAccountingLoaded
  guard,      \* the read guard
  calls,      \* reads and commands whose answer is still to come
  granted,    \* scopes the actor may read, as the server's catalog has them
  catalogued, \* the catalog has been read
  session,    \* the record in sessionStorage
  renewing,   \* a silent renewal is in flight
  checked,    \* the release stamps matched on this page load
  overridden, \* somebody pressed Try again before they did
  acts        \* acts of the user so far

page == <<phase, scope, route, workflow, data, loaded, guard, calls>>
vars == <<page, granted, catalogued, session, renewing, checked, overridden, acts>>

-----------------------------------------------------------------------------
(* Faulty variants for mutation testing: each is named after the           *)
(* definition whose place it takes and the bug it plants there.            *)

Revoked_Nothing == guard
Revoked_Restarted == [guard EXCEPT !.issued = 0, !.latest = [c \in Channel |-> 0]]
MayBegin_Late(generation) == TRUE
ScopePhase_Kept == phase
Matches_Unstamped(stamp) == stamp # "other"
Renewed_Anyway == "token"
LoadedOn_Kept == loaded

-----------------------------------------------------------------------------
NoRows == [documents |-> None, journals |-> None]
Fresh == [generation |-> 0, issued |-> 0, latest |-> [c \in Channel |-> 0]]

Init ==
  /\ phase = "CHECKING_IDENTITY"
  /\ scope = Home
  /\ route \in Route
  /\ workflow = None
  /\ data = NoRows
  /\ loaded = FALSE
  /\ guard = Fresh
  /\ calls = {}
  /\ granted \in SUBSET Scope \ {{}}
  /\ catalogued = FALSE
  /\ session \in {"none", "token"}
  /\ renewing = FALSE
  /\ checked = FALSE
  /\ overridden = FALSE
  /\ acts = 0

-----------------------------------------------------------------------------
(* The read guard: every read begins with the generation its caller was    *)
(* rendered with; a change of scope and a sign-out revoke them all.        *)
Begun(channel) ==
  [guard EXCEPT !.issued = @ + 1, !.latest[channel] = guard.issued + 1]
Revoked ==
  [guard EXCEPT !.generation = @ + 1, !.latest = [c \in Channel |-> 0]]
MayBegin(generation) == generation = guard.generation
IsCurrent(c) ==
  c.generation = guard.generation /\ guard.latest[c.channel] = c.id

(* A read of the page as it is rendered now, and one of a callback.        *)
Read(channel) ==
  [channel |-> channel, stage |-> "read", scope |-> scope,
   generation |-> guard.generation, id |-> guard.issued + 1]
Command(channel) ==
  [channel |-> channel, stage |-> "command", scope |-> scope,
   generation |-> guard.generation, id |-> 0]

Rows(s) == [scope |-> s, guarded |-> TRUE]
Both(rows) == [documents |-> rows, journals |-> rows]

(* The configuration object is a new one in every phase, and a settlement  *)
(* drops an answer that finds another one than it started with.            *)
Surviving(p, C) ==
  IF p = phase THEN C ELSE {c \in C : c.channel \notin Settlement}
EnterPhase(p, C) == phase' = p /\ calls' = Surviving(p, C)

(* setRoute leaves the journal workflow and gives a refused page a chance. *)
Readmitted == IF phase = "ACCESS_DENIED" THEN "AUTHENTICATED" ELSE phase

SharedNeeded == route \in SharedRoute /\ ~(route = "journals" /\ workflow # None)

(* What the page offers around a workspace; after a failed load only when  *)
(* there are rows to show.                                                 *)
Shell == phase \in Inside \/ (phase = "LOAD_FAILED" /\ data # NoRows)

ScopePhase == "AUTHENTICATED"

-----------------------------------------------------------------------------
(* A page load: everything but the address and sessionStorage starts anew. *)
FreshPage ==
  /\ phase' = "CHECKING_IDENTITY" /\ scope' = Home /\ workflow' = None
  /\ data' = NoRows /\ loaded' = FALSE /\ guard' = Fresh /\ calls' = {}
  /\ catalogued' = FALSE /\ renewing' = FALSE
  /\ checked' = FALSE /\ overridden' = FALSE
  /\ UNCHANGED <<route, granted>>

(* completeRedirect and bootstrapAuthoritativeIdentity: a usable token, or *)
(* the code of a pending login, or off to the provider.                    *)
IdentityChecked ==
  /\ phase = "CHECKING_IDENTITY"
  /\ \/ /\ session \in {"token", "pending"}
        /\ session' = "token" /\ phase' = "CHECKING_RELEASE"
        /\ UNCHANGED <<route, granted, scope, workflow, data, loaded, guard, calls,
                       catalogued, renewing, checked, overridden>>
     \/ /\ session # "token"
        /\ session' = "none" /\ phase' \in SignedOut
        /\ UNCHANGED <<route, granted, scope, workflow, data, loaded, guard, calls,
                       catalogued, renewing, checked, overridden>>
     \/ session # "token" /\ session' = "pending" /\ FreshPage
  /\ UNCHANGED acts

(* verifyAuthoritativeApiRelease: a missing stamp is no match.             *)
Matches(stamp) == stamp = "same"
ReleaseChecked ==
  /\ phase = "CHECKING_RELEASE"
  /\ \E stamp \in {"same", "other", "missing"} :
       /\ EnterPhase(IF Matches(stamp) THEN "AUTHENTICATED" ELSE "LOAD_FAILED", calls)
       /\ checked' = (stamp = "same")
  /\ UNCHANGED <<scope, route, workflow, data, loaded, guard, granted, catalogued,
                 session, renewing, overridden, acts>>

outside == <<granted, catalogued, session, renewing, checked, overridden>>

(* refresh: a page without shared rows needs no read.                      *)
Refresh ==
  /\ guard' = Begun("refresh")
  /\ IF SharedNeeded
     THEN EnterPhase("LOADING_ACCOUNTING", calls \cup {Read("refresh")})
     ELSE EnterPhase("READY", calls)
  /\ UNCHANGED <<scope, route, workflow, data, loaded>>

(* The two effects that refresh.                                           *)
LoadDue == phase = "READY" /\ SharedNeeded /\ ~loaded
EnterAccounting ==
  /\ phase = "AUTHENTICATED"
  /\ Refresh
  /\ UNCHANGED <<outside, acts>>
LoadShared ==
  /\ LoadDue
  /\ Refresh
  /\ UNCHANGED <<outside, acts>>

(* applyScope, and the effect that leaves a refused scope the catalog does *)
(* not know for another one, of the same company if there is one.          *)
LoadedOn == FALSE
Rescope(s, C) ==
  /\ guard' = Revoked
  /\ EnterPhase(ScopePhase, C)
  /\ scope' = s /\ data' = NoRows /\ loaded' = LoadedOn
SameCompany(s) == Company[s] = Company[scope]
Fallback ==
  /\ phase = "ACCESS_DENIED" /\ catalogued /\ scope \notin granted
  /\ \E s \in granted :
       /\ (\E t \in granted : SameCompany(t)) => SameCompany(s)
       /\ Rescope(s, calls)
  /\ workflow' = None
  /\ UNCHANGED <<route, outside, acts>>

CatalogRead ==
  /\ phase \in {"READY", "ACCESS_DENIED"} /\ ~catalogued
  /\ catalogued' = TRUE
  /\ UNCHANGED <<page, granted, session, renewing, checked, overridden, acts>>

-----------------------------------------------------------------------------
(* Answers.  A refresh that fails says so with its phase; any other answer *)
(* that fails, or that is no longer current, changes nothing.              *)
RefreshAnswered(c) ==
  /\ c.channel = "refresh" /\ IsCurrent(c)
  /\ \/ /\ data' = Both(Rows(c.scope)) /\ loaded' = TRUE
        /\ EnterPhase("READY", calls \ {c})
     \/ /\ \E p \in {"ACCESS_DENIED", "LOAD_FAILED"} : EnterPhase(p, calls \ {c})
        /\ UNCHANGED <<data, loaded>>
  /\ UNCHANGED <<scope, route, workflow, guard>>

ReloadAnswered(c) ==
  /\ c.channel = "controlled-workflow" /\ IsCurrent(c)
  /\ data' = Both(Rows(c.scope)) /\ loaded' = TRUE
  /\ calls' = calls \ {c}
  /\ UNCHANGED <<phase, scope, route, workflow, guard>>

(* The callback of the AutoRec page asks no guard (line 781).              *)
AutoRecAnswered(c) ==
  /\ c.channel = "autorec"
  /\ data' = Both([scope |-> c.scope, guarded |-> FALSE]) /\ loaded' = TRUE
  /\ calls' = calls \ {c}
  /\ UNCHANGED <<phase, scope, route, workflow, guard>>

OpenWorkflow(rows) == route' = "journals" /\ workflow' = rows
DraftAnswered(c) ==
  /\ c.channel = "draft" /\ IsCurrent(c)
  /\ OpenWorkflow(Rows(c.scope))
  /\ EnterPhase(Readmitted, calls \ {c})
  /\ UNCHANGED <<scope, data, loaded, guard>>
AdjustmentAnswered(c) ==
  /\ c.channel = "adjustment-journal" /\ IsCurrent(c)
  /\ data' = [data EXCEPT !.journals = Rows(c.scope)] /\ loaded' = TRUE
  /\ OpenWorkflow(Rows(c.scope))
  /\ EnterPhase(Readmitted, calls \ {c})
  /\ UNCHANGED <<scope, guard>>

(* The journal of a settlement may be of another period of the company,    *)
(* which then becomes the selected one.                                    *)
SettlementAnswered(c) ==
  /\ c.channel \in Settlement /\ IsCurrent(c)
  /\ \E s \in granted :
       /\ SameCompany(s)
       /\ OpenWorkflow(Rows(s))
       /\ IF s = scope
          THEN /\ EnterPhase(Readmitted, calls \ {c})
               /\ loaded' = FALSE
               /\ UNCHANGED <<scope, data, guard>>
          ELSE Rescope(s, calls \ {c})

NothingAnswered(c) ==
  /\ ~(c.channel = "refresh" /\ IsCurrent(c))
  /\ calls' = calls \ {c}
  /\ UNCHANGED <<phase, scope, route, workflow, data, loaded, guard>>

Answered(c) ==
  /\ c.stage = "read"
  /\ \/ RefreshAnswered(c) \/ ReloadAnswered(c) \/ AutoRecAnswered(c)
     \/ DraftAnswered(c) \/ AdjustmentAnswered(c) \/ SettlementAnswered(c)
     \/ NothingAnswered(c)

(* A workspace's command succeeds and calls back, whatever has become of   *)
(* the workspace: the closure reads with the configuration and the         *)
(* generation it was rendered with.                                        *)
CommandDone(c) ==
  /\ c.stage = "command"
  /\ IF c.channel = "autorec"
     THEN /\ calls' = (calls \ {c}) \cup {[c EXCEPT !.stage = "read"]}
          /\ guard' = guard
     ELSE /\ MayBegin(c.generation)
          /\ calls' = (calls \ {c}) \cup {[Read(c.channel) EXCEPT !.scope = c.scope]}
          /\ guard' = Begun(c.channel)
  /\ UNCHANGED <<phase, scope, route, workflow, data, loaded>>
CommandDropped(c) ==
  /\ c.stage = "command"
  /\ calls' = calls \ {c}
  /\ UNCHANGED <<phase, scope, route, workflow, data, loaded, guard>>

CallEnds ==
  /\ \E c \in calls : Answered(c) \/ CommandDone(c) \/ CommandDropped(c)
  /\ UNCHANGED <<outside, acts>>

(* requireAuthentication: some read met a 401, or found no usable token.   *)
SessionRefused ==
  /\ \/ phase \in Inside \cup {"LOAD_FAILED"}
     \/ phase = "IDENTITY_FAILED" /\ calls # {}
  /\ guard' = Revoked /\ data' = NoRows
  /\ EnterPhase("LOGIN_REQUIRED", calls)
  /\ UNCHANGED <<scope, route, workflow, loaded, outside, acts>>

-----------------------------------------------------------------------------
(* The silent renewal, which waits for its answer through whatever the     *)
(* page does; completeRenewal reads the session again before it saves.     *)
RenewalStarted ==
  /\ phase \in (Inside \ {"ACCESS_DENIED"}) \cup {"LOAD_FAILED"}
  /\ session = "token" /\ ~renewing
  /\ renewing' = TRUE
  /\ UNCHANGED <<page, granted, catalogued, session, checked, overridden, acts>>
Renewed == IF session \in {"token", "expired"} THEN "token" ELSE session
RenewalAnswered ==
  /\ renewing
  /\ renewing' = FALSE
  /\ session' \in {Renewed, session}
  /\ UNCHANGED <<page, granted, catalogued, checked, overridden, acts>>
Expire ==
  /\ session = "token"
  /\ session' = "expired"
  /\ UNCHANGED <<page, granted, catalogued, renewing, checked, overridden, acts>>

-----------------------------------------------------------------------------
(* What the user does: React runs the effects of a page before it hands it *)
(* the next event.                                                         *)
Act ==
  /\ phase # "AUTHENTICATED" /\ ~LoadDue
  /\ acts < MaxActs /\ acts' = acts + 1

Navigate(r) ==
  /\ Shell /\ Act
  /\ route' = r /\ workflow' = None
  /\ EnterPhase(Readmitted, calls)
  /\ UNCHANGED <<scope, data, loaded, guard, outside>>

(* The address bar's fragment, in any phase; the open journal stays open.  *)
NavigateByHash(r) ==
  /\ r # route /\ Act
  /\ route' = r
  /\ EnterPhase(Readmitted, calls)
  /\ UNCHANGED <<scope, workflow, data, loaded, guard, outside>>

SelectScope(s) ==
  /\ Shell /\ catalogued /\ s \in granted \ {scope} /\ Act
  /\ Rescope(s, calls)
  /\ workflow' = None
  /\ UNCHANGED <<route, outside>>

(* The refresh button of the shell, and Try again after a failed load.     *)
PressRefresh ==
  /\ Shell \/ phase = "LOAD_FAILED"
  /\ Act
  /\ Refresh
  /\ overridden' = (overridden \/ ~checked)
  /\ UNCHANGED <<granted, catalogued, session, renewing, checked>>

StartRead(channel) ==
  /\ phase = "READY" /\ channel \in Offered[route]
  /\ channel \in Settlement => catalogued
  /\ Act
  /\ guard' = Begun(channel)
  /\ calls' = calls \cup {Read(channel)}
  /\ UNCHANGED <<phase, scope, route, workflow, data, loaded, outside>>

StartCommand ==
  /\ phase = "READY" /\ Act
  /\ \/ route = "approvals" /\ calls' = calls \cup {Command("controlled-workflow")}
     \/ route = "wbs-autorec-evidence" /\ calls' = calls \cup {Command("autorec")}
  /\ UNCHANGED <<phase, scope, route, workflow, data, loaded, guard, outside>>

(* The journal workflow: opened from a row on the approvals page; a change *)
(* made there, and leaving it, make the shared rows stale.                 *)
OpenJournal ==
  /\ phase = "READY" /\ route = "approvals" /\ data.journals # None /\ Act
  /\ OpenWorkflow(data.journals)
  /\ UNCHANGED <<phase, scope, data, loaded, guard, calls, outside>>
ChangeJournal ==
  /\ phase = "READY" /\ route = "journals" /\ workflow # None /\ Act
  /\ loaded' = FALSE
  /\ workflow' \in {workflow, None}
  /\ UNCHANGED <<phase, scope, route, data, guard, calls, outside>>

Logout ==
  /\ Shell \/ phase = "LOAD_FAILED"
  /\ Act
  /\ guard' = Revoked /\ data' = NoRows
  /\ EnterPhase("LOGIN_REQUIRED", calls)
  /\ session' = "none"
  /\ UNCHANGED <<scope, route, workflow, loaded, granted, catalogued, renewing,
                 checked, overridden>>

(* startLogin: the pending record takes the session's place and the page   *)
(* leaves for the provider, unless there is no storage.                    *)
SignIn ==
  /\ phase \in SignedOut \cup Inside \cup {"LOAD_FAILED"}
  /\ Act
  /\ \/ session' = "pending" /\ FreshPage
     \/ /\ EnterPhase("IDENTITY_FAILED", calls)
        /\ UNCHANGED <<scope, route, workflow, data, loaded, guard, outside>>
Reload == Act /\ FreshPage /\ UNCHANGED session

UserActs ==
  \/ \E r \in Route : Navigate(r) \/ NavigateByHash(r)
  \/ \E s \in Scope : SelectScope(s)
  \/ \E channel \in Channel : StartRead(channel)
  \/ PressRefresh \/ StartCommand \/ OpenJournal \/ ChangeJournal
  \/ Logout \/ SignIn \/ Reload

Next ==
  \/ IdentityChecked \/ ReleaseChecked
  \/ EnterAccounting \/ LoadShared \/ CatalogRead \/ Fallback
  \/ CallEnds \/ SessionRefused
  \/ RenewalStarted \/ RenewalAnswered \/ Expire
  \/ UserActs

(* React runs the effect that enters the accounting, and every request is  *)
(* answered or given up by the browser in the end; nothing is asked of the *)
(* user or the provider.                                                   *)
Fairness == WF_vars(EnterAccounting) /\ WF_vars(CallEnds)

Spec == Init /\ [][Next]_vars /\ Fairness

-----------------------------------------------------------------------------
TypeOK ==
  /\ phase \in Phase
  /\ scope \in Scope
  /\ route \in Route
  /\ workflow \in Origin \cup {None}
  /\ data \in [documents : Origin \cup {None}, journals : Origin \cup {None}]
  /\ loaded \in BOOLEAN
  /\ guard \in [generation : Nat, issued : Nat, latest : [Channel -> Nat]]
  /\ calls \subseteq [channel : Channel \cup {"autorec"}, stage : {"read", "command"},
                      scope : Scope, generation : 0 .. guard.generation,
                      id : 0 .. guard.issued]
  /\ granted \subseteq Scope
  /\ catalogued \in BOOLEAN
  /\ session \in {"none", "pending", "token", "expired"}
  /\ renewing \in BOOLEAN
  /\ checked \in BOOLEAN
  /\ overridden \in BOOLEAN
  /\ acts \in 0 .. MaxActs

(* The rows the guard let in are of the selected company and period, and   *)
(* none are held after a sign-out or a refused session: a delayed answer   *)
(* of company A cannot overwrite company B, nor come back once they are    *)
(* gone (authoritative-read-guard.js lines 1-2).                           *)
InScope(rows) ==
  rows # None /\ rows.guarded => rows.scope = scope /\ phase # "LOGIN_REQUIRED"
ShownInScope == InScope(data.documents) /\ InScope(data.journals)

(* The journal opened for its workflow is one of the selected company and  *)
(* period, whichever of the page's readers opened it and however the scope *)
(* moved meanwhile, unless it was picked from rows no guard let in         *)
(* (openNativeSettlementDraft, line 644).                                  *)
WorkflowInScope ==
  workflow # None /\ workflow.guarded => workflow.scope = scope

(* No empty list is shown for one that was not read: on a page of shared   *)
(* rows that counts as loaded, both parts of the bundle are there (the     *)
(* effect at line 572 reads them once, when the flag is down).             *)
LoadedIsWhole ==
  (phase = "READY" /\ SharedNeeded /\ loaded)
    => data.documents # None /\ data.journals # None

(* No accounting reader or command starts before the release stamps of     *)
(* client and API match (lines 285-288), but for the user's Try again,     *)
(* which reads without asking for the stamps once more.                    *)
ReleaseBeforeReads ==
  (phase \in Inside \/ calls # {} \/ data # NoRows) => checked \/ overridden

(* After a sign-out, or a session the API refused, nothing that was under  *)
(* way brings the page or the token back: only a page load and the         *)
(* provider do (completeRenewal reads the session again, oidc-client.js).  *)
SignedOutStays ==
  [][/\ phase = "LOGIN_REQUIRED"
          => phase' \in SignedOut \cup {"CHECKING_IDENTITY"}
     /\ session = "none" => session' \in {"none", "pending"}]_vars

(* The page never stays at "Loading": answers that the guard drops leave a *)
(* refresh behind that is still to come.                                   *)
Loading == phase \in {"AUTHENTICATED", "LOADING_ACCOUNTING"}
LoadingEnds == Loading ~> ~Loading
=============================================================================
