------------------------ MODULE AccountingPageProofs ------------------------
(***************************************************************************)
(* Proofs about AccountingPage: for any scopes, companies and number of    *)
(* acts.                                                                   *)
(***************************************************************************)
EXTENDS AccountingPage, TLAPS

Whole == data.documents # None /\ data.journals # None

(* Nothing has been read before the release check.                         *)
Unverified ==
  phase \in {"CHECKING_IDENTITY", "CHECKING_RELEASE"}
    => calls = {} /\ data = NoRows /\ ~loaded

(* A call the guard may still let in belongs to the page as it stands: its *)
(* scope is the selected one, nobody has signed out, and an adjustment was *)
(* opened from a page that had its rows.                                   *)
Live(c) == c.generation = guard.generation
Belongs(c) ==
  /\ c.scope = scope /\ phase # "LOGIN_REQUIRED"
  /\ loaded \/ c.channel = "adjustment-journal" => Whole
CallsSound ==
  \A c \in calls :
    /\ c.stage = "command" => c.channel \in {"controlled-workflow", "autorec"}
    /\ Live(c) => Belongs(c)

(* The page is loaded only with both parts of the bundle, except after a   *)
(* sign-out.                                                               *)
LoadedSound == phase \notin SignedOut /\ loaded => Whole

Sound ==
  /\ ShownInScope /\ WorkflowInScope /\ ReleaseBeforeReads
  /\ Unverified /\ CallsSound /\ LoadedSound
PageInv == TypeOK /\ Sound

Call == [channel : Channel \cup {"autorec"}, stage : {"read", "command"},
         scope : Scope, generation : 0 .. guard.generation, id : 0 .. guard.issued]

-----------------------------------------------------------------------------
(* What the page's helpers do.                                             *)

LEMMA SurvivingIsSubset ==
  ASSUME NEW p, NEW C
  PROVE  Surviving(p, C) \subseteq C
BY DEF Surviving

LEMMA Phases ==
  /\ Phase = {"LOGIN_REQUIRED", "IDENTITY_FAILED", "AUTHENTICATED",
              "LOADING_ACCOUNTING", "READY", "ACCESS_DENIED",
              "CHECKING_IDENTITY", "CHECKING_RELEASE", "LOAD_FAILED"}
  /\ TypeOK => Readmitted \in Phase
BY DEF Phase, SignedOut, Inside, TypeOK, Readmitted

LEMMA GuardTypes ==
  ASSUME TypeOK
  PROVE  /\ Revoked \in [generation : Nat, issued : Nat, latest : [Channel -> Nat]]
         /\ Revoked.generation = guard.generation + 1
         /\ Revoked.issued = guard.issued
         /\ Fresh \in [generation : Nat, issued : Nat, latest : [Channel -> Nat]]
         /\ \A channel \in Channel :
              /\ Begun(channel)
                   \in [generation : Nat, issued : Nat, latest : [Channel -> Nat]]
              /\ Begun(channel).generation = guard.generation
              /\ Begun(channel).issued = guard.issued + 1
<1>. DEFINE Guard == [generation : Nat, issued : Nat, latest : [Channel -> Nat]]
<1>1. guard \in Guard
  BY DEF TypeOK
<1>2. [c \in Channel |-> 0] \in [Channel -> Nat]
  OBVIOUS
<1>3. /\ Revoked \in Guard
      /\ Revoked.generation = guard.generation + 1
      /\ Revoked.issued = guard.issued
  <2>. DEFINE none == [c \in Channel |-> 0]
  <2>1. Revoked = [guard EXCEPT !.generation = guard.generation + 1, !.latest = none]
    BY <1>1 DEF Revoked
  <2>2. guard.generation + 1 \in Nat /\ none \in [Channel -> Nat]
    BY <1>1, <1>2
  <2>. HIDE DEF none
  <2>. QED  BY <1>1, <2>1, <2>2
<1>4. Fresh \in Guard
  BY <1>2 DEF Fresh
<1>5. ASSUME NEW channel \in Channel
      PROVE  /\ Begun(channel) \in Guard
             /\ Begun(channel).generation = guard.generation
             /\ Begun(channel).issued = guard.issued + 1
  <2>1. /\ guard.issued + 1 \in Nat
        /\ [guard.latest EXCEPT ![channel] = guard.issued + 1] \in [Channel -> Nat]
    BY <1>1
  <2>2. Begun(channel)
          = [guard EXCEPT !.issued = guard.issued + 1,
                          !.latest = [guard.latest EXCEPT ![channel] = guard.issued + 1]]
    BY <1>1 DEF Begun
  <2>. QED  BY <1>1, <2>1, <2>2
<1>. QED  BY <1>3, <1>4, <1>5

(* The calls of a page stay typed when the guard moves on.                 *)
LEMMA CallsTyped ==
  ASSUME TypeOK, NEW C \in SUBSET calls,
         guard' \in [generation : Nat, issued : Nat, latest : [Channel -> Nat]],
         guard'.generation >= guard.generation, guard'.issued >= guard.issued
  PROVE  C \subseteq Call'
<1>. SUFFICES ASSUME NEW c \in C PROVE c \in Call'
  OBVIOUS
<1>1. /\ c \in Call
      /\ guard.generation \in Nat /\ guard.issued \in Nat
      /\ guard'.generation \in Nat /\ guard'.issued \in Nat
  BY DEF TypeOK, Call
<1>2. 0 .. guard.generation \subseteq 0 .. guard'.generation
  BY <1>1
<1>3. 0 .. guard.issued \subseteq 0 .. guard'.issued
  BY <1>1
<1>. QED  BY <1>1, <1>2, <1>3 DEF Call

(* A call leaves, or calls are dropped with the guard revoked.             *)
LEMMA FewerCalls ==
  ASSUME PageInv, calls' \subseteq calls, guard' = guard, scope' = scope,
         loaded' = loaded, data' = data,
         phase # "LOGIN_REQUIRED" => phase' # "LOGIN_REQUIRED"
  PROVE  CallsSound'
BY DEF PageInv, Sound, CallsSound, Belongs, Live, Whole

LEMMA RevokedCalls ==
  ASSUME PageInv, calls' \subseteq calls, guard' = Revoked
  PROVE  CallsSound'
<1>1. guard.generation \in Nat /\ guard'.generation = guard.generation + 1
  BY GuardTypes DEF PageInv, TypeOK
<1>2. ASSUME NEW c \in calls' PROVE c.generation \in 0 .. guard.generation
  BY <1>2 DEF PageInv, TypeOK
<1>3. ASSUME NEW c \in calls' PROVE c.generation # guard'.generation
  BY <1>1, <1>2
<1>. QED  BY <1>3 DEF PageInv, Sound, CallsSound, Live

-----------------------------------------------------------------------------
(* Type correctness, an action at a time.                                  *)

LEMMA LoadTypes ==
  ASSUME TypeOK, FreshPage, session' \in {"none", "pending", "token", "expired"},
         acts' \in 0 .. MaxActs
  PROVE  TypeOK'
BY GuardTypes, PageAssumption DEF TypeOK, FreshPage, Phase, NoRows

LEMMA RefreshTypes ==
  ASSUME TypeOK, Refresh
  PROVE  /\ phase' \in Phase /\ calls' \subseteq Call'
         /\ guard' \in [generation : Nat, issued : Nat, latest : [Channel -> Nat]]
<1>1. guard' = Begun("refresh") /\ "refresh" \in Channel
  BY DEF Refresh, Channel
<1>2. /\ guard' \in [generation : Nat, issued : Nat, latest : [Channel -> Nat]]
      /\ guard'.generation = guard.generation
      /\ guard'.issued = guard.issued + 1
      /\ guard.generation \in Nat /\ guard.issued \in Nat
  BY <1>1, GuardTypes DEF TypeOK
<1>3. phase' \in Phase
  BY Phases DEF Refresh, EnterPhase
<1>4. calls' \subseteq calls \cup {Read("refresh")}
  BY SurvivingIsSubset DEF Refresh, EnterPhase
<1>5. calls \subseteq Call'
  BY <1>2, CallsTyped
<1>6. Read("refresh") \in Call'
  BY <1>1, <1>2 DEF Read, Call, TypeOK
<1>. QED  BY <1>2, <1>3, <1>4, <1>5, <1>6

LEMMA RescopeTypes ==
  ASSUME TypeOK, NEW s \in Scope, NEW C \in SUBSET calls, Rescope(s, C)
  PROVE  /\ phase' \in Phase /\ scope' \in Scope /\ calls' \subseteq Call'
         /\ guard' \in [generation : Nat, issued : Nat, latest : [Channel -> Nat]]
         /\ data' = NoRows /\ loaded' = FALSE
<1>1. guard' = Revoked
  BY DEF Rescope
<1>2. /\ guard' \in [generation : Nat, issued : Nat, latest : [Channel -> Nat]]
      /\ guard'.generation >= guard.generation /\ guard'.issued >= guard.issued
  BY <1>1, GuardTypes DEF TypeOK
<1>3. calls' \subseteq C
  BY SurvivingIsSubset DEF Rescope, EnterPhase
<1>4. calls' \subseteq Call'
  BY <1>2, <1>3, CallsTyped
<1>. QED  BY <1>2, <1>4, Phases DEF Rescope, EnterPhase, ScopePhase, LoadedOn

LEMMA SignOutTypes ==
  ASSUME TypeOK, guard' = Revoked, EnterPhase("LOGIN_REQUIRED", calls)
  PROVE  /\ phase' \in Phase /\ calls' \subseteq Call'
         /\ guard' \in [generation : Nat, issued : Nat, latest : [Channel -> Nat]]
<1>1. /\ guard' \in [generation : Nat, issued : Nat, latest : [Channel -> Nat]]
      /\ guard'.generation >= guard.generation /\ guard'.issued >= guard.issued
  BY GuardTypes DEF TypeOK
<1>2. calls' \in SUBSET calls
  BY SurvivingIsSubset DEF EnterPhase
<1>. QED  BY <1>1, <1>2, CallsTyped, Phases DEF EnterPhase

(* The guard stands and no call begins.                                    *)
LEMMA SteadyTypes ==
  ASSUME TypeOK, guard' = guard, NEW p, NEW C \in SUBSET calls, EnterPhase(p, C)
  PROVE  phase' = p /\ calls' \subseteq calls /\ calls' \subseteq Call'
BY SurvivingIsSubset DEF EnterPhase, TypeOK, Call

LEMMA AnswerTypes ==
  ASSUME PageInv, NEW c \in calls, Answered(c), UNCHANGED <<outside, acts>>
  PROVE  TypeOK'
<1>1. c \in Call /\ TypeOK /\ granted \subseteq Scope
  BY DEF PageInv, TypeOK, Call
<1>2. Rows(c.scope) \in Origin /\ [scope |-> c.scope, guarded |-> FALSE] \in Origin
  BY <1>1 DEF Rows, Call, Origin
<1>3. calls \ {c} \in SUBSET calls /\ Readmitted \in Phase
  BY <1>1, Phases
<1>. USE DEF outside, OpenWorkflow, Both, Route, SharedRoute
<1>4. CASE RefreshAnswered(c)
  <2>1. PICK p \in {"READY", "ACCESS_DENIED", "LOAD_FAILED"} : EnterPhase(p, calls \ {c})
    BY <1>4 DEF RefreshAnswered
  <2>2. phase' \in Phase /\ calls' \subseteq Call'
    BY <1>1, <1>3, <1>4, <2>1, SteadyTypes, Phases DEF RefreshAnswered
  <2>3. /\ data' \in [documents : Origin \cup {None}, journals : Origin \cup {None}]
        /\ loaded' \in BOOLEAN /\ UNCHANGED <<scope, route, workflow, guard>>
    <3>1. CASE data' = Both(Rows(c.scope)) /\ loaded' = TRUE
      BY <1>2, <1>4, <3>1 DEF RefreshAnswered
    <3>2. CASE UNCHANGED <<data, loaded>>
      BY <1>1, <1>4, <3>2 DEF RefreshAnswered, TypeOK
    <3>. QED  BY <1>4, <3>1, <3>2 DEF RefreshAnswered
  <2>. QED  BY <1>1, <2>2, <2>3 DEF TypeOK, Call
<1>5. CASE ReloadAnswered(c)
  BY <1>1, <1>2, <1>5 DEF ReloadAnswered, TypeOK
<1>6. CASE AutoRecAnswered(c)
  BY <1>1, <1>2, <1>6 DEF AutoRecAnswered, TypeOK
<1>7. CASE DraftAnswered(c)
  <2>1. phase' \in Phase /\ calls' \subseteq Call'
    BY <1>1, <1>3, <1>7, SteadyTypes DEF DraftAnswered
  <2>. QED  BY <1>1, <1>2, <1>7, <2>1 DEF DraftAnswered, TypeOK, Call
<1>8. CASE AdjustmentAnswered(c)
  <2>1. phase' \in Phase /\ calls' \subseteq Call'
    BY <1>1, <1>3, <1>8, SteadyTypes DEF AdjustmentAnswered
  <2>. QED  BY <1>1, <1>2, <1>8, <2>1 DEF AdjustmentAnswered, TypeOK, Call
<1>9. CASE SettlementAnswered(c)
  <2>1. PICK s \in granted :
          /\ OpenWorkflow(Rows(s))
          /\ IF s = scope
             THEN /\ EnterPhase(Readmitted, calls \ {c})
                  /\ loaded' = FALSE
                  /\ UNCHANGED <<scope, data, guard>>
             ELSE Rescope(s, calls \ {c})
    BY <1>9 DEF SettlementAnswered
  <2>2. s \in Scope /\ workflow' \in Origin /\ route' \in Route
    BY <1>1, <2>1 DEF Rows, Origin
  <2>3. CASE s = scope
    <3>1. phase' \in Phase /\ calls' \subseteq Call'
      BY <1>1, <1>3, <2>1, <2>3, SteadyTypes
    <3>. QED  BY <1>1, <2>1, <2>2, <2>3, <3>1 DEF TypeOK, Call
  <2>4. CASE s # scope
    <3>1. /\ phase' \in Phase /\ scope' \in Scope /\ calls' \subseteq Call'
          /\ guard' \in [generation : Nat, issued : Nat, latest : [Channel -> Nat]]
          /\ data' = NoRows /\ loaded' = FALSE
      BY <1>1, <1>3, <2>1, <2>2, <2>4, RescopeTypes
    <3>. QED  BY <1>1, <2>2, <3>1 DEF TypeOK, Call, NoRows
  <2>. QED  BY <2>3, <2>4
<1>10. CASE NothingAnswered(c)
  BY <1>1, <1>10 DEF NothingAnswered, TypeOK
<1>. QED
  BY <1>4, <1>5, <1>6, <1>7, <1>8, <1>9, <1>10 DEF Answered

LEMMA CommandTypes ==
  ASSUME PageInv, NEW c \in calls, CommandDone(c) \/ CommandDropped(c),
         UNCHANGED <<outside, acts>>
  PROVE  TypeOK'
<1>1. c \in Call /\ TypeOK
  BY DEF PageInv, TypeOK, Call
<1>. USE DEF outside
<1>2. CASE CommandDropped(c)
  BY <1>1, <1>2 DEF CommandDropped, TypeOK
<1>3. CASE CommandDone(c) /\ c.channel = "autorec"
  <2>1. guard' = guard /\ calls' \subseteq calls \cup {[c EXCEPT !.stage = "read"]}
    BY <1>3 DEF CommandDone
  <2>2. [c EXCEPT !.stage = "read"] \in Call
    BY <1>1 DEF Call
  <2>. QED  BY <1>1, <1>3, <2>1, <2>2 DEF CommandDone, TypeOK, Call
<1>4. CASE CommandDone(c) /\ c.channel # "autorec"
  <2>1. guard' = Begun(c.channel) /\ c.channel \in Channel
    BY <1>1, <1>4 DEF CommandDone, Call
  <2>2. /\ guard' \in [generation : Nat, issued : Nat, latest : [Channel -> Nat]]
        /\ guard'.generation = guard.generation
        /\ guard'.issued = guard.issued + 1
        /\ guard.generation \in Nat /\ guard.issued \in Nat
    BY <1>1, <2>1, GuardTypes DEF TypeOK
  <2>3. calls \subseteq Call'
    BY <1>1, <2>2, CallsTyped
  <2>4. [Read(c.channel) EXCEPT !.scope = c.scope] \in Call'
    BY <1>1, <1>4, <2>1, <2>2 DEF Read, Call, TypeOK, CommandDone
  <2>5. calls' \subseteq Call'
    BY <1>4, <2>3, <2>4 DEF CommandDone
  <2>. QED  BY <1>1, <1>4, <2>2, <2>5 DEF CommandDone, TypeOK, Call
<1>. QED  BY <1>2, <1>3, <1>4

LEMMA UserTypes ==
  ASSUME PageInv, UserActs
  PROVE  TypeOK'
<1>1. TypeOK /\ acts' \in 0 .. MaxActs /\ calls \in SUBSET calls /\ Readmitted \in Phase
  BY Phases, PageAssumption
  DEF PageInv, TypeOK, UserActs, Act, Navigate, NavigateByHash, SelectScope, PressRefresh,
      StartRead, StartCommand, OpenJournal, ChangeJournal, Logout, SignIn, Reload
<1>. USE DEF outside, OpenWorkflow, Route, SharedRoute
<1>2. CASE \E r \in Route : Navigate(r) \/ NavigateByHash(r)
  <2>1. PICK r \in Route : Navigate(r) \/ NavigateByHash(r)
    BY <1>2
  <2>2. phase' \in Phase /\ calls' \subseteq Call'
    BY <1>1, <2>1, SteadyTypes DEF Navigate, NavigateByHash
  <2>. QED  BY <1>1, <2>1, <2>2 DEF Navigate, NavigateByHash, TypeOK, Call
<1>3. CASE \E s \in Scope : SelectScope(s)
  <2>1. PICK s \in Scope : SelectScope(s)
    BY <1>3
  <2>2. /\ phase' \in Phase /\ scope' \in Scope /\ calls' \subseteq Call'
        /\ guard' \in [generation : Nat, issued : Nat, latest : [Channel -> Nat]]
        /\ data' = NoRows /\ loaded' = FALSE
    BY <1>1, <2>1, RescopeTypes DEF SelectScope
  <2>. QED  BY <1>1, <2>1, <2>2 DEF SelectScope, TypeOK, Call, NoRows
<1>4. CASE \E channel \in Channel : StartRead(channel)
  <2>1. PICK channel \in Channel : StartRead(channel)
    BY <1>4
  <2>2. /\ guard' \in [generation : Nat, issued : Nat, latest : [Channel -> Nat]]
        /\ guard'.generation = guard.generation
        /\ guard'.issued = guard.issued + 1
        /\ guard.generation \in Nat /\ guard.issued \in Nat
    BY <1>1, <2>1, GuardTypes DEF TypeOK, StartRead
  <2>3. calls \subseteq Call' /\ Read(channel) \in Call'
    BY <1>1, <2>2, CallsTyped DEF Read, Call, TypeOK
  <2>. QED  BY <1>1, <2>1, <2>2, <2>3 DEF StartRead, TypeOK, Call
<1>5. CASE PressRefresh
  <2>1. /\ phase' \in Phase /\ calls' \subseteq Call'
        /\ guard' \in [generation : Nat, issued : Nat, latest : [Channel -> Nat]]
    BY <1>1, <1>5, RefreshTypes DEF PressRefresh
  <2>. QED  BY <1>1, <1>5, <2>1 DEF PressRefresh, Refresh, TypeOK, Call
<1>6. CASE StartCommand
  <2>1. Command("controlled-workflow") \in Call /\ Command("autorec") \in Call
    BY <1>1 DEF Command, Call, TypeOK, Channel
  <2>. QED  BY <1>1, <1>6, <2>1 DEF StartCommand, TypeOK, Call
<1>7. CASE OpenJournal
  BY <1>1, <1>7 DEF OpenJournal, TypeOK
<1>8. CASE ChangeJournal
  BY <1>1, <1>8 DEF ChangeJournal, TypeOK
<1>9. CASE Logout
  <2>1. /\ phase' \in Phase /\ calls' \subseteq Call'
        /\ guard' \in [generation : Nat, issued : Nat, latest : [Channel -> Nat]]
    BY <1>1, <1>9, SignOutTypes DEF Logout
  <2>. QED  BY <1>1, <1>9, <2>1 DEF Logout, TypeOK, Call, NoRows
<1>10. CASE SignIn
  <2>1. CASE FreshPage /\ session' = "pending"
    BY <1>1, <2>1, LoadTypes
  <2>2. CASE EnterPhase("IDENTITY_FAILED", calls)
             /\ UNCHANGED <<scope, route, workflow, data, loaded, guard, outside>>
    <3>1. phase' \in Phase /\ calls' \subseteq Call'
      BY <1>1, <2>2, SteadyTypes, Phases
    <3>. QED  BY <1>1, <2>2, <3>1 DEF TypeOK, Call
  <2>. QED  BY <1>10, <2>1, <2>2 DEF SignIn
<1>11. CASE Reload
  <2>1. session' \in {"none", "pending", "token", "expired"}
    BY <1>1, <1>11 DEF Reload, TypeOK
  <2>. QED  BY <1>1, <1>11, <2>1, LoadTypes DEF Reload
<1>. QED
  BY <1>2, <1>3, <1>4, <1>5, <1>6, <1>7, <1>8, <1>9, <1>10, <1>11 DEF UserActs

LEMMA StepTypes ==
  ASSUME PageInv, [Next]_vars
  PROVE  TypeOK'
<1>1. TypeOK /\ calls \in SUBSET calls
  BY DEF PageInv
<1>. USE DEF outside
<1>2. CASE IdentityChecked
  <2>1. acts' \in 0 .. MaxActs
    BY <1>1, <1>2 DEF IdentityChecked, TypeOK
  <2>2. CASE FreshPage /\ session' = "pending"
    BY <1>1, <2>1, <2>2, LoadTypes
  <2>. QED
    BY <1>1, <1>2, <2>1, <2>2 DEF IdentityChecked, TypeOK, Phase
<1>3. CASE ReleaseChecked
  <2>1. PICK p \in {"AUTHENTICATED", "LOAD_FAILED"} : EnterPhase(p, calls)
    BY <1>3 DEF ReleaseChecked
  <2>2. phase' \in Phase /\ calls' \subseteq Call'
    BY <1>1, <1>3, <2>1, SteadyTypes, Phases DEF ReleaseChecked
  <2>. QED  BY <1>1, <1>3, <2>2 DEF ReleaseChecked, TypeOK, Call
<1>4. CASE EnterAccounting \/ LoadShared
  <2>1. /\ phase' \in Phase /\ calls' \subseteq Call'
        /\ guard' \in [generation : Nat, issued : Nat, latest : [Channel -> Nat]]
    BY <1>1, <1>4, RefreshTypes DEF EnterAccounting, LoadShared
  <2>. QED  BY <1>1, <1>4, <2>1 DEF EnterAccounting, LoadShared, Refresh, TypeOK, Call
<1>5. CASE Fallback
  <2>1. PICK s \in Scope : Rescope(s, calls)
    BY <1>1, <1>5 DEF Fallback, TypeOK
  <2>2. /\ phase' \in Phase /\ scope' \in Scope /\ calls' \subseteq Call'
        /\ guard' \in [generation : Nat, issued : Nat, latest : [Channel -> Nat]]
        /\ data' = NoRows /\ loaded' = FALSE
    BY <1>1, <2>1, RescopeTypes
  <2>. QED  BY <1>1, <1>5, <2>2 DEF Fallback, TypeOK, Call, NoRows
<1>6. CASE CallEnds
  BY <1>6, AnswerTypes, CommandTypes DEF CallEnds
<1>7. CASE SessionRefused
  <2>1. /\ phase' \in Phase /\ calls' \subseteq Call'
        /\ guard' \in [generation : Nat, issued : Nat, latest : [Channel -> Nat]]
    BY <1>1, <1>7, SignOutTypes DEF SessionRefused
  <2>. QED  BY <1>1, <1>7, <2>1 DEF SessionRefused, TypeOK, Call, NoRows
<1>8. CASE CatalogRead \/ RenewalStarted \/ RenewalAnswered \/ Expire
  BY <1>1, <1>8
  DEF CatalogRead, RenewalStarted, RenewalAnswered, Renewed, Expire, page, TypeOK
<1>9. CASE UNCHANGED vars
  BY <1>1, <1>9 DEF vars, page, TypeOK
<1>. QED
  BY <1>2, <1>3, <1>4, <1>5, <1>6, <1>7, <1>8, <1>9, UserTypes DEF Next

-----------------------------------------------------------------------------
(* What may be read and shown, an action at a time.                        *)

LEMMA LoadSound ==
  ASSUME FreshPage
  PROVE  Sound'
BY DEF FreshPage, Sound, ShownInScope, InScope, WorkflowInScope, ReleaseBeforeReads,
       Unverified, CallsSound, LoadedSound, NoRows, Inside, SignedOut

(* Neither the guard nor the rows nor the scope move, and no call begins.  *)
LEMMA SteadySound ==
  ASSUME PageInv, calls' \subseteq calls,
         UNCHANGED <<scope, data, loaded, guard, checked, overridden>>,
         phase' = phase
           \/ /\ phase' \in Inside \cup {"LOAD_FAILED", "IDENTITY_FAILED"}
              /\ phase \in SignedOut => phase' \in SignedOut \/ (loaded => Whole)
              /\ phase' \in Inside => checked \/ overridden,
         workflow' # None /\ workflow'.guarded => workflow'.scope = scope
  PROVE  Sound'
<1>1. CallsSound'
  BY DEF PageInv, Sound, CallsSound, Belongs, Live, Whole, Inside
<1>2. ShownInScope' /\ WorkflowInScope'
  BY DEF PageInv, Sound, ShownInScope, InScope, WorkflowInScope, Inside
<1>3. ReleaseBeforeReads' /\ Unverified'
  BY DEF PageInv, Sound, ReleaseBeforeReads, Unverified, Inside
<1>4. LoadedSound'
  BY DEF PageInv, Sound, LoadedSound, Whole, Inside, SignedOut
<1>. QED  BY <1>1, <1>2, <1>3, <1>4 DEF Sound

(* Rows arrive.                                                            *)
LEMMA RowsSound ==
  ASSUME PageInv, calls' \subseteq calls, calls # {},
         UNCHANGED <<scope, guard, checked, overridden>>,
         phase' = phase \/ phase' \in Inside,
         ShownInScope', Whole',
         workflow' # None /\ workflow'.guarded => workflow'.scope = scope
  PROVE  Sound'
<1>1. CallsSound'
  BY DEF PageInv, Sound, CallsSound, Belongs, Live, Inside
<1>2. WorkflowInScope' /\ LoadedSound'
  BY DEF WorkflowInScope, LoadedSound
<1>3. ReleaseBeforeReads' /\ Unverified'
  BY DEF PageInv, Sound, ReleaseBeforeReads, Unverified, Inside
<1>. QED  BY <1>1, <1>2, <1>3 DEF Sound

(* A call begins.                                                          *)
LEMMA BeginSound ==
  ASSUME PageInv, NEW n, calls' \subseteq calls \cup {n},
         n.stage = "command" => n.channel \in {"controlled-workflow", "autorec"},
         Live(n) => Belongs(n),
         guard'.generation = guard.generation,
         UNCHANGED <<scope, data, loaded, workflow, checked>>,
         phase' = phase \/ (phase' \in Inside /\ phase \notin SignedOut),
         phase \notin {"CHECKING_IDENTITY", "CHECKING_RELEASE"},
         overridden => overridden', checked' \/ overridden'
  PROVE  Sound'
<1>1. CallsSound'
  BY DEF PageInv, Sound, CallsSound, Belongs, Live, Whole, Inside
<1>2. ShownInScope' /\ WorkflowInScope'
  BY DEF PageInv, Sound, ShownInScope, InScope, WorkflowInScope, Inside
<1>3. ReleaseBeforeReads' /\ Unverified'
  BY DEF ReleaseBeforeReads, Unverified, Inside
<1>4. LoadedSound'
  BY DEF PageInv, Sound, LoadedSound, Whole, Inside, SignedOut
<1>. QED  BY <1>1, <1>2, <1>3, <1>4 DEF Sound

(* The page takes up another scope.                                        *)
LEMMA RescopeSound ==
  ASSUME PageInv, NEW s, NEW C \in SUBSET calls, Rescope(s, C),
         UNCHANGED <<checked, overridden>>, checked \/ overridden,
         workflow' # None /\ workflow'.guarded => workflow'.scope = s
  PROVE  Sound'
<1>1. /\ calls' \subseteq calls /\ guard' = Revoked /\ scope' = s
      /\ phase' = "AUTHENTICATED" /\ data' = NoRows /\ loaded' = FALSE
  BY SurvivingIsSubset DEF Rescope, EnterPhase, ScopePhase, LoadedOn
<1>2. CallsSound'
  BY <1>1, RevokedCalls
<1>. QED
  BY <1>1, <1>2
  DEF Sound, ShownInScope, InScope, WorkflowInScope, ReleaseBeforeReads, Unverified,
      LoadedSound, NoRows

LEMMA SignOutSound ==
  ASSUME PageInv, guard' = Revoked, data' = NoRows, EnterPhase("LOGIN_REQUIRED", calls),
         UNCHANGED <<scope, workflow, checked, overridden>>
  PROVE  Sound'
<1>1. calls' \subseteq calls /\ phase' = "LOGIN_REQUIRED"
  BY SurvivingIsSubset DEF EnterPhase
<1>2. CallsSound'
  BY <1>1, RevokedCalls
<1>3. ReleaseBeforeReads'
  BY <1>1 DEF PageInv, Sound, ReleaseBeforeReads, Inside
<1>. QED
  BY <1>1, <1>2, <1>3
  DEF PageInv, Sound, ShownInScope, InScope, WorkflowInScope, Unverified, LoadedSound,
      NoRows, SignedOut

-----------------------------------------------------------------------------
LEMMA AnswerSound ==
  ASSUME PageInv, NEW c \in calls, Answered(c), UNCHANGED <<outside, acts>>
  PROVE  Sound'
<1>1. /\ c \in Call /\ TypeOK /\ Sound
      /\ checked \/ overridden
      /\ IsCurrent(c) => Belongs(c)
  BY DEF PageInv, Sound, TypeOK, Call, ReleaseBeforeReads, CallsSound, IsCurrent, Live
<1>. DEFINE unguarded == [scope |-> c.scope, guarded |-> FALSE]
<1>2. Rows(c.scope) # None
  <2>1. Rows(c.scope) \in Origin
    BY <1>1 DEF Rows, Call, Origin
  <2>. QED  BY <2>1, PageAssumption
<1>3. unguarded # None
  <2>1. unguarded \in Origin
    BY <1>1 DEF Call, Origin
  <2>. QED  BY <2>1, PageAssumption
<1>4. Surviving(phase', calls \ {c}) \subseteq calls /\ calls \ {c} \in SUBSET calls
  BY SurvivingIsSubset
<1>5. workflow # None /\ workflow.guarded => workflow.scope = scope
  BY <1>1 DEF Sound, WorkflowInScope
<1>6. Readmitted = phase \/ (phase = "ACCESS_DENIED" /\ Readmitted = "AUTHENTICATED")
  BY DEF Readmitted
<1>. USE DEF outside
<1>7. CASE RefreshAnswered(c)
  <2>1. CASE data' = Both(Rows(c.scope)) /\ EnterPhase("READY", calls \ {c})
    <3>1. ShownInScope' /\ Whole'
      BY <1>1, <1>2, <1>7, <2>1
      DEF RefreshAnswered, Belongs, ShownInScope, InScope, Whole, Both, Rows, EnterPhase
    <3>. QED
      BY <1>1, <1>4, <1>5, <1>7, <2>1, <3>1, RowsSound
      DEF RefreshAnswered, EnterPhase, Inside
  <2>2. CASE /\ \E p \in {"ACCESS_DENIED", "LOAD_FAILED"} : EnterPhase(p, calls \ {c})
             /\ UNCHANGED <<data, loaded>>
    BY <1>1, <1>4, <1>5, <1>7, <2>2, SteadySound
    DEF RefreshAnswered, EnterPhase, Inside, Belongs
  <2>. QED  BY <1>7, <2>1, <2>2 DEF RefreshAnswered
<1>8. CASE ReloadAnswered(c)
  <2>1. ShownInScope' /\ Whole'
    BY <1>1, <1>2, <1>8
    DEF ReloadAnswered, Belongs, ShownInScope, InScope, Whole, Both, Rows
  <2>. QED  BY <1>4, <1>5, <1>8, <2>1, RowsSound DEF ReloadAnswered
<1>9. CASE AutoRecAnswered(c)
  <2>1. ShownInScope' /\ Whole'
    BY <1>3, <1>9 DEF AutoRecAnswered, ShownInScope, InScope, Whole, Both
  <2>. QED  BY <1>4, <1>5, <1>9, <2>1, RowsSound DEF AutoRecAnswered
<1>10. CASE DraftAnswered(c)
  BY <1>1, <1>4, <1>6, <1>10, SteadySound
  DEF DraftAnswered, OpenWorkflow, Rows, Belongs, EnterPhase, Inside, SignedOut
<1>11. CASE AdjustmentAnswered(c)
  <2>1. Whole /\ c.scope = scope /\ phase # "LOGIN_REQUIRED"
    BY <1>1, <1>11 DEF AdjustmentAnswered, Belongs
  <2>2. /\ data'.documents = data.documents /\ data'.journals = Rows(c.scope)
        /\ phase' = Readmitted
    BY <1>1, <1>11 DEF AdjustmentAnswered, EnterPhase, TypeOK
  <2>3. ShownInScope' /\ Whole'
    BY <1>1, <1>2, <1>6, <1>11, <2>1, <2>2
    DEF AdjustmentAnswered, Sound, ShownInScope, InScope, Whole, Rows
  <2>. QED
    BY <1>4, <1>6, <1>11, <2>1, <2>3, RowsSound
    DEF AdjustmentAnswered, OpenWorkflow, Rows, EnterPhase, Inside
<1>12. CASE SettlementAnswered(c)
  <2>1. PICK s \in granted :
          /\ OpenWorkflow(Rows(s))
          /\ IF s = scope
             THEN /\ EnterPhase(Readmitted, calls \ {c})
                  /\ loaded' = FALSE
                  /\ UNCHANGED <<scope, data, guard>>
             ELSE Rescope(s, calls \ {c})
    BY <1>12 DEF SettlementAnswered
  <2>2. workflow' # None /\ workflow'.guarded => workflow'.scope = s
    BY <2>1 DEF OpenWorkflow, Rows
  <2>3. CASE s = scope
    <3>1. /\ calls' \subseteq calls /\ phase' = Readmitted /\ loaded' = FALSE
          /\ UNCHANGED <<scope, data, guard, checked, overridden>>
      BY <1>4, <2>1, <2>3 DEF EnterPhase
    <3>2. CallsSound'
      BY <1>1, <1>6, <3>1, <1>12
      DEF Sound, CallsSound, Belongs, Live, Whole
    <3>3. ShownInScope' /\ WorkflowInScope' /\ LoadedSound'
      BY <1>1, <1>6, <2>2, <2>3, <3>1
      DEF Sound, ShownInScope, InScope, WorkflowInScope, LoadedSound
    <3>4. ReleaseBeforeReads' /\ Unverified'
      BY <1>1, <1>6, <3>1 DEF Sound, ReleaseBeforeReads, Unverified
    <3>. QED  BY <3>2, <3>3, <3>4 DEF Sound
  <2>4. CASE s # scope
    BY <1>1, <1>4, <2>1, <2>2, <2>4, RescopeSound
  <2>. QED  BY <2>3, <2>4
<1>13. CASE NothingAnswered(c)
  BY <1>4, <1>5, <1>13, SteadySound DEF NothingAnswered
<1>. QED
  BY <1>7, <1>8, <1>9, <1>10, <1>11, <1>12, <1>13 DEF Answered

LEMMA CommandSound ==
  ASSUME PageInv, NEW c \in calls, CommandDone(c) \/ CommandDropped(c),
         UNCHANGED <<outside, acts>>
  PROVE  Sound'
<1>1. /\ c \in Call /\ TypeOK /\ Sound
      /\ checked \/ overridden
      /\ phase \notin {"CHECKING_IDENTITY", "CHECKING_RELEASE"}
      /\ Live(c) => Belongs(c)
      /\ c.stage = "command" => c.channel \in {"controlled-workflow", "autorec"}
  BY DEF PageInv, Sound, TypeOK, Call, ReleaseBeforeReads, Unverified, CallsSound
<1>. USE DEF outside
<1>2. CASE CommandDropped(c)
  BY <1>1, <1>2, SteadySound DEF CommandDropped, Sound, WorkflowInScope
<1>3. CASE CommandDone(c) /\ c.channel = "autorec"
  <2>. DEFINE n == [c EXCEPT !.stage = "read"]
  <2>1. /\ n.stage = "read" /\ n.channel = c.channel
        /\ n.scope = c.scope /\ n.generation = c.generation
    BY <1>1 DEF Call
  <2>2. Live(n) => Belongs(n)
    BY <1>1, <1>3, <2>1 DEF Live, Belongs
  <2>3. calls' \subseteq calls \cup {n}
    BY <1>3 DEF CommandDone
  <2>. HIDE DEF n
  <2>. QED  BY <1>1, <1>3, <2>1, <2>2, <2>3, BeginSound DEF CommandDone
<1>4. CASE CommandDone(c) /\ c.channel # "autorec"
  <2>. DEFINE n == [Read(c.channel) EXCEPT !.scope = c.scope]
  <2>1. /\ n.stage = "read" /\ n.channel = c.channel
        /\ n.scope = c.scope /\ n.generation = guard.generation
    BY DEF Read
  <2>2. c.generation = guard.generation /\ c.channel \in Channel
    BY <1>1, <1>4 DEF CommandDone, MayBegin, Call
  <2>3. Live(n) => Belongs(n)
    BY <1>1, <1>4, <2>1, <2>2 DEF Live, Belongs
  <2>4. calls' \subseteq calls \cup {n}
    BY <1>4 DEF CommandDone
  <2>5. guard'.generation = guard.generation
    BY <1>1, <1>4, <2>2, GuardTypes DEF CommandDone
  <2>. HIDE DEF n
  <2>. QED  BY <1>1, <1>4, <2>1, <2>3, <2>4, <2>5, BeginSound DEF CommandDone
<1>. QED  BY <1>2, <1>3, <1>4

LEMMA RefreshSound ==
  ASSUME PageInv, Refresh, phase \in Inside \cup {"LOAD_FAILED"}, checked' = checked,
         overridden => overridden', checked' \/ overridden'
  PROVE  Sound'
<1>1. guard'.generation = guard.generation
  BY GuardTypes DEF PageInv, Refresh, Channel
<1>2. calls' \subseteq calls \cup {Read("refresh")}
  BY SurvivingIsSubset DEF Refresh, EnterPhase
<1>3. Belongs(Read("refresh")) /\ Read("refresh").stage = "read"
  BY DEF PageInv, Sound, LoadedSound, Belongs, Read, Inside, SignedOut
<1>. QED
  BY <1>1, <1>2, <1>3, BeginSound DEF Refresh, EnterPhase, Inside, SignedOut

LEMMA UserSound ==
  ASSUME PageInv, UserActs
  PROVE  Sound'
<1>1. /\ TypeOK /\ Sound
      /\ phase \in Inside => checked \/ overridden
      /\ data # NoRows => checked \/ overridden
      /\ calls \in SUBSET calls
  BY DEF PageInv, Sound, ReleaseBeforeReads
<1>2. workflow # None /\ workflow.guarded => workflow.scope = scope
  BY <1>1 DEF Sound, WorkflowInScope
<1>3. Surviving(phase', calls) \subseteq calls
  BY SurvivingIsSubset
<1>4. Readmitted = phase \/ (phase = "ACCESS_DENIED" /\ Readmitted = "AUTHENTICATED")
  BY DEF Readmitted
<1>. USE DEF outside
<1>5. CASE \E r \in Route : Navigate(r) \/ NavigateByHash(r)
  <2>1. PICK r \in Route : Navigate(r) \/ NavigateByHash(r)
    BY <1>5
  <2>. QED
    BY <1>1, <1>2, <1>3, <1>4, <2>1, SteadySound
    DEF Navigate, NavigateByHash, EnterPhase, Inside, SignedOut
<1>6. CASE \E s \in Scope : SelectScope(s)
  BY <1>1, <1>6, RescopeSound DEF SelectScope, Shell
<1>7. CASE \E channel \in Channel : StartRead(channel)
  <2>1. PICK channel \in Channel : StartRead(channel)
    BY <1>7
  <2>2. guard'.generation = guard.generation
    BY <1>1, <2>1, GuardTypes DEF StartRead
  <2>3. channel = "adjustment-journal" => SharedNeeded
    <3>1. route \in Route /\ channel \in Offered[route]
      BY <1>1, <2>1 DEF StartRead, TypeOK
    <3>2. "adjustment-journal" \in Offered[route] => route = "payables"
      BY <3>1 DEF Offered
    <3>. QED  BY <3>1, <3>2 DEF SharedRoute, SharedNeeded
  <2>4. channel = "adjustment-journal" => loaded
    BY <2>1, <2>3 DEF StartRead, Act, LoadDue
  <2>5. Belongs(Read(channel)) /\ Read(channel).stage = "read"
    BY <1>1, <2>1, <2>4 DEF StartRead, Sound, LoadedSound, Belongs, Read, SignedOut
  <2>. QED
    BY <1>1, <2>1, <2>2, <2>5, BeginSound DEF StartRead, Inside
<1>8. CASE PressRefresh
  <2>1. phase \in Inside \cup {"LOAD_FAILED"}
    BY <1>8 DEF PressRefresh, Shell
  <2>. QED  BY <1>1, <1>8, <2>1, RefreshSound DEF PressRefresh, TypeOK
<1>9. CASE StartCommand
  <2>1. PICK channel \in {"controlled-workflow", "autorec"} :
          calls' = calls \cup {Command(channel)}
    BY <1>9 DEF StartCommand
  <2>2. Belongs(Command(channel)) /\ Command(channel).channel = channel
    BY <1>1, <1>9 DEF StartCommand, Sound, LoadedSound, Belongs, Command, SignedOut
  <2>. QED
    BY <1>1, <1>9, <2>1, <2>2, BeginSound DEF StartCommand, Inside
<1>10. CASE OpenJournal
  <2>1. workflow' # None /\ workflow'.guarded => workflow'.scope = scope
    BY <1>1, <1>10 DEF OpenJournal, OpenWorkflow, Sound, ShownInScope, InScope
  <2>. QED  BY <1>1, <1>10, <2>1, SteadySound DEF OpenJournal
<1>11. CASE ChangeJournal
  <2>1. ShownInScope' /\ WorkflowInScope' /\ ReleaseBeforeReads' /\ Unverified'
    BY <1>1, <1>11
    DEF ChangeJournal, Sound, ShownInScope, InScope, WorkflowInScope, ReleaseBeforeReads,
        Unverified
  <2>2. CallsSound' /\ LoadedSound'
    BY <1>1, <1>11
    DEF ChangeJournal, Sound, CallsSound, Belongs, Live, Whole, LoadedSound
  <2>. QED  BY <2>1, <2>2 DEF Sound
<1>12. CASE Logout
  BY <1>12, SignOutSound DEF Logout
<1>13. CASE SignIn \/ Reload
  BY <1>1, <1>2, <1>3, <1>13, LoadSound, SteadySound
  DEF SignIn, Reload, EnterPhase, Inside, SignedOut
<1>. QED
  BY <1>5, <1>6, <1>7, <1>8, <1>9, <1>10, <1>11, <1>12, <1>13 DEF UserActs

LEMMA StepSound ==
  ASSUME PageInv, [Next]_vars
  PROVE  Sound'
<1>1. TypeOK /\ Sound
  BY DEF PageInv
<1>. USE DEF outside
<1>2. CASE IdentityChecked
  <2>1. CASE FreshPage
    BY <2>1, LoadSound
  <2>2. CASE /\ phase' \in SignedOut \cup {"CHECKING_RELEASE"}
             /\ UNCHANGED <<scope, workflow, data, loaded, guard, calls, checked, overridden>>
    <3>1. phase = "CHECKING_IDENTITY" /\ calls = {} /\ data = NoRows /\ ~loaded
      BY <1>1, <1>2 DEF IdentityChecked, Sound, Unverified
    <3>. QED
      BY <1>1, <2>2, <3>1
      DEF Sound, ShownInScope, InScope, WorkflowInScope, ReleaseBeforeReads, Unverified,
          CallsSound, LoadedSound, NoRows, Inside, SignedOut
  <2>. QED  BY <1>2, <2>1, <2>2 DEF IdentityChecked
<1>3. CASE ReleaseChecked
  <2>1. calls = {} /\ data = NoRows /\ ~loaded
    BY <1>1, <1>3 DEF ReleaseChecked, Sound, Unverified
  <2>2. /\ calls' = {}
        /\ phase' = "LOAD_FAILED" \/ (phase' = "AUTHENTICATED" /\ checked')
    BY <1>3, <2>1, SurvivingIsSubset DEF ReleaseChecked, EnterPhase, Matches
  <2>. QED
    BY <1>1, <1>3, <2>1, <2>2
    DEF ReleaseChecked, Sound, ShownInScope, InScope, WorkflowInScope, ReleaseBeforeReads,
        Unverified, CallsSound, LoadedSound, NoRows, Inside
<1>4. CASE EnterAccounting \/ LoadShared
  <2>1. phase \in Inside
    BY <1>4 DEF EnterAccounting, LoadShared, LoadDue, Inside
  <2>2. checked \/ overridden
    BY <1>1, <2>1 DEF Sound, ReleaseBeforeReads
  <2>. QED  BY <1>4, <2>1, <2>2, RefreshSound DEF EnterAccounting, LoadShared
<1>5. CASE Fallback
  <2>1. PICK s \in granted : Rescope(s, calls)
    BY <1>5 DEF Fallback
  <2>2. checked \/ overridden
    BY <1>1, <1>5 DEF Fallback, Sound, ReleaseBeforeReads, Inside
  <2>. QED  BY <1>5, <2>1, <2>2, RescopeSound DEF Fallback
<1>6. CASE CallEnds
  BY <1>6, AnswerSound, CommandSound DEF CallEnds
<1>7. CASE SessionRefused
  BY <1>7, SignOutSound DEF SessionRefused
<1>8. CASE \/ CatalogRead \/ RenewalStarted \/ RenewalAnswered \/ Expire
           \/ UNCHANGED vars
  BY <1>1, <1>8, SteadySound
  DEF CatalogRead, RenewalStarted, RenewalAnswered, Expire, page, vars, Sound,
      WorkflowInScope
<1>. QED
  BY <1>2, <1>3, <1>4, <1>5, <1>6, <1>7, <1>8, UserSound DEF Next

-----------------------------------------------------------------------------
LEMMA PageInvariant == Spec => []PageInv
<1>1. Init => PageInv
  <2>. SUFFICES ASSUME Init PROVE PageInv
    OBVIOUS
  <2>1. guard \in [generation : Nat, issued : Nat, latest : [Channel -> Nat]]
    BY DEF Init, Fresh
  <2>2. TypeOK
    <3>1. acts \in 0 .. MaxActs /\ granted \subseteq Scope /\ calls = {}
      BY PageAssumption DEF Init
    <3>2. /\ data \in [documents : Origin \cup {None}, journals : Origin \cup {None}]
          /\ workflow \in Origin \cup {None} /\ loaded \in BOOLEAN
      BY DEF Init, NoRows
    <3>3. phase \in Phase /\ scope \in Scope /\ route \in Route
      BY PageAssumption DEF Init, Phase
    <3>4. /\ catalogued \in BOOLEAN /\ renewing \in BOOLEAN /\ checked \in BOOLEAN
          /\ overridden \in BOOLEAN /\ session \in {"none", "pending", "token", "expired"}
      BY DEF Init
    <3>. QED  BY <2>1, <3>1, <3>2, <3>3, <3>4 DEF TypeOK
  <2>3. ShownInScope /\ WorkflowInScope /\ CallsSound
    BY DEF Init, ShownInScope, InScope, WorkflowInScope, CallsSound, NoRows
  <2>4. ReleaseBeforeReads /\ Unverified /\ LoadedSound
    BY DEF Init, ReleaseBeforeReads, Unverified, LoadedSound, Inside
  <2>. QED  BY <2>2, <2>3, <2>4 DEF PageInv, Sound
<1>2. PageInv /\ [Next]_vars => PageInv'
  BY StepTypes, StepSound DEF PageInv
<1>. QED  BY <1>1, <1>2, PTL DEF Spec

(* The page's state is well typed, and no call carries a generation or an  *)
(* identifier the guard has not reached.                                   *)
THEOREM PageTyped == Spec => []TypeOK
<1>1. PageInv => TypeOK
  BY DEF PageInv
<1>. QED  BY <1>1, PageInvariant, PTL

(* No delayed answer of another company or period is shown, and none after *)
(* a sign-out.                                                             *)
THEOREM ScopesKeptApart == Spec => []ShownInScope
<1>1. PageInv => ShownInScope
  BY DEF PageInv, Sound
<1>. QED  BY <1>1, PageInvariant, PTL

(* The open journal, if it came through the guard, is one of the company   *)
(* and the period the user selected.                                       *)
THEOREM WorkflowKeptApart == Spec => []WorkflowInScope
<1>1. PageInv => WorkflowInScope
  BY DEF PageInv, Sound
<1>. QED  BY <1>1, PageInvariant, PTL

(* An empty list is never shown for one that was not read.                 *)
THEOREM NeverHalfLoaded == Spec => []LoadedIsWhole
<1>1. PageInv => LoadedIsWhole
  BY DEF PageInv, Sound, LoadedSound, LoadedIsWhole, Whole, SignedOut
<1>. QED  BY <1>1, PageInvariant, PTL

(* The release check comes before any reader or command, but for the       *)
(* user's Try again.                                                       *)
THEOREM ReleaseComesFirst == Spec => []ReleaseBeforeReads
<1>1. PageInv => ReleaseBeforeReads
  BY DEF PageInv, Sound
<1>. QED  BY <1>1, PageInvariant, PTL

(* Nothing that was under way undoes a sign-out.                           *)
THEOREM SignOutIsFinal == Spec => SignedOutStays
<1>1. PageInv /\ [Next]_vars
        => [/\ phase = "LOGIN_REQUIRED"
                 => phase' \in SignedOut \cup {"CHECKING_IDENTITY"}
            /\ session = "none" => session' \in {"none", "pending"}]_vars
  <2>. SUFFICES ASSUME PageInv, Next
                PROVE  /\ phase = "LOGIN_REQUIRED"
                            => phase' \in SignedOut \cup {"CHECKING_IDENTITY"}
                       /\ session = "none" => session' \in {"none", "pending"}
    OBVIOUS
  <2>1. \A c \in calls : phase = "LOGIN_REQUIRED" => ~IsCurrent(c)
    BY DEF PageInv, Sound, CallsSound, Belongs, Live, IsCurrent
  <2>2. phase = "LOGIN_REQUIRED" => phase' \in SignedOut \cup {"CHECKING_IDENTITY"}
    <3>. SUFFICES ASSUME phase = "LOGIN_REQUIRED", phase' # phase
                  PROVE  phase' \in {"IDENTITY_FAILED", "CHECKING_IDENTITY"}
      BY DEF SignedOut
    <3>1. CASE CallEnds
      BY <2>1, <3>1
      DEF CallEnds, Answered, RefreshAnswered, ReloadAnswered, AutoRecAnswered,
          DraftAnswered, AdjustmentAnswered, SettlementAnswered, NothingAnswered,
          CommandDone, CommandDropped
    <3>2. CASE UserActs
      BY <3>2
      DEF UserActs, Navigate, NavigateByHash, SelectScope, StartRead, PressRefresh,
          StartCommand, OpenJournal, ChangeJournal, Logout, SignIn, Reload, FreshPage,
          Shell, EnterPhase, Readmitted, Inside
    <3>3. CASE ~(CallEnds \/ UserActs)
      BY <3>3
      DEF Next, IdentityChecked, ReleaseChecked, EnterAccounting, LoadShared, LoadDue,
          CatalogRead, Fallback, SessionRefused, RenewalStarted, RenewalAnswered, Expire,
          page, Inside
    <3>. QED  BY <3>1, <3>2, <3>3
  <2>3. session = "none" => session' \in {"none", "pending"}
    BY DEF Next, IdentityChecked, ReleaseChecked, EnterAccounting, LoadShared,
           CatalogRead, Fallback, CallEnds, SessionRefused, RenewalStarted,
           RenewalAnswered, Renewed, Expire, UserActs, Navigate, NavigateByHash,
           SelectScope, StartRead, PressRefresh, StartCommand, OpenJournal, ChangeJournal,
           Logout, SignIn, Reload, outside, page
  <2>. QED  BY <2>2, <2>3
<1>. QED  BY <1>1, PageInvariant, PTL DEF Spec, SignedOutStays
=============================================================================
