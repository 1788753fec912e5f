----------------------- MODULE CommandRecoveryProofs -----------------------
(***************************************************************************)
(* Proofs about CommandRecovery: for any forms, keys, cover and number of  *)
(* requests given up.                                                      *)
(***************************************************************************)
EXTENDS CommandRecovery, TLAPS

Sending == {"checking", "sent"} \cup Answer

(* No form has been opened before the previous one had settled.            *)
Serial == ~overlapped

(* Then at most one form is in use.                                        *)
OneForm ==
  Serial => \A f, g \in Form : f = g \/ form[f] = Blank \/ form[g] = Blank

(* The other forms are not in use.                                         *)
Alone(f) ==
  Serial => \A g \in Form \ {f} : /\ form[g].command = None
                                  /\ form[g].at = "idle"
                                  /\ ~form[g].mounted

(* A command is counted where its receipt is, and only sent if prepared.   *)
Receipted ==
  /\ \A k \in Key : applied[k] = IF k \in receipts THEN 1 ELSE 0
  /\ \A k \in Key \ prepared : lost[k] = 0 /\ k \notin receipts
  /\ confirmed \subseteq receipts

FormsSound ==
  /\ \A f, g \in Form : form[f].mounted /\ form[g].mounted => f = g
  /\ \A f \in Form :
       /\ form[f].command \in prepared \cup {None}
       /\ form[f].at \in Sending => form[f].command \in prepared
       /\ form[f].at = "ok" => form[f].command \in receipts

(* The form still answers for a command it believes it alone has sent.     *)
Answers(f) == form[f].mounted \/ Serial

(* Such a command is on no other form, stays in the recovery store while   *)
(* it is sent, and has no effect the form does not learn of.               *)
SoleSender ==
  \A f \in Form, k \in Key :
    (Answers(f) /\ ~form[f].uncertain /\ form[f].command = k)
      => /\ \A g \in Form \ {f} : form[g].command # k
         /\ form[f].at \in Sending => pending.key = k
         /\ (lost[k] > 0 \/ k \in receipts)
              => \/ form[f].at \in {"ok", "unknown"}
                 \/ form[f].at = "idle" /\ form[f].done

(* With one form at a time the store holds whatever is unresolved.         *)
SerialKept ==
  Serial =>
    /\ \A f \in Form : form[f].at \in Sending => pending.key = form[f].command
    /\ \A k \in Key : MayHold(k) /\ k \notin confirmed => pending.key = k

FormState ==
  [mounted : BOOLEAN, command : Key \cup {None}, uncertain : BOOLEAN,
   done : BOOLEAN, at : Stage]

RecoveryInv ==
  TypeOK /\ Receipted /\ FormsSound /\ OneForm /\ SoleSender /\ SerialKept

-----------------------------------------------------------------------------
(* Retaining and sending a prepared command keeps the types.               *)
LEMMA RetainAndSendTyped ==
  ASSUME TypeOK, NEW f \in Form, NEW k \in prepared', k \in Key,
         prepared \subseteq prepared', RetainAndSend(f, k)
  PROVE  /\ form' \in [Form -> FormState]
         /\ pending' \in {Nothing} \cup
              {[key |-> j, uncertain |-> TRUE] : j \in prepared'}
<1>1. \A at \in Stage : [form[f] EXCEPT !.command = k, !.at = at] \in FormState
  BY DEF TypeOK, FormState
<1>2. form' \in [Form -> FormState]
  BY <1>1 DEF RetainAndSend, TypeOK, FormState, Stage
<1>. QED  BY <1>2 DEF RetainAndSend, Retained, TypeOK

(* A step of a form in use is a step of the only one.                      *)
LEMMA OneFormKept ==
  ASSUME OneForm, NEW f \in Form, form[f] # Blank, overlapped' = overlapped,
         \A g \in Form \ {f} : form'[g] = form[g]
  PROVE  OneForm' /\ Alone(f)
<1>1. Serial => \A g \in Form \ {f} : form[g] = Blank
  BY DEF OneForm
<1>2. OneForm'
  BY <1>1 DEF OneForm, Serial
<1>3. Alone(f)
  BY <1>1 DEF Alone, Blank
<1>. QED  BY <1>2, <1>3

(* The inductive step: every action keeps every part of the invariant.     *)
LEMMA RecoveryStep ==
  ASSUME RecoveryInv, [Next]_vars
  PROVE  RecoveryInv'
<1>. USE RecoveryAssumption DEF RecoveryInv, Serial
<1>1. ASSUME NEW f \in Form, Open(f)
      PROVE  RecoveryInv'
  <2>1. TypeOK'
    <3>1. pending.key \in Key \cup {None} /\ pending.uncertain \in BOOLEAN
      <4>1. CASE pending = Nothing
        BY <4>1 DEF Nothing
      <4>2. CASE \E k \in prepared : pending = [key |-> k, uncertain |-> TRUE]
        BY <4>2 DEF TypeOK
      <4>. QED  BY <4>1, <4>2 DEF TypeOK
    <3>2. [form[f] EXCEPT !.mounted = TRUE, !.command = pending.key,
                          !.uncertain = pending.uncertain] \in FormState
      BY <3>1 DEF TypeOK, FormState
    <3>3. form' \in [Form -> FormState]
      BY <1>1, <3>2 DEF Open, TypeOK, FormState
    <3>. QED  BY <1>1, <3>3 DEF Open, TypeOK, FormState, Nothing
  <2>2. Receipted'
    BY <1>1 DEF Open, Receipted
  <2>3. FormsSound'
    BY <1>1 DEF Open, TypeOK, FormsSound, Nothing, Blank
  <2>4. Serial' => \A g \in Form \ {f} : form'[g] = Blank /\ form[g] = Blank
    BY <1>1 DEF Open, TypeOK
  <2>5. OneForm'
    BY <2>4 DEF OneForm
  <2>6. SoleSender'
    <3>1. ASSUME Serial' PROVE Serial
      BY <1>1, <3>1 DEF Open
    <3>2. \A g \in Form \ {f} : form'[g] = form[g] /\ ~form[g].mounted
      BY <1>1 DEF Open, TypeOK
    <3>3. /\ form'[f].command = pending.key /\ form'[f].uncertain = pending.uncertain
          /\ form'[f].at = "idle" /\ pending' = pending
      BY <1>1 DEF Open, TypeOK, Blank
    <3>4. form'[f].uncertain \/ form'[f].command = None
      BY <3>3 DEF TypeOK, Nothing
    <3>5. \A g \in Form \ {f}, k \in Key :
            ~(Answers(g)' /\ form'[g].command = k)
      BY <2>4, <3>2 DEF Answers, Blank
    <3>. QED  BY <3>4, <3>5 DEF SoleSender
  <2>7. SerialKept'
    <3>1. ASSUME Serial' PROVE Serial
      BY <1>1, <3>1 DEF Open
    <3>2. \A g \in Form : form'[g].at = form[g].at
                         /\ (g # f => form'[g] = form[g])
      BY <1>1 DEF Open, TypeOK
    <3>3. form'[f].at = "idle"
      BY <1>1, <3>2 DEF Open, Blank
    <3>4. UNCHANGED <<pending, lost, applied, confirmed>>
      BY <1>1 DEF Open
    <3>. QED  BY <3>1, <3>2, <3>3, <3>4 DEF SerialKept, MayHold, Sending, Answer
  <2>. QED  BY <2>1, <2>2, <2>3, <2>5, <2>6, <2>7
<1>2. ASSUME NEW f \in Form, Leave(f)
      PROVE  RecoveryInv'
  <2>1. TypeOK'
    <3>1. Blank \in FormState /\ [form[f] EXCEPT !.mounted = FALSE] \in FormState
      BY DEF TypeOK, FormState, Blank, Stage
    <3>2. form' \in [Form -> FormState]
      BY <1>2, <3>1 DEF Leave, TypeOK, FormState
    <3>. QED  BY <1>2, <3>2 DEF Leave, TypeOK, FormState, Nothing
  <2>2. Receipted'
    BY <1>2 DEF Leave, Receipted
  <2>3. FormsSound'
    BY <1>2 DEF Leave, FormsSound, Blank, Answer, Sending
  <2>4. OneForm' /\ Alone(f)
    <3>1. form[f] # Blank
      BY <1>2 DEF Leave, Blank
    <3>2. overlapped' = overlapped /\ \A g \in Form \ {f} : form'[g] = form[g]
      BY <1>2 DEF Leave, TypeOK
    <3>. QED  BY <3>1, <3>2, OneFormKept
  <2>5. SoleSender'
    BY <1>2, <2>4 DEF Alone, Leave, SoleSender, Blank, Answers
  <2>6. SerialKept'
    BY <1>2, <2>4 DEF Alone, Leave, SerialKept, Blank, Answer, Sending, MayHold
  <2>. QED  BY <2>1, <2>2, <2>3, <2>4, <2>5, <2>6
<1>3. ASSUME NEW f \in Form, Begin(f)
      PROVE  RecoveryInv'
  <2>1. TypeOK'
    BY <1>3 DEF Begin, TypeOK, Stage
  <2>2. Receipted'
    BY <1>3 DEF Begin, Receipted
  <2>3. FormsSound'
    BY <1>3 DEF Begin, FormsSound, Answer, Sending
  <2>4. OneForm' /\ Alone(f)
    <3>1. form[f] # Blank
      BY <1>3 DEF Begin, Blank
    <3>2. overlapped' = overlapped /\ \A g \in Form \ {f} : form'[g] = form[g]
      BY <1>3 DEF Begin, TypeOK
    <3>. QED  BY <3>1, <3>2, OneFormKept
  <2>5. SoleSender'
    BY <1>3, <2>4 DEF Alone, Begin, SoleSender, Answers
  <2>6. SerialKept'
    BY <1>3, <2>4 DEF Alone, Begin, SerialKept, Answer, Sending, MayHold
  <2>. QED  BY <2>1, <2>2, <2>3, <2>4, <2>5, <2>6
<1>4. ASSUME NEW f \in Form, NotPrepared(f)
      PROVE  RecoveryInv'
  <2>1. TypeOK'
    BY <1>4 DEF NotPrepared, TypeOK, Stage
  <2>2. Receipted'
    BY <1>4 DEF NotPrepared, Receipted
  <2>3. FormsSound'
    BY <1>4 DEF NotPrepared, FormsSound, Answer, Sending
  <2>4. OneForm' /\ Alone(f)
    <3>1. form[f] # Blank
      BY <1>4 DEF NotPrepared, Blank
    <3>2. overlapped' = overlapped /\ \A g \in Form \ {f} : form'[g] = form[g]
      BY <1>4 DEF NotPrepared, TypeOK
    <3>. QED  BY <3>1, <3>2, OneFormKept
  <2>5. SoleSender'
    BY <1>4, <2>4 DEF Alone, NotPrepared, SoleSender, Answer, Sending, Answers
  <2>6. SerialKept'
    BY <1>4, <2>4 DEF Alone, NotPrepared, SerialKept, Answer, Sending, MayHold
  <2>. QED  BY <2>1, <2>2, <2>3, <2>4, <2>5, <2>6
<1>5. ASSUME NEW f \in Form, Prepare(f)
      PROVE  RecoveryInv'
  <2>1. TypeOK'
    <3>1. PICK k \in Key \ prepared :
            prepared' = prepared \cup {k} /\ RetainAndSend(f, k)
      BY <1>5 DEF Prepare
    <3>. QED  BY <1>5, <3>1, RetainAndSendTyped DEF Prepare, TypeOK, FormState
  <2>2. Receipted'
    BY <1>5 DEF Prepare, Receipted
  <2>3. FormsSound'
    BY <1>5 DEF Prepare, RetainAndSend, FormsSound
  <2>4. OneForm' /\ Alone(f)
    <3>1. form[f] # Blank
      BY <1>5 DEF Prepare, Blank
    <3>2. overlapped' = overlapped /\ \A g \in Form \ {f} : form'[g] = form[g]
      BY <1>5 DEF Prepare, RetainAndSend, TypeOK
    <3>. QED  BY <3>1, <3>2, OneFormKept
  <2>5. SoleSender'
    BY <1>5, <2>4 DEF Alone, Prepare, RetainAndSend, CanRetain, Retained, Receipted,
       FormsSound, SoleSender, Answer, Sending, Answers
  <2>6. SerialKept'
    BY <1>5, <2>4 DEF Alone, Prepare, RetainAndSend, CanRetain, Retained, SerialKept,
       Answer, Sending, Serial, MayHold
  <2>. QED  BY <2>1, <2>2, <2>3, <2>4, <2>5, <2>6
<1>6. ASSUME NEW f \in Form, Retry(f)
      PROVE  RecoveryInv'
  <2>1. TypeOK'
    <3>1. form[f].command \in prepared /\ form[f].command \in Key
      BY <1>6 DEF Retry, TypeOK, FormsSound
    <3>2. RetainAndSend(f, form[f].command) /\ prepared' = prepared
      BY <1>6 DEF Retry
    <3>. QED  BY <1>6, <3>1, <3>2, RetainAndSendTyped DEF Retry, TypeOK, FormState
  <2>2. Receipted'
    BY <1>6 DEF Retry, Receipted
  <2>3. FormsSound'
    BY <1>6 DEF Retry, RetainAndSend, FormsSound
  <2>4. OneForm' /\ Alone(f)
    <3>1. form[f] # Blank
      BY <1>6 DEF Retry, Blank
    <3>2. overlapped' = overlapped /\ \A g \in Form \ {f} : form'[g] = form[g]
      BY <1>6 DEF Retry, RetainAndSend, TypeOK
    <3>. QED  BY <3>1, <3>2, OneFormKept
  <2>5. SoleSender'
    BY <1>6, <2>4 DEF Alone, Retry, RetainAndSend, CanRetain, Retained, SoleSender, Answers
  <2>6. SerialKept'
    BY <1>6, <2>4 DEF Alone, Retry, RetainAndSend, CanRetain, Retained, SerialKept,
       Serial, MayHold
  <2>. QED  BY <2>1, <2>2, <2>3, <2>4, <2>5, <2>6
<1>7. ASSUME NEW f \in Form, IdentityChecked(f)
      PROVE  RecoveryInv'
  <2>1. TypeOK'
    BY <1>7 DEF IdentityChecked, TypeOK, Stage, Answer
  <2>2. Receipted'
    BY <1>7 DEF IdentityChecked, Receipted
  <2>3. FormsSound'
    BY <1>7 DEF IdentityChecked, FormsSound, Sending
  <2>4. OneForm' /\ Alone(f)
    <3>1. form[f] # Blank
      BY <1>7 DEF IdentityChecked, Blank
    <3>2. overlapped' = overlapped /\ \A g \in Form \ {f} : form'[g] = form[g]
      BY <1>7 DEF IdentityChecked, TypeOK
    <3>. QED  BY <3>1, <3>2, OneFormKept
  <2>5. SoleSender'
    BY <1>7, <2>4 DEF Alone, IdentityChecked, SoleSender, Sending, Answers
  <2>6. SerialKept'
    BY <1>7, <2>4 DEF Alone, IdentityChecked, SerialKept, Sending, MayHold
  <2>. QED  BY <2>1, <2>2, <2>3, <2>4, <2>5, <2>6
<1>8. ASSUME NEW f \in Form, Succeed(f)
      PROVE  RecoveryInv'
  <2>1. TypeOK'
    BY <1>8 DEF Succeed, Execute, TypeOK, FormsSound, Stage, Answer, Sending
  <2>2. Receipted'
    BY <1>8 DEF Succeed, Execute, Replay, TypeOK, Receipted, FormsSound
  <2>3. FormsSound'
    BY <1>8 DEF Succeed, Execute, Replay, FormsSound, Sending
  <2>4. OneForm' /\ Alone(f)
    <3>1. form[f] # Blank
      BY <1>8 DEF Succeed, Blank
    <3>2. overlapped' = overlapped /\ \A g \in Form \ {f} : form'[g] = form[g]
      BY <1>8 DEF Succeed, Execute, TypeOK
    <3>. QED  BY <3>1, <3>2, OneFormKept
  <2>5. SoleSender'
    BY <1>8, <2>4 DEF Alone, Succeed, Execute, TypeOK, SoleSender, Sending, Answers
  <2>6. SerialKept'
    BY <1>8, <2>4 DEF Alone, Succeed, Execute, TypeOK, SerialKept, Sending, MayHold
  <2>. QED  BY <2>1, <2>2, <2>3, <2>4, <2>5, <2>6
<1>9. ASSUME NEW f \in Form, Fail(f)
      PROVE  RecoveryInv'
  <2>1. TypeOK'
    BY <1>9 DEF Fail, TypeOK, Stage, Answer
  <2>2. Receipted'
    BY <1>9 DEF Fail, Receipted
  <2>3. FormsSound'
    BY <1>9 DEF Fail, FormsSound, Sending
  <2>4. OneForm' /\ Alone(f)
    <3>1. form[f] # Blank
      BY <1>9 DEF Fail, Blank
    <3>2. overlapped' = overlapped /\ \A g \in Form \ {f} : form'[g] = form[g]
      BY <1>9 DEF Fail, TypeOK
    <3>. QED  BY <3>1, <3>2, OneFormKept
  <2>5. SoleSender'
    BY <1>9, <2>4 DEF Alone, Fail, SoleSender, Sending, Answers
  <2>6. SerialKept'
    BY <1>9, <2>4 DEF Alone, Fail, SerialKept, Sending, MayHold
  <2>. QED  BY <2>1, <2>2, <2>3, <2>4, <2>5, <2>6
<1>10. ASSUME NEW f \in Form, LoseAnswer(f)
      PROVE  RecoveryInv'
  <2>1. TypeOK'
    BY <1>10 DEF LoseAnswer, TypeOK, Stage, Answer
  <2>2. Receipted'
    BY <1>10 DEF LoseAnswer, Receipted
  <2>3. FormsSound'
    BY <1>10 DEF LoseAnswer, TypeOK, FormsSound
  <2>4. OneForm' /\ Alone(f)
    <3>1. form[f] # Blank
      BY <1>10 DEF LoseAnswer, Blank
    <3>2. overlapped' = overlapped /\ \A g \in Form \ {f} : form'[g] = form[g]
      BY <1>10 DEF LoseAnswer, TypeOK
    <3>. QED  BY <3>1, <3>2, OneFormKept
  <2>5. SoleSender'
    BY <1>10, <2>4 DEF Alone, LoseAnswer, SoleSender, Answer, Sending, Answers
  <2>6. SerialKept'
    BY <1>10, <2>4 DEF Alone, LoseAnswer, SerialKept, Answer, Sending, MayHold
  <2>. QED  BY <2>1, <2>2, <2>3, <2>4, <2>5, <2>6
<1>11. ASSUME NEW f \in Form, GiveUp(f)
      PROVE  RecoveryInv'
  <2>1. TypeOK'
    BY <1>11 DEF GiveUp, TypeOK, FormsSound, Stage, Answer, Sending
  <2>2. Receipted'
    BY <1>11 DEF GiveUp, Receipted, FormsSound
  <2>3. FormsSound'
    BY <1>11 DEF GiveUp, FormsSound, Sending
  <2>4. OneForm' /\ Alone(f)
    <3>1. form[f] # Blank
      BY <1>11 DEF GiveUp, Blank
    <3>2. overlapped' = overlapped /\ \A g \in Form \ {f} : form'[g] = form[g]
      BY <1>11 DEF GiveUp, TypeOK
    <3>. QED  BY <3>1, <3>2, OneFormKept
  <2>5. SoleSender'
    BY <1>11, <2>4 DEF Alone, GiveUp, TypeOK, SoleSender, Sending, Answers
  <2>6. SerialKept'
    BY <1>11, <2>4 DEF Alone, GiveUp, SerialKept, Sending, MayHold
  <2>. QED  BY <2>1, <2>2, <2>3, <2>4, <2>5, <2>6
<1>12. ASSUME NEW f \in Form, Settle(f)
      PROVE  RecoveryInv'
  <2>1. TypeOK'
    <3>. DEFINE k == form[f].command
    <3>1. k \in prepared /\ k \in Key
      BY <1>12 DEF Settle, TypeOK, FormsSound, Sending
    <3>2. pending' \in {Nothing} \cup {[key |-> j, uncertain |-> TRUE] : j \in prepared'}
      BY <1>12, <3>1 DEF Settle, Released, Retained, TypeOK
    <3>3. form[f] \in FormState /\ Blank \in FormState
      BY DEF TypeOK, FormState, Blank, Stage
    <3>4. AfterResult(form[f], form[f].at) \in FormState
          /\ [form[f] EXCEPT !.at = "idle"] \in FormState
      BY <3>3 DEF AfterResult, FormState, Stage
    <3>5. form' \in [Form -> FormState]
      BY <1>12, <3>4 DEF Settle, TypeOK, FormState
    <3>. QED  BY <1>12, <3>1, <3>2, <3>5 DEF Settle, TypeOK, FormState, Nothing
  <2>2. Receipted'
    BY <1>12 DEF Settle, Success, Receipted, FormsSound
  <2>3. FormsSound'
    BY <1>12 DEF Settle, AfterResult, FormsSound, Blank, Answer, Sending
  <2>4. OneForm' /\ Alone(f)
    <3>1. form[f] # Blank
      BY <1>12 DEF Settle, Answer, Blank
    <3>2. overlapped' = overlapped /\ \A g \in Form \ {f} : form'[g] = form[g]
      BY <1>12 DEF Settle, Answer, TypeOK
    <3>. QED  BY <3>1, <3>2, OneFormKept
  <2>5. SoleSender'
    BY <1>12, <2>4 DEF Alone, Settle, AfterResult, Released, CanRetain, TypeOK,
       SoleSender, Blank, Answer, Sending, Answers
  <2>6. SerialKept'
    BY <1>12, <2>4 DEF Alone, Settle, AfterResult, Releases, Retained, TypeOK, Receipted,
       SoleSender, SerialKept, Blank, Answer, Sending, Serial, MayHold,
       Answers
  <2>. QED  BY <2>1, <2>2, <2>3, <2>4, <2>5, <2>6
<1>13. ASSUME NEW k \in Key, LateArrival(k)
      PROVE  RecoveryInv'
  <2>1. TypeOK'
    BY <1>13 DEF LateArrival, Execute, TypeOK
  <2>2. Receipted'
    BY <1>13 DEF LateArrival, Execute, Replay, TypeOK, Receipted
  <2>3. FormsSound'
    BY <1>13 DEF LateArrival, Execute, FormsSound
  <2>4. SoleSender'
    BY <1>13 DEF LateArrival, Execute, SoleSender, Answers
  <2>5. SerialKept'
    BY <1>13 DEF LateArrival, Execute, TypeOK, SerialKept, MayHold
  <2>6. OneForm'
    BY <1>13 DEF LateArrival, OneForm, Serial, TypeOK, Blank
  <2>. QED  BY <2>1, <2>2, <2>3, <2>4, <2>5, <2>6
<1>14. CASE UNCHANGED vars
  BY <1>14 DEF vars, TypeOK, Receipted, FormsSound, OneForm, SoleSender,
     SerialKept, Serial, Answers, MayHold
<1>. QED  BY <1>1, <1>2, <1>3, <1>4, <1>5, <1>6, <1>7, <1>8, <1>9, <1>10, <1>11, <1>12, <1>13, <1>14 DEF Next

LEMMA RecoveryInvariant == Spec => []RecoveryInv
<1>1. Init => RecoveryInv
  <2>1. Init => TypeOK
    <3>1. Blank \in FormState
      BY DEF Blank, FormState, Stage
    <3>2. Init => form \in [Form -> FormState]
      BY <3>1 DEF Init
    <3>3. Init => pending = Nothing /\ overlapped \in BOOLEAN
      BY DEF Init
    <3>4. Init => lost \in [Key -> 0 .. MaxLost] /\ applied \in [Key -> Nat]
      BY RecoveryAssumption DEF Init
    <3>5. Init => prepared = {} /\ receipts = {} /\ confirmed = {}
      BY DEF Init
    <3>. QED  BY <3>2, <3>3, <3>4, <3>5 DEF TypeOK, FormState
  <2>2. Init => \A f \in Form : /\ form[f].command = None /\ ~form[f].mounted
                                /\ form[f].at = "idle"
    BY DEF Init, Blank
  <2>3. Init => Receipted /\ FormsSound /\ SoleSender
    BY <2>2, RecoveryAssumption DEF Init, Receipted, FormsSound, SoleSender,
       Sending, Answer
  <2>4. Init => SerialKept
    BY DEF Init, SerialKept, MayHold, Sending, Answer, Blank
  <2>5. Init => OneForm
    BY DEF Init, OneForm
  <2>. QED  BY <2>1, <2>3, <2>4, <2>5 DEF RecoveryInv
<1>. QED  BY <1>1, RecoveryStep, PTL DEF Spec

-----------------------------------------------------------------------------
(* However often requests are repeated, delayed and recovered, a command   *)
(* allocates once and a shown success is an allocation.                    *)
THEOREM AllocatesOnce == Spec => []AllocatedOnce
<1>1. RecoveryInv => AllocatedOnce
  BY DEF RecoveryInv, Receipted, AllocatedOnce
<1>. QED  BY <1>1, RecoveryInvariant, PTL

(* A form on screen unlocks only when its command can have no effect, even *)
(* while forms that were left still wait for their answers.                *)
THEOREM UnlocksWhenDead == Spec => UnlockedWhenDead
<1>1. ASSUME RecoveryInv, [Next]_vars, NEW f \in Form, NEW k \in Key,
             form[f].mounted, form'[f].mounted,
             form[f].command = k, form'[f].command = None
      PROVE  ~MayHold(k)'
  <2>1. Settle(f)
    <3>. USE RecoveryAssumption DEF RecoveryInv, TypeOK
    <3>1. ASSUME UNCHANGED vars \/ \E j \in Key : LateArrival(j)
          PROVE  FALSE
      BY <1>1, <3>1 DEF vars, LateArrival
    <3>2. ASSUME NEW g \in Form, Open(g) \/ Leave(g)
          PROVE  FALSE
      BY <1>1, <3>2 DEF Open, Leave, Blank
    <3>3. ASSUME NEW g \in Form, Begin(g) \/ NotPrepared(g) \/ IdentityChecked(g) \/ Succeed(g)
                                  \/ Fail(g) \/ LoseAnswer(g) \/ GiveUp(g)
          PROVE  FALSE
      BY <1>1, <3>3 DEF Begin, NotPrepared, IdentityChecked, Succeed,
         Fail, LoseAnswer, GiveUp
    <3>4. ASSUME NEW g \in Form, Prepare(g) \/ Retry(g)
          PROVE  FALSE
      <4>1. PICK j \in Key : RetainAndSend(g, j)
        BY <1>1, <3>4 DEF Prepare, Retry
      <4>2. form'[g].command = j /\ (f # g => form'[f] = form[f])
        BY <1>1, <4>1 DEF RetainAndSend
      <4>. QED  BY <1>1, <4>1, <4>2
    <3>5. ASSUME NEW g \in Form, Settle(g), g # f
          PROVE  FALSE
      BY <1>1, <3>5 DEF Settle
    <3>. QED  BY <1>1, <3>1, <3>2, <3>3, <3>4, <3>5 DEF Next
  <2>2. form[f].at = "refused" /\ ~form[f].uncertain
    BY <1>1, <2>1, RecoveryAssumption DEF Settle, AfterResult, Success, Releases,
       RecoveryInv, TypeOK, Answer
  <2>3. lost[k] = 0 /\ k \notin receipts /\ \A g \in Form \ {f} : form[g].command # k
    BY <1>1, <2>2 DEF RecoveryInv, SoleSender, Answers, TypeOK
  <2>4. /\ UNCHANGED <<lost, receipts, applied>>
        /\ form'[f].at = "idle"
        /\ \A g \in Form \ {f} : form'[g] = form[g]
    BY <1>1, <2>1 DEF Settle, AfterResult, RecoveryInv, TypeOK, Blank
  <2>5. applied'[k] = 0 /\ lost'[k] = 0
    BY <1>1, <2>3, <2>4 DEF RecoveryInv, Receipted
  <2>6. \A g \in Form : ~(form'[g].at = "sent" /\ form'[g].command = k)
    BY <2>3, <2>4
  <2>. QED  BY <2>5, <2>6 DEF MayHold
<1>2. RecoveryInv /\ [Next]_vars
        => [\A f \in Form, k \in Key :
              (/\ form[f].mounted /\ form'[f].mounted
               /\ form[f].command = k /\ form'[f].command = None)
                => ~MayHold(k)']_vars
  BY <1>1
<1>. QED  BY <1>2, RecoveryInvariant, PTL DEF Spec, UnlockedWhenDead

(* As long as no form was opened while another one still saved, at most    *)
(* one command is unresolved, however long its requests are on the way: no *)
(* entry of the user allocates twice.                                      *)
THEOREM SerialFormsShareCommand == Spec => []OneUnresolved
<1>1. RecoveryInv => OneUnresolved
  BY DEF RecoveryInv, SerialKept, OneUnresolved, Serial
<1>. QED  BY <1>1, RecoveryInvariant, PTL

(* Until then the store keeps every unresolved command.                    *)
THEOREM SerialFormsResolve == Spec => KeptWhileSerial
<1>1. ASSUME RecoveryInv, [Next]_vars, ~overlapped,
             NEW k \in Key, pending.key = k, pending'.key # k
      PROVE  k \in confirmed' \/ ~MayHold(k)'
  <2>1. PICK f \in Form : Settle(f)
    <3>1. ASSUME pending' = pending
          PROVE  FALSE
      BY <1>1, <3>1
    <3>2. ASSUME NEW f \in Form, Prepare(f) \/ Retry(f)
          PROVE  FALSE
      <4>1. PICK j : RetainAndSend(f, j)
        BY <3>2 DEF Prepare, Retry
      <4>2. pending' = IF pending.key \in {None, j} THEN [key |-> j, uncertain |-> TRUE]
                       ELSE pending
        BY <4>1 DEF RetainAndSend, CanRetain, Retained
      <4>. QED  BY <1>1, <4>2, RecoveryAssumption
    <3>. QED
      BY <1>1, <3>1, <3>2 DEF Next, vars, Open, Leave, Begin, NotPrepared,
         IdentityChecked,
         Succeed, Fail, LoseAnswer, GiveUp, LateArrival
  <2>2. form[f].command = k /\ Releases(f, form[f].at)
    BY <1>1, <2>1, RecoveryAssumption DEF Settle, Released, CanRetain, Retained
  <2>3. CASE Success(form[f].at)
    BY <2>1, <2>2, <2>3 DEF Settle
  <2>4. CASE form[f].at = "refused" /\ ~form[f].uncertain
    <3>1. lost[k] = 0 /\ k \notin receipts /\ \A g \in Form \ {f} : form[g].command # k
      BY <1>1, <2>2, <2>4 DEF RecoveryInv, SoleSender, Answers, TypeOK, Serial
    <3>. QED
      BY <1>1, <2>1, <2>4, <3>1 DEF Settle, MayHold, RecoveryInv, TypeOK, Receipted,
         AfterResult, Success, Blank
  <2>. QED  BY <2>2, <2>3, <2>4 DEF Releases
<1>2. RecoveryInv /\ [Next]_vars
        => [\A k \in Key :
              (~overlapped /\ pending.key = k /\ pending'.key # k)
                => (k \in confirmed' \/ ~MayHold(k)')]_vars
  BY <1>1
<1>. QED  BY <1>2, RecoveryInvariant, PTL DEF Spec, KeptWhileSerial

(* Every variable keeps its type, and the store holds a prepared command,  *)
(* always as uncertain.                                                    *)
THEOREM RecoveryTyped == Spec => []TypeOK
<1>1. RecoveryInv => TypeOK
  BY DEF RecoveryInv
<1>. QED  BY <1>1, RecoveryInvariant, PTL
=============================================================================
