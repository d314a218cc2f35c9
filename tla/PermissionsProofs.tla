--------------------------- MODULE PermissionsProofs ---------------------------
(***************************************************************************)
(* Proofs about Permissions for any askers, tools and read-only commands.  *)
(***************************************************************************)
EXTENDS Permissions, TLAPS

Prompted == {"print", "send", "wait", "run"}

\* How far a call has come says how it was routed: one that is on its way to the
\* sandbox has not been asked about, and one that was routed there can only be
\* asked about, and run here, as a fallback.
RouteInv ==
    \A a \in Askers :
        /\ pc[a] \in {"idle", "check"} => a \notin routed
        /\ pc[a] = "vm" => a \in routed
        /\ pc[a] \notin Prompted => a \notin fallback
        /\ pc[a] \in Prompted => (a \in routed <=> a \in fallback)

\* An approval belongs to a call that is to run here, and stays what it was when
\* it runs: no digit reaches its channel any more.  The hooks of a routed call
\* have run before its prompt is printed.
ApprovalInv ==
    \A a \in Askers :
        /\ approved[a] # "none" <=> pc[a] = "run" \/ (pc[a] = "hook" /\ a \notin routed)
        /\ approved[a] = "policy" => a \notin routed
        /\ approved[a] = "user" => Grants(answer[a], a \in fallback)
        /\ a \in routed /\ pc[a] \in {"send", "wait", "run"} => asked[a] = req[a]

\* What one prompt's digit has to do with the screen: as long as no other prompt
\* crosses it, an open prompt is the one that is shown and the only one a digit
\* can have been typed for; and the request that is pending is unanswered, so a
\* second digit does not take the place of the first.
Unanswered == \A a \in Askers :
    answer[a] # 0 => pc[a] \in {"wait", "run"} \/ (pc[a] = "hook" /\ a \notin routed)
PendingIsOpen == \A a \in Askers : pending = a /\ pc[a] = "wait" => answer[a] = 0
OpenIsShown == \A a \in Askers :
    a \in Open /\ a \notin crossed => shown = a /\ key \in {NoKey, a}
AnswerIsMeant == \A a \in Askers : answer[a] # 0 /\ a \notin crossed => meant[a] = a

ScreenInv == Unanswered /\ (terminal => PendingIsOpen /\ OpenIsShown /\ AnswerIsMeant)

IInv == TypeOK /\ RouteInv /\ ApprovalInv /\ ScreenInv

LEMMA InitIInv == Init => IInv
<1> SUFFICES ASSUME Init PROVE IInv
  OBVIOUS
<1>1. NoRequest \in Requests
  BY PermissionsAssumption DEF NoRequest
<1>2. TypeOK
  BY <1>1 DEF Init, TypeOK, PCs, Approvals
<1>3. RouteInv /\ ApprovalInv
  BY DEF Init, RouteInv, ApprovalInv, Prompted
<1>4. ScreenInv
  BY PermissionsAssumption
     DEF Init, ScreenInv, Unanswered, PendingIsOpen, OpenIsShown, AnswerIsMeant, Open
<1>5. QED
  BY <1>2, <1>3, <1>4 DEF IInv
-----------------------------------------------------------------------------
(* What ends a call, and what an answer does to the policy.                *)

LEMMA EndedKeeps ==
    ASSUME IInv, NEW a \in Askers, Ended(a), UNCHANGED screen
    PROVE  /\ pc' \in [Askers -> PCs] /\ req' \in [Askers -> Requests] /\ asked' \in [Askers -> Requests]
           /\ fallback' \subseteq Askers /\ routed' \subseteq Askers /\ dead' \subseteq Askers
           /\ answer' \in [Askers -> Digits \union {0}]
           /\ approved' \in [Askers -> Approvals]
           /\ shown' \in Askers \union {Nobody} /\ key' \in Askers \union {Nobody, NoKey}
           /\ meant' \in [Askers -> Askers \union {Nobody}] /\ crossed' \subseteq Askers
           /\ RouteInv' /\ ApprovalInv' /\ ScreenInv'
<1> USE DEF IInv, TypeOK, Ended, Goto, Approve
<1>1. NoRequest \in Requests
  BY PermissionsAssumption DEF NoRequest
<1>2. pc' \in [Askers -> PCs] /\ req' \in [Askers -> Requests] /\ asked' \in [Askers -> Requests]
  BY <1>1 DEF PCs
<1>3. fallback' \subseteq Askers /\ routed' \subseteq Askers /\ dead' \subseteq Askers /\ crossed' \subseteq Askers
  OBVIOUS
<1>4. answer' \in [Askers -> Digits \union {0}] /\ approved' \in [Askers -> Approvals]
  BY DEF Approvals
<1>5. /\ shown' \in Askers \union {Nobody} /\ key' \in Askers \union {Nobody, NoKey}
      /\ meant' \in [Askers -> Askers \union {Nobody}]
  OBVIOUS
<1>6. RouteInv'
  BY DEF RouteInv, Prompted
<1>7. ApprovalInv'
  BY DEF ApprovalInv, Grants
<1>8. ScreenInv'
  <2>1. Unanswered'
    BY DEF ScreenInv, Unanswered
  <2>2. ASSUME terminal' PROVE PendingIsOpen' /\ AnswerIsMeant'
    BY <2>2 DEF screen, ScreenInv, PendingIsOpen, AnswerIsMeant
  <2>3. ASSUME terminal', NEW b \in Askers, (b \in Open)', b \notin crossed'
        PROVE  shown' = b /\ key' \in {NoKey, b}
    <3>1. b # a /\ b \in Open /\ b \notin crossed
      BY <2>3 DEF Open
    <3>2. shown = b /\ key \in {NoKey, b}
      BY <2>3, <3>1 DEF screen, ScreenInv, OpenIsShown
    <3>3. QED
      BY <3>1, <3>2, PermissionsAssumption
  <2>4. QED
    BY <2>1, <2>2, <2>3 DEF ScreenInv, OpenIsShown
<1>9. QED
  BY <1>2, <1>3, <1>4, <1>5, <1>6, <1>7, <1>8

LEMMA ToolsOfRequests == \A r \in Requests : ToolOf(r) \in Tools
BY DEF Tools

LEMMA DecisionKeeps ==
    ASSUME TypeOK, NEW r \in Requests, NEW d \in Digits, ApplyDecision(r, d)
    PROVE  mode' \in Modes /\ allow' \subseteq Tools /\ deny' \subseteq Tools /\ rules' \subseteq Bash
<1>1. CASE d = 3 /\ r \in Bash
  BY <1>1 DEF TypeOK, ApplyDecision
<1>2. CASE d = 3 /\ r \notin Bash
  BY <1>2, ToolsOfRequests DEF TypeOK, ApplyDecision, AllowTool
<1>3. CASE d = 4
  BY <1>3, ToolsOfRequests DEF TypeOK, ApplyDecision, DenyTool
<1>4. CASE d # 3 /\ d # 4
  BY <1>4 DEF TypeOK, ApplyDecision
<1>5. QED
  BY <1>1, <1>2, <1>3, <1>4
-----------------------------------------------------------------------------
LEMMA NextIInv == IInv /\ [Next]_vars => IInv'
<1> SUFFICES ASSUME IInv, [Next]_vars PROVE IInv'
  OBVIOUS
<1> USE DEF policy, calls, screen, typing, ghosts, Goto, Approve
<1>a. TypeOK /\ RouteInv /\ ApprovalInv /\ ScreenInv
  BY DEF IInv
\* A step that leaves the answers and the screen alone and opens no prompt.
<1>b. ASSUME UNCHANGED <<answer, terminal, pending, typing, ghosts>>, Unanswered',
             \A a \in Askers : pc'[a] \in {"send", "wait"} => pc'[a] = pc[a]
      PROVE  ScreenInv'
  BY <1>a, <1>b DEF ScreenInv, PendingIsOpen, OpenIsShown, AnswerIsMeant, Open
<1>1. ASSUME NEW a \in Askers, NEW r \in Requests, Prepare(a, r) PROVE IInv'
  <2>1. pc' \in [Askers -> PCs] /\ req' \in [Askers -> Requests] /\ routed' \subseteq Askers
    BY <1>1, <1>a DEF Prepare, TypeOK, PCs
  <2>2. TypeOK'
    BY <1>1, <1>a, <2>1 DEF Prepare, TypeOK
  <2>3. RouteInv'
    BY <1>1, <1>a DEF Prepare, TypeOK, RouteInv, Prompted
  <2>4. ApprovalInv'
    BY <1>1, <1>a DEF Prepare, TypeOK, RouteInv, ApprovalInv, Grants
  <2>5. ScreenInv'
    BY <1>1, <1>a, <1>b DEF Prepare, TypeOK, ScreenInv, Unanswered
  <2>6. QED
    BY <2>2, <2>3, <2>4, <2>5 DEF IInv
<1>2. ASSUME NEW a \in Askers, Ended(a), UNCHANGED <<policy, sandbox, screen>> PROVE IInv'
  BY <1>2, <1>a, EndedKeeps DEF IInv, TypeOK
<1>3. ASSUME NEW a \in Askers, Check(a) PROVE IInv'
  <2>1. CASE Ended(a)
    BY <1>2, <1>3, <2>1 DEF Check
  <2>2. CASE Goto(a, "hook") /\ Approve(a, "policy")
             /\ UNCHANGED <<req, asked, fallback, routed, answer, dead, typing, ghosts>>
    <3>1. TypeOK'
      BY <1>3, <1>a, <2>2 DEF Check, TypeOK, PCs, Approvals
    <3>2. RouteInv' /\ ApprovalInv'
      BY <1>3, <1>a, <2>2 DEF Check, TypeOK, RouteInv, ApprovalInv, Prompted, Grants
    <3>3. ScreenInv'
      BY <1>3, <1>a, <1>b, <2>2 DEF Check, TypeOK, ScreenInv, Unanswered
    <3>4. QED
      BY <3>1, <3>2, <3>3 DEF IInv
  <2>3. CASE Goto(a, "print")
             /\ UNCHANGED <<req, asked, fallback, routed, answer, approved, dead, typing, ghosts>>
    <3>1. TypeOK'
      BY <1>3, <1>a, <2>3 DEF Check, TypeOK, PCs
    <3>2. RouteInv' /\ ApprovalInv'
      BY <1>3, <1>a, <2>3 DEF Check, TypeOK, RouteInv, ApprovalInv, Prompted, Grants
    <3>3. ScreenInv'
      BY <1>3, <1>a, <1>b, <2>3 DEF Check, TypeOK, ScreenInv, Unanswered
    <3>4. QED
      BY <3>1, <3>2, <3>3 DEF IInv
  <2>4. QED
    BY <1>3, <2>1, <2>2, <2>3 DEF Check
<1>4. ASSUME NEW a \in Askers, Hook(a) PROVE IInv'
  <2>1. PICK r \in Requests : req' = [req EXCEPT ![a] = r]
    BY <1>4 DEF Hook
  <2>2. TypeOK'
    BY <1>4, <1>a, <2>1 DEF Hook, TypeOK, PCs
  <2>3. RouteInv'
    BY <1>4, <1>a DEF Hook, TypeOK, RouteInv, Prompted
  <2>4. ApprovalInv'
    BY <1>4, <1>a, <2>1 DEF Hook, TypeOK, ApprovalInv, Grants
  <2>5. Unanswered'
    BY <1>4, <1>a DEF Hook, TypeOK, ScreenInv, Unanswered
  <2>6. ScreenInv'
    BY <1>4, <1>a, <1>b, <2>5 DEF Hook, TypeOK
  <2>7. QED
    BY <2>2, <2>3, <2>4, <2>6 DEF IInv
<1>5. ASSUME NEW a \in Askers, CallSandbox(a) PROVE IInv'
  <2>1. CASE Ended(a)
    BY <1>2, <1>5, <2>1 DEF CallSandbox
  <2>2. CASE ~Ended(a)
    <3>1. TypeOK'
      BY <1>5, <1>a, <2>2 DEF CallSandbox, TypeOK, PCs
    <3>2. a \in routed
      BY <1>5, <1>a DEF CallSandbox, RouteInv
    <3>3. RouteInv' /\ ApprovalInv'
      BY <1>5, <1>a, <2>2, <3>2 DEF CallSandbox, TypeOK, RouteInv, ApprovalInv, Prompted, Grants
    <3>4. ScreenInv'
      BY <1>5, <1>a, <1>b, <2>2 DEF CallSandbox, TypeOK, ScreenInv, Unanswered
    <3>5. QED
      BY <3>1, <3>3, <3>4 DEF IInv
  <2>3. QED
    BY <2>1, <2>2
<1>6. ASSUME NEW a \in Askers, ShowPrompt(a) PROVE IInv'
  <2>1. TypeOK'
    BY <1>6, <1>a DEF ShowPrompt, TypeOK, PCs, Open
  <2>2. RouteInv' /\ ApprovalInv'
    BY <1>6, <1>a DEF ShowPrompt, TypeOK, RouteInv, ApprovalInv, Prompted, Grants
  <2>3. Unanswered'
    BY <1>6, <1>a DEF ShowPrompt, TypeOK, ScreenInv, Unanswered
  <2>4. ASSUME terminal' PROVE PendingIsOpen' /\ AnswerIsMeant'
    BY <1>6, <1>a, <2>4 DEF ShowPrompt, TypeOK, ScreenInv, PendingIsOpen, AnswerIsMeant
  <2>5. ASSUME terminal', NEW b \in Askers, (b \in Open)', b \notin crossed'
        PROVE  shown' = b /\ key' \in {NoKey, b}
    <3>1. b # a => b \in Open
      BY <1>6, <1>a, <2>5 DEF ShowPrompt, TypeOK, Open
    <3>2. Open = {} /\ key = NoKey
      BY <1>6, <2>5, <3>1 DEF ShowPrompt
    <3>3. QED
      BY <1>6, <3>1, <3>2 DEF ShowPrompt
  <2>6. QED
    BY <2>1, <2>2, <2>3, <2>4, <2>5 DEF IInv, ScreenInv, OpenIsShown
<1>7. ASSUME NEW a \in Askers, TakeAnswer(a) PROVE IInv'
  <2>1. mode' \in Modes /\ allow' \subseteq Tools /\ deny' \subseteq Tools /\ rules' \subseteq Bash
    BY <1>7, <1>a, DecisionKeeps DEF TakeAnswer, TypeOK
  <2>2. CASE Grants(answer[a], a \in fallback)
    <3>1. TypeOK'
      BY <1>7, <1>a, <2>1, <2>2 DEF TakeAnswer, TypeOK, PCs, Approvals
    <3>2. RouteInv'
      BY <1>7, <1>a, <2>2 DEF TakeAnswer, TypeOK, RouteInv, Prompted
    <3>3. ApprovalInv'
      BY <1>7, <1>a, <2>2 DEF TakeAnswer, TypeOK, RouteInv, ApprovalInv, Prompted
    <3>4. ScreenInv'
      BY <1>7, <1>a, <1>b, <2>2 DEF TakeAnswer, TypeOK, RouteInv, Prompted, ScreenInv, Unanswered
    <3>5. QED
      BY <3>1, <3>2, <3>3, <3>4 DEF IInv
  <2>3. CASE ~Grants(answer[a], a \in fallback)
    <3>1. Ended(a) /\ UNCHANGED <<sandbox, screen>>
      BY <1>7, <2>3 DEF TakeAnswer
    <3>2. QED
      BY <1>a, <2>1, <3>1, EndedKeeps DEF IInv, TypeOK
  <2>4. QED
    BY <2>2, <2>3
<1>8. ASSUME NEW a \in Askers, Drop(a) \/ GiveUp(a) \/ Finish(a) PROVE IInv'
  BY <1>2, <1>8 DEF Drop, GiveUp, Finish
<1>9. ASSUME NEW a \in Askers, ReceiveRequest(a) PROVE IInv'
  <2>1. TypeOK'
    BY <1>9, <1>a DEF ReceiveRequest, TypeOK, PCs
  <2>2. RouteInv' /\ ApprovalInv'
    BY <1>9, <1>a DEF ReceiveRequest, TypeOK, RouteInv, ApprovalInv, Prompted, Grants
  <2>3. ScreenInv'
    BY <1>9, <1>a DEF ReceiveRequest, TypeOK, ScreenInv, Unanswered, PendingIsOpen,
                      OpenIsShown, AnswerIsMeant, Open
  <2>4. QED
    BY <2>1, <2>2, <2>3 DEF IInv
<1>10. ASSUME NEW a \in Askers, NEW d \in Digits, ReadLine(a, d) PROVE IInv'
  <2>1. TypeOK'
    BY <1>10, <1>a DEF ReadLine, TypeOK, PCs
  <2>2. RouteInv' /\ ApprovalInv'
    BY <1>10, <1>a DEF ReadLine, TypeOK, RouteInv, ApprovalInv, Prompted
  <2>3. ScreenInv'
    BY <1>10, <1>a DEF ReadLine, TypeOK, ScreenInv, Unanswered
  <2>4. QED
    BY <2>1, <2>2, <2>3 DEF IInv
<1>11. CASE TypeDigit
  <2>1. TypeOK' /\ RouteInv' /\ ApprovalInv'
    BY <1>11, <1>a DEF TypeDigit, TypeOK, RouteInv, ApprovalInv
  <2>2. ScreenInv'
    BY <1>11, <1>a DEF TypeDigit, ScreenInv, Unanswered, PendingIsOpen, OpenIsShown,
                       AnswerIsMeant, Open
  <2>3. QED
    BY <2>1, <2>2 DEF IInv
<1>12. ASSUME NEW d \in Digits, ReadDigit(d) PROVE IInv'
  <2>1. TypeOK'
    BY <1>12, <1>a DEF ReadDigit, TypeOK
  <2>2. RouteInv'
    BY <1>12, <1>a DEF ReadDigit, RouteInv
  <2>3. \A a \in Askers : pc[a] # "wait" => answer'[a] = answer[a] /\ meant'[a] = meant[a]
    BY <1>12, <1>a DEF ReadDigit, TypeOK
  <2>4. ApprovalInv'
    BY <1>12, <1>a, <2>3 DEF ReadDigit, ApprovalInv, Grants
  <2>5. Unanswered' /\ PendingIsOpen'
    BY <1>12, <1>a, <2>3, PermissionsAssumption DEF ReadDigit, ScreenInv, Unanswered, PendingIsOpen
  <2>6. OpenIsShown'
    <3>1. \A a \in Askers : answer'[a] = 0 => answer[a] = 0
      BY <1>12, <1>a DEF ReadDigit, TypeOK, Digits, ScreenInv, PendingIsOpen
    <3>2. QED
      BY <1>12, <1>a, <3>1 DEF ReadDigit, ScreenInv, OpenIsShown, Open
  <2>7. ASSUME NEW a \in Askers, answer'[a] # 0, a \notin crossed' PROVE meant'[a] = a
    <3>1. CASE pending = a /\ pc[a] = "wait"
      <4>1. a \in Open
        BY <1>12, <1>a, <3>1 DEF ReadDigit, ScreenInv, PendingIsOpen, Open
      <4>2. key = a
        BY <1>12, <1>a, <2>7, <4>1 DEF ReadDigit, ScreenInv, OpenIsShown
      <4>3. QED
        BY <1>12, <1>a, <3>1, <4>2, PermissionsAssumption DEF ReadDigit, TypeOK
    <3>2. CASE ~(pending = a /\ pc[a] = "wait")
      <4>1. answer'[a] = answer[a] /\ meant'[a] = meant[a]
        BY <1>12, <1>a, <3>2 DEF ReadDigit, TypeOK
      <4>2. QED
        BY <1>12, <1>a, <2>7, <4>1 DEF ReadDigit, ScreenInv, AnswerIsMeant
    <3>3. QED
      BY <3>1, <3>2
  <2>8. QED
    BY <2>1, <2>2, <2>4, <2>5, <2>6, <2>7 DEF IInv, ScreenInv, AnswerIsMeant
<1>13. CASE PressEsc \/ EnterPrompt \/ ChooseByLine
  <2>1. TypeOK'
    BY <1>13, <1>a DEF PressEsc, EnterPrompt, ChooseByLine, Active, TypeOK
  <2>2. RouteInv' /\ ApprovalInv'
    BY <1>13, <1>a DEF PressEsc, EnterPrompt, ChooseByLine, RouteInv, ApprovalInv
  <2>3. ScreenInv'
    BY <1>13, <1>a, <1>b DEF PressEsc, EnterPrompt, ChooseByLine, ScreenInv, Unanswered
  <2>4. QED
    BY <2>1, <2>2, <2>3 DEF IInv
<1>14. CASE EndRun
  <2>1. TypeOK'
    BY <1>14, <1>a DEF EndRun, Active, TypeOK
  <2>2. RouteInv' /\ ApprovalInv'
    BY <1>14, <1>a DEF EndRun, RouteInv, ApprovalInv
  <2>3. ScreenInv'
    BY <1>14, <1>a, PermissionsAssumption
       DEF EndRun, ScreenInv, Unanswered, PendingIsOpen, OpenIsShown, AnswerIsMeant, Open
  <2>4. QED
    BY <2>1, <2>2, <2>3 DEF IInv
<1>15. CASE Command
  <2>1. TypeOK'
    BY <1>15, <1>a DEF Command, AllowTool, DenyTool, TypeOK
  <2>2. RouteInv' /\ ApprovalInv'
    BY <1>15, <1>a DEF Command, RouteInv, ApprovalInv
  <2>3. ScreenInv'
    BY <1>15, <1>a, <1>b DEF Command, ScreenInv, Unanswered
  <2>4. QED
    BY <2>1, <2>2, <2>3 DEF IInv
<1>16. CASE UNCHANGED vars
  <2>1. TypeOK' /\ RouteInv' /\ ApprovalInv'
    BY <1>16, <1>a DEF vars, TypeOK, RouteInv, ApprovalInv
  <2>2. ScreenInv'
    BY <1>16, <1>a, <1>b DEF vars, ScreenInv, Unanswered
  <2>3. QED
    BY <2>1, <2>2 DEF IInv
<1>17. QED
  BY <1>1, <1>3, <1>4, <1>5, <1>6, <1>7, <1>8, <1>9, <1>10, <1>11, <1>12, <1>13, <1>14, <1>15, <1>16
     DEF Next, Asker
-----------------------------------------------------------------------------
\* Routes, approvals and answers agree with where each call is and with what the
\* screen has shown, whatever is typed and however many calls ask at once.
THEOREM Invariance == Spec => []IInv
<1>1. QED
  BY InitIInv, NextIInv, PTL DEF Spec

\* Every variable keeps its type.
THEOREM TypeCorrect == Spec => []TypeOK
<1>1. IInv => TypeOK
  BY DEF IInv
<1>2. QED
  BY Invariance, <1>1, PTL

\* No tool runs on this host but by the policy or a granting digit handed to the
\* request of this call, and none the sandbox was to run but by the digit, with
\* the input that its prompt showed.
THEOREM NothingRunsUnapproved == Spec => []HostRunsAreApproved
<1>1. IInv => HostRunsAreApproved
  BY DEF IInv, TypeOK, RouteInv, ApprovalInv, HostRunsAreApproved, Prompted, Approvals
<1>2. QED
  BY Invariance, <1>1, PTL

\* A digit that grants a call whose prompt met no other, and no digit on its way,
\* was typed for the prompt of this call.
THEOREM GrantsFitPrompts == Spec => []GrantsAreMeant
<1>1. IInv => GrantsAreMeant
  BY DEF IInv, ApprovalInv, Grants, ScreenInv, AnswerIsMeant, GrantsAreMeant
<1>2. QED
  BY Invariance, <1>1, PTL
=============================================================================
