--------------------------- MODULE WebPagesProofs ---------------------------
(***************************************************************************)
(* Theorems about the tabs of the settings page, the application's         *)
(* session, and their composition in WebPages.                             *)
(*                                                                         *)
(* The accounts and the keys have proof modules of their own.  The policy  *)
(* tab, the users' tabs and the session follow here, each with its         *)
(* inductive invariant; at the end, a behaviour of WebPages is shown to be *)
(* one of every part, so that what is proved of a part holds of the whole. *)
(***************************************************************************)
EXTENDS WebPages, AccountsPageProofs, ApiKeysPageProofs, FiniteSetTheorems, TLAPS

-----------------------------------------------------------------------------
(***************************************************************************)
(* The policy tab.  Its loads and its saves decide what the form means;    *)
(* while it is calm there is one of them at most, and it carries what is   *)
(* in force or what the form held when it was saved.                       *)
(***************************************************************************)
Moves(s) == policyCalls[s].kind \in {"load", "save"}

\* What the call in slot s says, if it is a load or a save.
MoveSound(s) ==
    /\ policyCalls[s].state # "error"
    /\ policyCalls[s].state = "ok" => policyCalls[s].policy = policy
    /\ policyTab.active => policyCalls[s].mine

OneMove ==
    /\ \A r, s \in Slot : Moves(r) /\ Moves(s) => r = s
    /\ \A s \in Slot : Moves(s) => MoveSound(s)

\* The fields nobody edited: as the table has them, or as the save that is
\* under way will write them.
FormInForce ==
    \A f \in Field \ policyTab.edited :
        IF PolicyOut("save") = {} THEN policyTab.settings[f] = policy[f]
        ELSE \A s \in PolicyOut("save") : policyCalls[s].policy[f] = policyTab.settings[f]

CalmOK ==
    /\ OneMove
    /\ policyTab.active /\ PolicyOut("load") = {} => FormInForce

PolicyInv == PolicyTypeOK /\ (calm => CalmOK)

\* The tab that is not open, and the slot that is free.
LEMMA PolicyStartValues ==
    /\ Default \in Policy
    /\ FreshPolicyTab \in PolicyState /\ ~FreshPolicyTab.active
    /\ NoPolicyCall \in PolicyCall /\ NoPolicyCall.kind = "idle"
  BY PolicyAssumption
     DEF FreshPolicyTab, PolicyState, NoPolicyCall, PolicyCall, CallState

\* What a call says when it is sent.
LEMMA PolicyAsked ==
    ASSUME NEW kind \in {"load", "save", "cleanup"}, NEW form \in Policy
    PROVE  /\ PolicyAsk(kind, form) \in PolicyCall
           /\ PolicyAsk(kind, form).kind = kind /\ PolicyAsk(kind, form).mine
           /\ PolicyAsk(kind, form).state = "sent"
           /\ PolicyAsk(kind, form).policy = form
  BY PolicyStartValues DEF PolicyAsk, PolicyCall, NoPolicyCall, CallState

\* A call is sent from a slot that was free.
LEMMA PolicySending ==
    ASSUME PolicyTypeOK, NEW call \in PolicyCall, SendPolicyCall(call)
    PROVE  \E s \in Slot :
               /\ policyCalls[s].kind = "idle" /\ policyCalls'[s] = call
               /\ \A r \in Slot : r # s => policyCalls'[r] = policyCalls[r]
               /\ policyCalls' \in [Slot -> PolicyCall]
<1>1. PICK s \in Free(policyCalls) : policyCalls' = [policyCalls EXCEPT ![s] = call]
  BY DEF SendPolicyCall
<1>2. s \in Slot /\ policyCalls[s].kind = "idle"
  BY <1>1 DEF Free
<1> QED
  BY <1>1, <1>2 DEF PolicyTypeOK

\* Acts are counted up to their bound.
LEMMA PolicyActCounts ==
    ASSUME PolicyTypeOK, PolicyAct
    PROVE  policyActs' \in 0 .. MaxPolicyActs
  BY PolicyAssumption DEF PolicyTypeOK, PolicyAct

\* The loads and the saves are what they were, and so is the form.
LEMMA CalmKept ==
    ASSUME CalmOK,
           \A s \in Slot : Moves(s) \/ Moves(s)' =>
               /\ policyCalls'[s].kind = policyCalls[s].kind
               /\ policyCalls'[s].state = policyCalls[s].state
               /\ policyCalls'[s].policy = policyCalls[s].policy
               /\ policyTab'.active => policyCalls'[s].mine = policyCalls[s].mine,
           policy' = policy,
           policyTab'.active => /\ policyTab.active
                                /\ policyTab'.settings = policyTab.settings
                                /\ policyTab'.edited = policyTab.edited
    PROVE  CalmOK'
<1>1. \A s \in Slot : Moves(s)' <=> Moves(s)
  BY DEF Moves
<1>2. OneMove'
  BY <1>1 DEF CalmOK, OneMove, MoveSound
<1>3. PolicyOut("load")' = PolicyOut("load") /\ PolicyOut("save")' = PolicyOut("save")
  BY DEF PolicyOut, Moves
<1>4. ASSUME policyTab'.active, PolicyOut("load")' = {}
      PROVE  FormInForce'
  <2>1. FormInForce
    BY <1>3, <1>4 DEF CalmOK
  <2>2. \A s \in PolicyOut("save") : policyCalls'[s].policy = policyCalls[s].policy
    BY DEF PolicyOut, Moves
  <2> QED
    BY <1>3, <1>4, <2>1, <2>2 DEF FormInForce
<1> QED
  BY <1>2, <1>4 DEF CalmOK

\* The acts that send a call.
LEMMA PolicySends ==
    ASSUME PolicyInv, OpenPolicy \/ SavePolicy \/ TriggerCleanup
    PROVE  PolicyInv'
<1>t. PolicyTypeOK /\ policyTab \in PolicyState
  BY DEF PolicyInv, PolicyTypeOK
<1>a. policyActs' \in 0 .. MaxPolicyActs
  BY <1>t, PolicyActCounts DEF OpenPolicy, SavePolicy, TriggerCleanup
<1>c. policy' = policy /\ calm' \in BOOLEAN /\ (calm' => calm)
  <2>1. policy' = policy /\ (calm' = calm \/ \E b \in BOOLEAN : calm' = (calm /\ b))
    BY DEF OpenPolicy, SavePolicy, TriggerCleanup
  <2>2. calm \in BOOLEAN
    BY <1>t DEF PolicyTypeOK
  <2> QED
    BY <2>1, <2>2
<1>1. CASE OpenPolicy
  <2> DEFINE call == PolicyAsk("load", Default)
  <2>1. /\ call \in PolicyCall /\ call.kind = "load" /\ call.mine
        /\ call.state = "sent" /\ SendPolicyCall(call)
    BY <1>1, PolicyAsked, PolicyStartValues DEF OpenPolicy
  <2> HIDE DEF call
  <2>2. PICK s \in Slot :
            /\ policyCalls[s].kind = "idle" /\ policyCalls'[s] = call
            /\ \A r \in Slot : r # s => policyCalls'[r] = policyCalls[r]
            /\ policyCalls' \in [Slot -> PolicyCall]
    BY <1>t, <2>1, PolicySending
  <2>3. policyTab' \in PolicyState
    BY <1>1, <1>t DEF OpenPolicy, PolicyState
  <2>4. ASSUME calm'
        PROVE  CalmOK'
    <3>1. \A r \in Slot : ~Moves(r)
      BY <1>1, <2>4 DEF OpenPolicy, PolicyOut, Moves
    <3>2. \A r \in Slot : Moves(r)' <=> r = s
      BY <2>1, <2>2, <3>1 DEF Moves
    <3>3. OneMove'
      BY <2>1, <2>2, <3>2 DEF OneMove, MoveSound
    <3>4. PolicyOut("load")' # {}
      BY <2>1, <2>2 DEF PolicyOut
    <3> QED
      BY <3>3, <3>4 DEF CalmOK
  <2> QED
    BY <1>t, <1>a, <1>c, <2>2, <2>3, <2>4 DEF PolicyInv, PolicyTypeOK
<1>2. CASE SavePolicy
  <2> DEFINE call == PolicyAsk("save", policyTab.settings)
  <2>1. /\ call \in PolicyCall /\ call.kind = "save" /\ call.mine
        /\ call.state = "sent" /\ call.policy = policyTab.settings
        /\ SendPolicyCall(call)
    BY <1>2, <1>t, PolicyAsked DEF SavePolicy, PolicyState
  <2> HIDE DEF call
  <2>2. PICK s \in Slot :
            /\ policyCalls[s].kind = "idle" /\ policyCalls'[s] = call
            /\ \A r \in Slot : r # s => policyCalls'[r] = policyCalls[r]
            /\ policyCalls' \in [Slot -> PolicyCall]
    BY <1>t, <2>1, PolicySending
  <2>3. policyTab' \in PolicyState /\ policyTab'.settings = policyTab.settings
    BY <1>2, <1>t DEF SavePolicy, PolicyState
  <2>4. ASSUME calm'
        PROVE  CalmOK'
    <3>1. \A r \in Slot : ~Moves(r)
      BY <1>2, <2>4 DEF SavePolicy, PolicyOut, Moves
    <3>2. \A r \in Slot : Moves(r)' <=> r = s
      BY <2>1, <2>2, <3>1 DEF Moves
    <3>3. OneMove'
      BY <2>1, <2>2, <3>2 DEF OneMove, MoveSound
    <3>4. PolicyOut("save")' = {s}
      BY <2>1, <2>2, <3>2 DEF PolicyOut, Moves
    <3>5. FormInForce'
      BY <2>1, <2>2, <2>3, <3>4 DEF FormInForce
    <3> QED
      BY <3>3, <3>5 DEF CalmOK
  <2> QED
    BY <1>t, <1>a, <1>c, <2>2, <2>3, <2>4 DEF PolicyInv, PolicyTypeOK
<1>3. CASE TriggerCleanup
  <2> DEFINE call == PolicyAsk("cleanup", policyTab.settings)
  <2>1. call \in PolicyCall /\ call.kind = "cleanup" /\ SendPolicyCall(call)
    BY <1>3, <1>t, PolicyAsked DEF TriggerCleanup, PolicyState
  <2> HIDE DEF call
  <2>2. PICK s \in Slot :
            /\ policyCalls[s].kind = "idle" /\ policyCalls'[s] = call
            /\ \A r \in Slot : r # s => policyCalls'[r] = policyCalls[r]
            /\ policyCalls' \in [Slot -> PolicyCall]
    BY <1>t, <2>1, PolicySending
  <2>3. /\ policyTab' \in PolicyState /\ policyTab'.settings = policyTab.settings
        /\ policyTab'.edited = policyTab.edited /\ policyTab.active
    BY <1>3, <1>t DEF TriggerCleanup, PolicyState
  <2>4. ASSUME calm'
        PROVE  CalmOK'
    <3>1. CalmOK
      BY <1>c, <2>4 DEF PolicyInv
    <3>2. ~Moves(s) /\ ~Moves(s)'
      BY <2>1, <2>2 DEF Moves
    <3> QED
      BY <1>c, <2>2, <2>3, <3>1, <3>2, CalmKept
  <2> QED
    BY <1>t, <1>a, <1>c, <2>2, <2>3, <2>4 DEF PolicyInv, PolicyTypeOK
<1> QED
  BY <1>1, <1>2, <1>3

\* The acts that send none.
LEMMA PolicyQuietActs ==
    ASSUME PolicyInv,
           \/ LeavePolicy \/ ReopenSettings
           \/ \E field \in Field, value \in Value : EditPolicy(field, value)
    PROVE  PolicyInv'
<1>t. /\ PolicyTypeOK /\ policyTab \in PolicyState /\ calm \in BOOLEAN
      /\ policyCalls \in [Slot -> PolicyCall] /\ policy \in Policy
  BY DEF PolicyInv, PolicyTypeOK
<1>a. policyActs' \in 0 .. MaxPolicyActs
  BY <1>t, PolicyActCounts DEF LeavePolicy, ReopenSettings, EditPolicy
<1>1. CASE LeavePolicy
  <2>1. /\ policyTab' = [policyTab EXCEPT !.active = FALSE]
        /\ UNCHANGED <<policy, policyCalls, calm>>
    BY <1>1 DEF LeavePolicy
  <2>2. policyTab' \in PolicyState /\ ~policyTab'.active
    BY <1>t, <2>1 DEF PolicyState
  <2>3. calm => CalmOK'
    BY <2>1, <2>2, CalmKept DEF PolicyInv
  <2> QED
    BY <1>t, <1>a, <2>1, <2>2, <2>3 DEF PolicyInv, PolicyTypeOK
<1>2. CASE ReopenSettings
  <2>1. /\ policyTab' = FreshPolicyTab /\ policyCalls' = Orphaned(policyCalls)
        /\ UNCHANGED <<policy, calm>>
    BY <1>2 DEF ReopenSettings
  <2>2. /\ policyCalls' \in [Slot -> PolicyCall]
        /\ \A s \in Slot : /\ policyCalls'[s].kind = policyCalls[s].kind
                           /\ policyCalls'[s].state = policyCalls[s].state
                           /\ policyCalls'[s].policy = policyCalls[s].policy
    BY <1>t, <2>1 DEF Orphaned, PolicyCall
  <2>3. calm => CalmOK'
    BY <2>1, <2>2, CalmKept, PolicyStartValues DEF PolicyInv
  <2> QED
    BY <1>t, <1>a, <2>1, <2>2, <2>3, PolicyStartValues DEF PolicyInv, PolicyTypeOK
<1>3. ASSUME NEW field \in Field, NEW value \in Value, EditPolicy(field, value)
      PROVE  PolicyInv'
  <2>1. /\ policyTab' = [policyTab EXCEPT !.settings = Edited(field, value),
                                          !.edited = policyTab.edited \union {field}]
        /\ policyTab.active /\ UNCHANGED <<policy, policyCalls>>
        /\ calm' = (calm /\ PolicyOut("load") = {})
    BY <1>3 DEF EditPolicy
  <2>2. policyTab.settings \in Policy
    BY <1>t DEF PolicyState
  <2>3. /\ Edited(field, value) \in Policy
        /\ \A f \in Field : f # field => Edited(field, value)[f] = policyTab.settings[f]
    BY <2>2 DEF Edited, Policy
  <2>4. /\ policyTab' \in PolicyState
        /\ policyTab'.settings = Edited(field, value)
        /\ policyTab'.edited = policyTab.edited \union {field}
        /\ policyTab'.active = policyTab.active
    BY <1>t, <2>1, <2>3 DEF PolicyState
  <2>5. ASSUME calm'
        PROVE  CalmOK'
    <3>1. OneMove /\ FormInForce
      BY <2>1, <2>5 DEF PolicyInv, CalmOK
    <3>2. OneMove'
      BY <2>1, <2>4, <3>1 DEF OneMove, MoveSound, Moves
    <3>3. FormInForce'
      BY <2>1, <2>3, <2>4, <3>1 DEF FormInForce, PolicyOut
    <3> QED
      BY <3>2, <3>3 DEF CalmOK
  <2> QED
    BY <1>t, <1>a, <2>1, <2>4, <2>5 DEF PolicyInv, PolicyTypeOK
<1> QED
  BY <1>1, <1>2, <1>3

\* The server reads or writes the table.
LEMMA PolicyServer ==
    ASSUME PolicyInv, NEW s \in Slot, ServePolicy(s) \/ ServeSave(s) \/ ServeCleanup(s)
    PROVE  PolicyInv'
<1>t. /\ PolicyTypeOK /\ policyTab \in PolicyState /\ calm \in BOOLEAN
      /\ policyCalls \in [Slot -> PolicyCall] /\ policy \in Policy
      /\ policyCalls[s] \in PolicyCall /\ policyCalls[s].policy \in Policy
  BY DEF PolicyInv, PolicyTypeOK, PolicyCall
<1>u. policyTab' = policyTab /\ policyActs' = policyActs
  BY DEF ServePolicy, ServeSave, ServeCleanup
<1>s. ASSUME NEW state \in CallState, NEW form \in Policy, PolicyServed(s, state, form)
      PROVE  /\ policyCalls' \in [Slot -> PolicyCall]
             /\ \A r \in Slot : r # s => policyCalls'[r] = policyCalls[r]
             /\ policyCalls'[s].kind = policyCalls[s].kind
             /\ policyCalls'[s].mine = policyCalls[s].mine
             /\ policyCalls'[s].state = state /\ policyCalls'[s].policy = form
  BY <1>t, <1>s DEF PolicyServed, PolicyCall
<1>1. CASE ServePolicy(s)
  <2>1. PICK state \in CallState, form \in Policy :
            /\ PolicyServed(s, state, form)
            /\ \/ state = "ok" /\ form = policy /\ calm' = calm
               \/ calm' = FALSE
    BY <1>1, <1>t, PolicyStartValues DEF ServePolicy, CallState
  <2>2. policyCalls[s].kind = "load" /\ policy' = policy
    BY <1>1 DEF ServePolicy, PolicySent
  <2>3. ASSUME calm'
        PROVE  CalmOK'
    <3>1. OneMove /\ state = "ok" /\ form = policy
      BY <2>1, <2>3 DEF PolicyInv, CalmOK
    <3>2. OneMove'
      BY <1>s, <1>u, <2>1, <2>2, <3>1 DEF OneMove, MoveSound, Moves
    <3>3. PolicyOut("load")' # {}
      BY <1>s, <2>1, <2>2 DEF PolicyOut
    <3> QED
      BY <3>2, <3>3 DEF CalmOK
  <2> QED
    BY <1>t, <1>u, <1>s, <2>1, <2>2, <2>3 DEF PolicyInv, PolicyTypeOK
<1>2. CASE ServeSave(s)
  <2>1. PICK done \in BOOLEAN, state \in {"ok", "error"} :
            /\ state = "ok" => done
            /\ policy' = IF done THEN policyCalls[s].policy ELSE policy
            /\ PolicyServed(s, state, policyCalls[s].policy)
            /\ calm' = (calm /\ state = "ok")
    BY <1>2 DEF ServeSave
  <2>2. policyCalls[s].kind = "save" /\ state \in CallState
    BY <1>2 DEF ServeSave, PolicySent, CallState
  <2>3. policy' \in Policy /\ calm' \in BOOLEAN
    BY <1>t, <2>1
  <2>s. /\ policyCalls' \in [Slot -> PolicyCall]
        /\ \A r \in Slot : r # s => policyCalls'[r] = policyCalls[r]
        /\ policyCalls'[s].kind = policyCalls[s].kind
        /\ policyCalls'[s].mine = policyCalls[s].mine
        /\ policyCalls'[s].state = state
        /\ policyCalls'[s].policy = policyCalls[s].policy
    BY <1>t, <1>s, <2>1, <2>2
  <2>4. ASSUME calm'
        PROVE  CalmOK'
    <3>1. CalmOK /\ state = "ok" /\ policy' = policyCalls[s].policy
      BY <2>1, <2>4 DEF PolicyInv
    <3>2. \A r \in Slot : Moves(r)' <=> Moves(r)
      BY <2>s DEF Moves
    <3>3. \A r \in Slot : Moves(r) => r = s
      BY <2>2, <3>1 DEF CalmOK, OneMove, Moves
    <3>4. MoveSound(s)'
      BY <1>u, <2>s, <2>2, <3>1 DEF CalmOK, OneMove, MoveSound, Moves
    <3>5. OneMove'
      BY <3>2, <3>3, <3>4 DEF OneMove
    <3>6. ASSUME policyTab'.active, PolicyOut("load")' = {}
          PROVE  FormInForce'
      <4>1. /\ PolicyOut("load")' = PolicyOut("load")
            /\ PolicyOut("save")' = PolicyOut("save") /\ s \in PolicyOut("save")
        BY <2>s, <2>2 DEF PolicyOut
      <4>2. FormInForce
        BY <1>u, <3>1, <3>6, <4>1 DEF CalmOK
      <4>3. \A r \in Slot : policyCalls'[r].policy = policyCalls[r].policy
        BY <2>s
      <4> QED
        BY <1>u, <4>1, <4>2, <4>3 DEF FormInForce, PolicyOut
    <3> QED
      BY <3>5, <3>6 DEF CalmOK
  <2> QED
    BY <1>t, <1>u, <2>s, <2>3, <2>4 DEF PolicyInv, PolicyTypeOK
<1>3. CASE ServeCleanup(s)
  <2>1. PICK state \in CallState : PolicyServed(s, state, policyCalls[s].policy)
    BY <1>3 DEF ServeCleanup, CallState
  <2>2. policyCalls[s].kind = "cleanup" /\ policy' = policy /\ calm' = calm
    BY <1>3 DEF ServeCleanup, PolicySent
  <2>3. ~Moves(s) /\ ~Moves(s)'
    BY <1>t, <1>s, <2>1, <2>2 DEF Moves
  <2>4. calm => CalmOK'
    BY <1>t, <1>s, <1>u, <2>1, <2>2, <2>3, CalmKept DEF PolicyInv
  <2> QED
    BY <1>t, <1>u, <1>s, <2>1, <2>2, <2>4 DEF PolicyInv, PolicyTypeOK
<1> QED
  BY <1>1, <1>2, <1>3

\* A handler ends on form p.
LEMMA PolicyEnding ==
    ASSUME PolicyTypeOK, NEW s \in Slot, NEW p \in PolicyState, EndPolicyCall(s, p)
    PROVE  /\ policyCalls' \in [Slot -> PolicyCall] /\ policyTab' \in PolicyState
           /\ policyCalls'[s].kind = "idle"
           /\ \A r \in Slot : r # s => policyCalls'[r] = policyCalls[r]
           /\ policyTab' = IF policyCalls[s].mine THEN p ELSE policyTab
           /\ UNCHANGED <<policy, policyActs, calm>>
  BY PolicyStartValues DEF PolicyTypeOK, EndPolicyCall

\* The handlers that go on when an answer is there.
LEMMA PolicyHandlers ==
    ASSUME PolicyInv, NEW s \in Slot, PolicyLoaded(s) \/ PolicySaved(s) \/ CleanedUp(s)
    PROVE  PolicyInv'
<1>t. /\ PolicyTypeOK /\ policyTab \in PolicyState
      /\ policyCalls[s] \in PolicyCall /\ policyCalls[s].policy \in Policy
      /\ policyTab.edited \subseteq Field
  BY DEF PolicyInv, PolicyTypeOK, PolicyCall, PolicyState
<1>1. CASE PolicyLoaded(s)
  <2> DEFINE p == IF Succeeded(policyCalls, s)
                  THEN [policyTab EXCEPT !.settings = policyCalls[s].policy, !.edited = {}]
                  ELSE policyTab
  <2>1. /\ policyCalls[s].kind = "load" /\ policyCalls[s].state # "sent"
        /\ EndPolicyCall(s, p)
    BY <1>1 DEF PolicyLoaded, Back
  <2>2. /\ p \in PolicyState /\ p.active = policyTab.active
        /\ Succeeded(policyCalls, s) => p.settings = policyCalls[s].policy
    BY <1>t DEF PolicyState
  <2> HIDE DEF p
  <2>3. /\ policyCalls' \in [Slot -> PolicyCall] /\ policyTab' \in PolicyState
        /\ policyCalls'[s].kind = "idle"
        /\ \A r \in Slot : r # s => policyCalls'[r] = policyCalls[r]
        /\ policyTab' = IF policyCalls[s].mine THEN p ELSE policyTab
        /\ UNCHANGED <<policy, policyActs, calm>>
    BY <1>t, <2>1, <2>2, PolicyEnding
  <2>4. ASSUME calm'
        PROVE  CalmOK'
    <3>1. OneMove
      BY <2>3, <2>4 DEF PolicyInv, CalmOK
    <3>2. \A r \in Slot : ~Moves(r)'
      BY <2>1, <2>3, <3>1 DEF OneMove, Moves
    <3>3. OneMove'
      BY <3>2 DEF OneMove
    <3>4. Moves(s) /\ MoveSound(s)
      BY <2>1, <3>1 DEF OneMove, Moves
    <3>5. policyCalls[s].state = "ok" /\ policyCalls[s].policy = policy
      BY <1>t, <2>1, <3>4 DEF MoveSound, PolicyCall, CallState
    <3>6. policyTab'.active => policyTab'.settings = policy'
      BY <2>2, <2>3, <3>4, <3>5 DEF MoveSound, Succeeded
    <3>7. PolicyOut("save")' = {}
      BY <3>2 DEF PolicyOut, Moves
    <3> QED
      BY <3>3, <3>6, <3>7 DEF CalmOK, FormInForce
  <2> QED
    BY <1>t, <2>3, <2>4 DEF PolicyInv, PolicyTypeOK
<1>2. CASE PolicySaved(s)
  <2> DEFINE left == {f \in policyTab.edited :
                          policyTab.settings[f] # policyCalls[s].policy[f]}
             p == IF Succeeded(policyCalls, s)
                  THEN [policyTab EXCEPT !.saving = FALSE, !.edited = left]
                  ELSE [policyTab EXCEPT !.saving = FALSE]
  <2>1. /\ policyCalls[s].kind = "save" /\ policyCalls[s].state # "sent"
        /\ EndPolicyCall(s, p)
    BY <1>2 DEF PolicySaved, Back
  <2>2. /\ p \in PolicyState /\ p.active = policyTab.active
        /\ p.settings = policyTab.settings
        /\ Succeeded(policyCalls, s) => p.edited = left
    BY <1>t DEF PolicyState
  <2> HIDE DEF p
  <2>3. /\ policyCalls' \in [Slot -> PolicyCall] /\ policyTab' \in PolicyState
        /\ policyCalls'[s].kind = "idle"
        /\ \A r \in Slot : r # s => policyCalls'[r] = policyCalls[r]
        /\ policyTab' = IF policyCalls[s].mine THEN p ELSE policyTab
        /\ UNCHANGED <<policy, policyActs, calm>>
    BY <1>t, <2>1, <2>2, PolicyEnding
  <2>4. ASSUME calm'
        PROVE  CalmOK'
    <3>1. CalmOK
      BY <2>3, <2>4 DEF PolicyInv
    <3>2. \A r \in Slot : ~Moves(r)'
      BY <2>1, <2>3, <3>1 DEF CalmOK, OneMove, Moves
    <3>3. OneMove'
      BY <3>2 DEF OneMove
    <3>4. Moves(s) /\ MoveSound(s) /\ \A r \in Slot : Moves(r) => r = s
      BY <2>1, <3>1 DEF CalmOK, OneMove, Moves
    <3>5. policyCalls[s].state = "ok" /\ policyCalls[s].policy = policy
      BY <1>t, <2>1, <3>4 DEF MoveSound, PolicyCall, CallState
    <3>6. ASSUME policyTab'.active
          PROVE  FormInForce'
      <4>1. policyTab' = p /\ policyTab.active
        BY <2>2, <2>3, <3>4, <3>6 DEF MoveSound
      <4>2. PolicyOut("load") = {} /\ PolicyOut("save") = {s} /\ PolicyOut("save")' = {}
        BY <2>1, <3>2, <3>4 DEF PolicyOut, Moves
      <4>3. FormInForce
        BY <3>1, <4>1, <4>2 DEF CalmOK
      <4>4. policyTab'.settings = policyTab.settings /\ policyTab'.edited = left
        BY <2>2, <3>5, <4>1 DEF Succeeded
      <4>5. ASSUME NEW f \in Field \ left
            PROVE  policyTab.settings[f] = policy[f]
        BY <3>5, <4>2, <4>3 DEF FormInForce
      <4> QED
        BY <2>3, <4>2, <4>4, <4>5 DEF FormInForce
    <3> QED
      BY <3>3, <3>6 DEF CalmOK
  <2> QED
    BY <1>t, <2>3, <2>4 DEF PolicyInv, PolicyTypeOK
<1>3. CASE CleanedUp(s)
  <2> DEFINE p == [policyTab EXCEPT !.cleaning = FALSE]
  <2>1. policyCalls[s].kind = "cleanup" /\ EndPolicyCall(s, p)
    BY <1>3 DEF CleanedUp, Back
  <2>2. /\ p \in PolicyState /\ p.active = policyTab.active
        /\ p.settings = policyTab.settings /\ p.edited = policyTab.edited
    BY <1>t DEF PolicyState
  <2> HIDE DEF p
  <2>3. /\ policyCalls' \in [Slot -> PolicyCall] /\ policyTab' \in PolicyState
        /\ policyCalls'[s].kind = "idle"
        /\ \A r \in Slot : r # s => policyCalls'[r] = policyCalls[r]
        /\ policyTab' = IF policyCalls[s].mine THEN p ELSE policyTab
        /\ UNCHANGED <<policy, policyActs, calm>>
    BY <1>t, <2>1, <2>2, PolicyEnding
  <2>4. ~Moves(s) /\ ~Moves(s)'
    BY <2>1, <2>3 DEF Moves
  <2>5. calm => CalmOK'
    BY <2>2, <2>3, <2>4, CalmKept DEF PolicyInv
  <2> QED
    BY <1>t, <2>3, <2>5 DEF PolicyInv, PolicyTypeOK
<1> QED
  BY <1>1, <1>2, <1>3

\* PolicyInv holds at the start.
LEMMA PolicyStart ==
    ASSUME PolicyInit
    PROVE  PolicyInv
<1>1. \A s \in Slot : policyCalls[s] = NoPolicyCall
  BY DEF PolicyInit
<1>2. PolicyTypeOK /\ ~policyTab.active
  BY PolicyStartValues, PolicyAssumption DEF PolicyInit, PolicyTypeOK
<1>3. CalmOK
  BY <1>1, <1>2, PolicyStartValues DEF CalmOK, OneMove, Moves
<1> QED
  BY <1>2, <1>3 DEF PolicyInv

\* PolicyInv is inductive.
LEMMA PolicyStep ==
    ASSUME PolicyInv, [PolicyNext]_policyVars
    PROVE  PolicyInv'
<1>1. CASE PolicyNext
  BY <1>1, PolicySends, PolicyQuietActs, PolicyServer, PolicyHandlers
     DEF PolicyNext, PolicyCallStep
<1>2. CASE UNCHANGED policyVars
  BY <1>2 DEF policyVars, PolicyInv, PolicyTypeOK, CalmOK, OneMove, MoveSound, Moves,
              FormInForce, PolicyOut
<1> QED
  BY <1>1, <1>2

\* Every variable of the policy tab stays in its domain.
THEOREM PolicyTypeCorrect == PolicySpec => []PolicyTypeOK
<1>1. PolicyInit => PolicyInv
  BY PolicyStart
<1>2. PolicyInv /\ [PolicyNext]_policyVars => PolicyInv'
  BY PolicyStep
<1>3. PolicyInv => PolicyTypeOK
  BY DEF PolicyInv
<1> QED
  BY <1>1, <1>2, <1>3, PTL DEF PolicySpec

\* A save writes what was edited and, for the rest, what is in force already,
\* for any number of fields, values and calls out at once.
THEOREM UneditedFieldsAreInForce == PolicySpec => []UneditedFieldsInForce
<1>1. PolicyInit => PolicyInv
  BY PolicyStart
<1>2. PolicyInv /\ [PolicyNext]_policyVars => PolicyInv'
  BY PolicyStep
<1>3. PolicyInv => UneditedFieldsInForce
  BY DEF PolicyInv, CalmOK, FormInForce, UneditedFieldsInForce
<1> QED
  BY <1>1, <1>2, <1>3, PTL DEF PolicySpec

-----------------------------------------------------------------------------
(***************************************************************************)
(* The tabs over the users.  The own row is recognised by its name, which  *)
(* three places hold: the table, currentUsername, and the rows.  While the *)
(* page is prompt they agree, except between a save of the profile and its *)
(* answer; no list may be out then.                                        *)
(***************************************************************************)
\* A save of the profile: which name the table has by now.
SaveSound(s) ==
    /\ usersTab.tab # "users" /\ UserOut("list") = {}
    /\ userTable[Me] = IF userCalls[s].state = "ok" THEN userCalls[s].name
                       ELSE usersTab.current

ListSound(s) ==
    /\ userCalls[s].state # "error"
    /\ userCalls[s].state = "ok" => userCalls[s].list[Me] = usersTab.current

OwnNameShown == RowsShown[Me] \in {NoUser, usersTab.current}

PromptOK ==
    /\ \A r, s \in UserOut("save") : r = s
    /\ \A s \in UserOut("save") : SaveSound(s)
    /\ UserOut("save") = {} => usersTab.current = userTable[Me]
    /\ \A s \in UserOut("list") : ListSound(s)
    /\ usersTab.tab = "users" => OwnNameShown
    /\ \A s \in UserOut("delete") : userCalls[s].id # Me

\* The own id has been given out, and a profile is saved under some name.
NamesOK ==
    /\ Me <= userSerial
    /\ \A s \in UserOut("save") : userCalls[s].name \in UserName

UsersInv == UsersTypeOK /\ NamesOK /\ (prompt => PromptOK)

\* The empty list, the free slot and the page as it is first rendered.
LEMMA UserStartValues ==
    /\ NoUsers \in UserList /\ NoUsers[Me] = NoUser
    /\ Me \in User /\ User \subseteq 0 .. MaxUsers /\ 0 \in 0 .. MaxUsers
    /\ NoUserCall \in UserCall /\ NoUserCall.kind = "idle"
    /\ \A name \in UserName : FreshUsersTab(name) \in UsersState
  BY UsersAssumption
     DEF NoUsers, UserList, User, NoUserCall, UserCall, CallState, FreshUsersTab, UsersState

\* What a call says when it is sent.
LEMMA UserAsked ==
    ASSUME NEW kind \in UserKinds, NEW id \in 0 .. MaxUsers,
           NEW name \in UserName \union {NoUser}
    PROVE  /\ UserAsk(kind, id, name) \in UserCall
           /\ UserAsk(kind, id, name).kind = kind /\ UserAsk(kind, id, name).mine
           /\ UserAsk(kind, id, name).id = id /\ UserAsk(kind, id, name).name = name
           /\ UserAsk(kind, id, name).state = "sent"
<1>1. NoUserCall \in UserCall /\ NoUserCall.state = "sent"
  BY UserStartValues DEF NoUserCall
<1> QED
  BY <1>1 DEF UserAsk, UserCall

\* A call is sent from a slot that was free.
LEMMA UserSending ==
    ASSUME UsersTypeOK, NEW call \in UserCall, SendUserCall(call)
    PROVE  \E s \in Slot :
               /\ userCalls[s].kind = "idle" /\ userCalls'[s] = call
               /\ \A r \in Slot : r # s => userCalls'[r] = userCalls[r]
               /\ userCalls' \in [Slot -> UserCall]
<1>1. PICK s \in Free(userCalls) : userCalls' = [userCalls EXCEPT ![s] = call]
  BY DEF SendUserCall
<1>2. s \in Slot /\ userCalls[s].kind = "idle"
  BY <1>1 DEF Free
<1> QED
  BY <1>1, <1>2 DEF UsersTypeOK

\* Acts are counted up to their bound.
LEMMA UserActCounts ==
    ASSUME UsersTypeOK, UserAct
    PROVE  userActs' \in 0 .. MaxUserActs
  BY UsersAssumption DEF UsersTypeOK, UserAct

\* Calls that do not touch the own row.
Neutral(kind) == kind \notin {"list", "save", "delete"}

\* The call in slot s says what it said.
SameUserCall(s) ==
    /\ userCalls'[s].kind = userCalls[s].kind
    /\ userCalls'[s].state = userCalls[s].state
    /\ userCalls'[s].list = userCalls[s].list
    /\ userCalls'[s].name = userCalls[s].name
    /\ userCalls'[s].id = userCalls[s].id

\* Nothing that bears on the own row has changed, but for its disappearance
\* from the screen.
LEMMA PromptKept ==
    ASSUME PromptOK,
           \A s \in Slot : \/ SameUserCall(s)
                           \/ Neutral(userCalls[s].kind) /\ Neutral(userCalls'[s].kind),
           userTable'[Me] = userTable[Me],
           usersTab'.current = usersTab.current,
           usersTab'.tab = "users" => /\ usersTab.tab = "users"
                                      /\ RowsShown'[Me] = RowsShown[Me]
    PROVE  PromptOK'
<1>1. /\ UserOut("save")' = UserOut("save") /\ UserOut("list")' = UserOut("list")
      /\ UserOut("delete")' = UserOut("delete")
  BY DEF UserOut, SameUserCall, Neutral
<1>2. \A s \in UserOut("save") \union UserOut("list") \union UserOut("delete") : SameUserCall(s)
  BY DEF UserOut, Neutral
<1>3. \A s \in UserOut("save") : SaveSound(s)'
  BY <1>1, <1>2 DEF PromptOK, SaveSound, SameUserCall
<1>4. \A s \in UserOut("list") : ListSound(s)'
  BY <1>2 DEF PromptOK, ListSound, SameUserCall
<1>5. usersTab'.tab = "users" => OwnNameShown'
  BY DEF PromptOK, OwnNameShown
<1> QED
  BY <1>1, <1>2, <1>3, <1>4, <1>5 DEF PromptOK, SameUserCall

\* A list is asked for while no save is out.
LEMMA PromptAsks ==
    ASSUME PromptOK, UserOut("save") = {}, NEW s \in Slot,
           userCalls'[s].kind = "list", userCalls'[s].state = "sent",
           \A r \in Slot : r # s => SameUserCall(r),
           userTable'[Me] = userTable[Me],
           usersTab'.current = usersTab.current,
           usersTab'.tab = "users" => OwnNameShown'
    PROVE  PromptOK'
<1>1. UserOut("save")' = {}
  BY DEF UserOut, SameUserCall
<1>2. ASSUME NEW r \in Slot, userCalls'[r].kind = "list"
      PROVE  ListSound(r)'
  BY <1>2 DEF PromptOK, ListSound, SameUserCall, UserOut
<1>3. ASSUME NEW r \in Slot, userCalls'[r].kind = "delete"
      PROVE  userCalls'[r].id # Me
  BY <1>3 DEF PromptOK, SameUserCall, UserOut
<1> QED
  BY <1>1, <1>2, <1>3 DEF PromptOK, UserOut

\* The invariant as three obligations of a step that counts as no more than
\* one act.
LEMMA UsersInvParts ==
    ASSUME UsersInv,
           userTable' \in UserList, userTable'[Me] # NoUser,
           userSerial' \in User, userSerial <= userSerial',
           usersTab' \in UsersState, userCalls' \in [Slot -> UserCall],
           userActs' \in 0 .. MaxUserActs, prompt' \in BOOLEAN,
           \A s \in Slot : userCalls'[s].kind = "save" =>
               userCalls'[s].name \in UserName,
           prompt' => PromptOK'
    PROVE  UsersInv'
<1>1. Me <= userSerial'
  BY UsersAssumption DEF UsersInv, UsersTypeOK, NamesOK, User
<1> QED
  BY <1>1 DEF UsersInv, UsersTypeOK, NamesOK, UserOut

\* What UsersInv says of types.
LEMMA UsersInvFacts ==
    ASSUME UsersInv
    PROVE  /\ UsersTypeOK
           /\ userTable \in UserList /\ userTable[Me] # NoUser
           /\ userSerial \in User /\ userSerial <= userSerial
           /\ usersTab \in UsersState /\ userCalls \in [Slot -> UserCall]
           /\ userActs \in 0 .. MaxUserActs /\ prompt \in BOOLEAN
           /\ \A s \in Slot : userCalls[s].kind = "save" => userCalls[s].name \in UserName
  BY DEF UsersInv, UsersTypeOK, NamesOK, UserOut, User

\* The acts that send nothing.
LEMMA UserQuietActs ==
    ASSUME UsersInv,
           \/ \E tab \in {"profile", "other"} : ChooseTab(tab)
           \/ ReopenUsers
           \/ \E u \in User : OpenReset(u)
           \/ OpenAdder
           \/ \E name \in UserName : TypeName(name)
           \/ CloseDialog
    PROVE  UsersInv'
<1>t. /\ UsersTypeOK
      /\ userTable \in UserList /\ userTable[Me] # NoUser
      /\ userSerial \in User /\ userSerial <= userSerial
      /\ usersTab \in UsersState /\ userCalls \in [Slot -> UserCall]
      /\ \A s \in Slot : userCalls[s].kind = "save" => userCalls[s].name \in UserName
      /\ prompt \in BOOLEAN /\ 0 \in 0 .. MaxUsers /\ User \subseteq 0 .. MaxUsers
  BY UsersInvFacts, UserStartValues
<1>1. UserAct /\ UNCHANGED <<userTable, userSerial, prompt>>
  BY DEF ChooseTab, ReopenUsers, OpenReset, OpenAdder, TypeName, CloseDialog
<1>2. userActs' \in 0 .. MaxUserActs
  BY <1>t, <1>1, UserActCounts
<1>3. CASE ReopenUsers
  <2>1. /\ usersTab' = FreshUsersTab(usersTab.current)
        /\ userCalls' = Orphaned(userCalls)
    BY <1>3 DEF ReopenUsers
  <2>2. usersTab.current \in UserName
    BY <1>t DEF UsersState
  <2>3. /\ usersTab' \in UsersState /\ usersTab'.tab = "other"
        /\ usersTab'.current = usersTab.current
    BY <2>1, <2>2, UserStartValues DEF FreshUsersTab
  <2>4. userCalls' \in [Slot -> UserCall] /\ \A s \in Slot : SameUserCall(s)
    BY <1>t, <2>1, ZenonT(60) DEF Orphaned, UserCall, SameUserCall
  <2>5. prompt' => PromptOK'
    BY <1>1, <2>3, <2>4, PromptKept DEF UsersInv
  <2> QED
    BY <1>t, <1>1, <1>2, <2>3, <2>4, <2>5, UsersInvParts DEF SameUserCall
<1>4. CASE \/ \E tab \in {"profile", "other"} : ChooseTab(tab)
           \/ \E u \in User : OpenReset(u)
           \/ OpenAdder
           \/ \E name \in UserName : TypeName(name)
           \/ CloseDialog
  <2>1. userCalls' = userCalls
    BY <1>4 DEF ChooseTab, OpenReset, OpenAdder, TypeName, CloseDialog
  <2> DEFINE Turned == /\ usersTab' \in UsersState
                       /\ usersTab'.current = usersTab.current
                       /\ usersTab'.list = usersTab.list
                       /\ usersTab'.loading = usersTab.loading
                       /\ usersTab'.tab = "users" => usersTab.tab = "users"
  <2>2. Turned
    <3>1. ASSUME NEW tab \in {"profile", "other"}, ChooseTab(tab)
          PROVE  Turned
      BY <1>t, <3>1 DEF ChooseTab, UsersState
    <3>2. ASSUME NEW u \in User, OpenReset(u)
          PROVE  Turned
      BY <1>t, <3>2 DEF OpenReset, UsersState
    <3>3. CASE OpenAdder
      BY <1>t, <3>3 DEF OpenAdder, UsersState
    <3>4. ASSUME NEW name \in UserName, TypeName(name)
          PROVE  Turned
      BY <1>t, <3>4 DEF TypeName, UsersState
    <3>5. CASE CloseDialog
      BY <1>t, <3>5 DEF CloseDialog, UsersState
    <3> QED
      BY <1>4, <3>1, <3>2, <3>3, <3>4, <3>5
  <2>3. RowsShown' = RowsShown
    BY <2>2 DEF RowsShown
  <2>4. prompt' => PromptOK'
    BY <1>1, <2>1, <2>2, <2>3, PromptKept DEF UsersInv, SameUserCall
  <2> QED
    BY <1>t, <1>1, <1>2, <2>1, <2>2, <2>4, UsersInvParts
<1> QED
  BY <1>3, <1>4

\* The acts that send a call which leaves the own row alone, and the
\* deletion of a row, which is not the own one.
LEMMA UserRowActs ==
    ASSUME UsersInv,
           \/ \E u \in User : DeleteUser(u)
           \/ \E name \in UserName : CreateUser(name)
           \/ ResetPassword
    PROVE  UsersInv'
<1>t. /\ UsersTypeOK
      /\ userTable \in UserList /\ userTable[Me] # NoUser
      /\ userSerial \in User /\ userSerial <= userSerial
      /\ usersTab \in UsersState /\ userCalls \in [Slot -> UserCall]
      /\ \A s \in Slot : userCalls[s].kind = "save" => userCalls[s].name \in UserName
      /\ prompt \in BOOLEAN /\ 0 \in 0 .. MaxUsers /\ User \subseteq 0 .. MaxUsers
  BY UsersInvFacts, UserStartValues
<1>1. UserAct /\ UNCHANGED <<userTable, userSerial, prompt>>
  BY DEF DeleteUser, CreateUser, ResetPassword
<1>2. userActs' \in 0 .. MaxUserActs
  BY <1>t, <1>1, UserActCounts
<1>k. "create" \in UserKinds /\ "delete" \in UserKinds /\ "reset" \in UserKinds
  BY DEF UserKinds
<1>3. ASSUME NEW kind \in {"create", "reset"}, NEW id \in 0 .. MaxUsers,
             NEW name \in UserName \union {NoUser}, SendUserCall(UserAsk(kind, id, name)),
             usersTab' \in UsersState, usersTab'.current = usersTab.current,
             usersTab'.list = usersTab.list, usersTab'.loading = usersTab.loading,
             usersTab'.tab = usersTab.tab
      PROVE  UsersInv'
  <2> DEFINE call == UserAsk(kind, id, name)
  <2>1. call \in UserCall /\ call.kind = kind
    BY <1>k, <1>3, UserAsked
  <2>c. SendUserCall(call)
    BY <1>3
  <2> HIDE DEF call
  <2>2. PICK s \in Slot :
            /\ userCalls[s].kind = "idle" /\ userCalls'[s] = call
            /\ \A r \in Slot : r # s => userCalls'[r] = userCalls[r]
            /\ userCalls' \in [Slot -> UserCall]
    BY <1>t, <2>1, <2>c, UserSending
  <2>3. \A r \in Slot : \/ SameUserCall(r)
                        \/ Neutral(userCalls[r].kind) /\ Neutral(userCalls'[r].kind)
    BY <2>1, <2>2 DEF SameUserCall, Neutral
  <2>4. RowsShown' = RowsShown
    BY <1>3 DEF RowsShown
  <2>5. prompt' => PromptOK'
    BY <1>1, <1>3, <2>3, <2>4, PromptKept DEF UsersInv
  <2> QED
    BY <1>t, <1>1, <1>2, <1>3, <2>1, <2>2, <2>5, UsersInvParts
<1>4. ASSUME NEW name \in UserName, CreateUser(name)
      PROVE  UsersInv'
  <2>1. /\ SendUserCall(UserAsk("create", 0, name))
        /\ usersTab' = [usersTab EXCEPT !.adding = TRUE]
    BY <1>4 DEF CreateUser
  <2> QED
    BY <1>t, <1>3, <2>1 DEF UsersState
<1>5. CASE ResetPassword
  <2>1. /\ SendUserCall(UserAsk("reset", usersTab.reset, NoUser))
        /\ usersTab' = [usersTab EXCEPT !.resetting = TRUE]
    BY <1>5 DEF ResetPassword
  <2>2. usersTab.reset \in 0 .. MaxUsers
    BY <1>t DEF UsersState
  <2> QED
    BY <1>t, <1>3, <2>1, <2>2 DEF UsersState
<1>6. ASSUME NEW u \in User, DeleteUser(u)
      PROVE  UsersInv'
  <2> DEFINE call == UserAsk("delete", u, NoUser)
  <2>1. call \in UserCall /\ call.kind = "delete" /\ call.id = u
    BY <1>k, <1>t, UserAsked
  <2>c. SendUserCall(call) /\ usersTab' = usersTab
    BY <1>6 DEF DeleteUser
  <2> HIDE DEF call
  <2>2. PICK s \in Slot :
            /\ userCalls[s].kind = "idle" /\ userCalls'[s] = call
            /\ \A r \in Slot : r # s => userCalls'[r] = userCalls[r]
            /\ userCalls' \in [Slot -> UserCall]
    BY <1>t, <2>1, <2>c, UserSending
  <2>3. ASSUME prompt'
        PROVE  PromptOK'
    <3>1. PromptOK
      BY <1>1, <2>3 DEF UsersInv
    <3>2. u # Me
      BY <1>6, <3>1 DEF PromptOK, DeleteUser, UserRow, OwnNameShown
    <3>3. UserOut("save")' = UserOut("save") /\ UserOut("list")' = UserOut("list")
      BY <2>1, <2>2 DEF UserOut
    <3>4. \A r \in Slot : r # s => SameUserCall(r)
      BY <2>2 DEF SameUserCall
    <3>5. \A r \in UserOut("save") : SaveSound(r)'
      BY <1>1, <2>2, <2>c, <3>1, <3>3, <3>4 DEF PromptOK, SaveSound, SameUserCall, UserOut
    <3>6. \A r \in UserOut("list") : ListSound(r)'
      BY <2>2, <2>c, <3>1, <3>4 DEF PromptOK, ListSound, SameUserCall, UserOut
    <3>7. \A r \in UserOut("delete")' : userCalls'[r].id # Me
      BY <2>1, <2>2, <3>1, <3>2 DEF PromptOK, UserOut
    <3>8. OwnNameShown' <=> OwnNameShown
      BY <2>c DEF OwnNameShown, RowsShown
    <3> QED
      BY <1>1, <2>c, <3>1, <3>3, <3>5, <3>6, <3>7, <3>8 DEF PromptOK
  <2> QED
    BY <1>t, <1>1, <1>2, <2>1, <2>2, <2>c, <2>3, UsersInvParts
<1> QED
  BY <1>4, <1>5, <1>6

\* The tab of the users asks for the list, and shows a spinner until then.
LEMMA UserTabChosen ==
    ASSUME UsersInv, ChooseTab("users")
    PROVE  UsersInv'
<1> DEFINE call == UserAsk("list", 0, NoUser)
<1>t. /\ UsersTypeOK
      /\ userTable \in UserList /\ userTable[Me] # NoUser
      /\ userSerial \in User /\ userSerial <= userSerial
      /\ usersTab \in UsersState /\ userCalls \in [Slot -> UserCall]
      /\ \A s \in Slot : userCalls[s].kind = "save" => userCalls[s].name \in UserName
      /\ prompt \in BOOLEAN /\ 0 \in 0 .. MaxUsers /\ NoUsers[Me] = NoUser
  BY UsersInvFacts, UserStartValues
<1>1. /\ UserAct /\ UNCHANGED <<userTable, userSerial>>
      /\ prompt' = (prompt /\ UserOut("save") = {}) /\ SendUserCall(call)
      /\ usersTab' = [usersTab EXCEPT !.tab = "users", !.loading = TRUE]
  BY DEF ChooseTab
<1>2. userActs' \in 0 .. MaxUserActs
  BY <1>t, <1>1, UserActCounts
<1>3. call \in UserCall /\ call.kind = "list" /\ call.state = "sent"
  BY <1>t, UserAsked DEF UserKinds
<1> HIDE DEF call
<1>4. PICK s \in Slot :
          /\ userCalls[s].kind = "idle" /\ userCalls'[s] = call
          /\ \A r \in Slot : r # s => userCalls'[r] = userCalls[r]
          /\ userCalls' \in [Slot -> UserCall]
  BY <1>t, <1>1, <1>3, UserSending
<1>5. /\ usersTab' \in UsersState /\ usersTab'.current = usersTab.current
      /\ usersTab'.loading
  BY <1>t, <1>1 DEF UsersState
<1>6. OwnNameShown'
  BY <1>t, <1>5 DEF OwnNameShown, RowsShown
<1>7. prompt' => PromptOK'
  BY <1>1, <1>3, <1>4, <1>5, <1>6, PromptAsks DEF UsersInv, SameUserCall
<1>8. prompt' \in BOOLEAN
  BY <1>t, <1>1
<1> QED
  BY <1>t, <1>1, <1>2, <1>3, <1>4, <1>5, <1>7, <1>8, UsersInvParts

\* The profile is saved while no list is out.
LEMMA ProfileSubmitted ==
    ASSUME UsersInv, SaveProfile
    PROVE  UsersInv'
<1> DEFINE call == UserAsk("save", Me, usersTab.newName)
<1>t. /\ UsersTypeOK
      /\ userTable \in UserList /\ userTable[Me] # NoUser
      /\ userSerial \in User /\ userSerial <= userSerial
      /\ usersTab \in UsersState /\ userCalls \in [Slot -> UserCall]
      /\ \A s \in Slot : userCalls[s].kind = "save" => userCalls[s].name \in UserName
      /\ prompt \in BOOLEAN /\ Me \in 0 .. MaxUsers /\ usersTab.newName \in UserName
  BY UsersInvFacts, UserStartValues DEF UsersState
<1>1. /\ UserAct /\ UNCHANGED <<userTable, userSerial>>
      /\ prompt' = (prompt /\ UserOut("list") \union UserOut("save") = {})
      /\ usersTab.tab = "profile" /\ SendUserCall(call)
      /\ usersTab' = [usersTab EXCEPT !.saving = TRUE]
  BY DEF SaveProfile
<1>2. userActs' \in 0 .. MaxUserActs
  BY <1>t, <1>1, UserActCounts
<1>3. /\ call \in UserCall /\ call.kind = "save" /\ call.state = "sent"
      /\ call.name \in UserName
  BY <1>t, UserAsked DEF UserKinds
<1> HIDE DEF call
<1>4. PICK s \in Slot :
          /\ userCalls[s].kind = "idle" /\ userCalls'[s] = call
          /\ \A r \in Slot : r # s => userCalls'[r] = userCalls[r]
          /\ userCalls' \in [Slot -> UserCall]
  BY <1>t, <1>1, <1>3, UserSending
<1>5. /\ usersTab' \in UsersState /\ usersTab'.current = usersTab.current
      /\ usersTab'.tab = "profile"
  BY <1>t, <1>1 DEF UsersState
<1>6. ASSUME prompt'
      PROVE  PromptOK'
  <2>1. PromptOK /\ UserOut("list") = {} /\ UserOut("save") = {}
    BY <1>1, <1>6 DEF UsersInv
  <2>2. UserOut("save")' = {s} /\ UserOut("list")' = {}
    BY <1>3, <1>4, <2>1 DEF UserOut
  <2>3. userTable'[Me] = usersTab'.current
    BY <1>1, <1>5, <2>1 DEF PromptOK
  <2>4. SaveSound(s)'
    BY <1>3, <1>4, <1>5, <2>2, <2>3 DEF SaveSound
  <2>5. \A r \in UserOut("delete")' : userCalls'[r].id # Me
    BY <1>3, <1>4, <2>1 DEF PromptOK, UserOut
  <2> QED
    BY <1>5, <2>2, <2>4, <2>5 DEF PromptOK
<1>7. prompt' \in BOOLEAN
  BY <1>t, <1>1
<1> QED
  BY <1>t, <1>1, <1>2, <1>3, <1>4, <1>5, <1>6, <1>7, UsersInvParts

\* The server's part but for the profile.
LEMMA UserServer ==
    ASSUME UsersInv, NEW s \in Slot,
           ServeUsers(s) \/ ServeCreateUser(s) \/ ServeDeleteUser(s) \/ ServeReset(s)
    PROVE  UsersInv'
<1>t. /\ UsersTypeOK
      /\ userTable \in UserList /\ userTable[Me] # NoUser
      /\ userSerial \in User /\ userSerial <= userSerial
      /\ usersTab \in UsersState /\ userCalls \in [Slot -> UserCall]
      /\ userActs \in 0 .. MaxUserActs /\ prompt \in BOOLEAN
      /\ \A r \in Slot : userCalls[r].kind = "save" => userCalls[r].name \in UserName
      /\ userCalls[s] \in UserCall /\ NoUsers \in UserList /\ Me \in User
  BY UsersInvFacts, UserStartValues
<1>u. usersTab' = usersTab /\ userActs' = userActs
  BY DEF ServeUsers, ServeCreateUser, ServeDeleteUser, ServeReset
<1>s. ASSUME NEW state \in CallState, NEW list \in UserList, UserServed(s, state, list)
      PROVE  /\ userCalls' \in [Slot -> UserCall]
             /\ \A r \in Slot : r # s => userCalls'[r] = userCalls[r]
             /\ \A r \in Slot : /\ userCalls'[r].kind = userCalls[r].kind
                                /\ userCalls'[r].name = userCalls[r].name
                                /\ userCalls'[r].id = userCalls[r].id
             /\ userCalls'[s].state = state /\ userCalls'[s].list = list
  BY <1>t, <1>s DEF UserServed, UserCall
<1>1. CASE ServeUsers(s)
  <2>1. PICK state \in CallState, list \in UserList :
            /\ UserServed(s, state, list)
            /\ \/ state = "ok" /\ list = userTable /\ prompt' = prompt
               \/ prompt' = FALSE
    BY <1>1, <1>t DEF ServeUsers, CallState
  <2>2. userCalls[s].kind = "list" /\ UNCHANGED <<userTable, userSerial>>
    BY <1>1 DEF ServeUsers, UserSent
  <2>3. /\ userCalls' \in [Slot -> UserCall]
        /\ \A r \in Slot : r # s => userCalls'[r] = userCalls[r]
        /\ \A r \in Slot : /\ userCalls'[r].kind = userCalls[r].kind
                           /\ userCalls'[r].name = userCalls[r].name
                           /\ userCalls'[r].id = userCalls[r].id
        /\ userCalls'[s].state = state /\ userCalls'[s].list = list
    BY <1>s, <2>1
  <2>4. ASSUME prompt'
        PROVE  PromptOK'
    <3>1. PromptOK /\ state = "ok" /\ list = userTable
      BY <2>1, <2>4 DEF UsersInv
    <3>2. UserOut("save") = {}
      BY <2>2, <3>1 DEF PromptOK, SaveSound, UserOut
    <3>3. UserOut("save")' = {}
      BY <2>3, <3>2 DEF UserOut
    <3>4. usersTab.current = userTable[Me]
      BY <3>1, <3>2 DEF PromptOK
    <3>5. \A r \in UserOut("list")' : ListSound(r)'
      BY <1>u, <2>3, <3>1, <3>4 DEF PromptOK, ListSound, UserOut
    <3>6. \A r \in UserOut("delete")' : userCalls'[r].id # Me
      BY <2>3, <3>1 DEF PromptOK, UserOut
    <3>7. OwnNameShown' <=> OwnNameShown
      BY <1>u DEF OwnNameShown, RowsShown
    <3> QED
      BY <1>u, <2>2, <3>1, <3>3, <3>4, <3>5, <3>6, <3>7 DEF PromptOK
  <2> QED
    BY <1>t, <1>u, <2>1, <2>2, <2>3, <2>4, UsersInvParts
<1>2. ASSUME NEW state \in {"ok", "error"}, UserServed(s, state, NoUsers),
             userCalls[s].kind \in {"create", "delete", "reset"}, prompt' = prompt,
             userTable' \in UserList, userTable'[Me] = userTable[Me],
             userSerial' \in User, userSerial <= userSerial'
      PROVE  UsersInv'
  <2>1. state \in CallState
    BY DEF CallState
  <2>2. /\ userCalls' \in [Slot -> UserCall]
        /\ \A r \in Slot : r # s => userCalls'[r] = userCalls[r]
        /\ \A r \in Slot : /\ userCalls'[r].kind = userCalls[r].kind
                           /\ userCalls'[r].name = userCalls[r].name
                           /\ userCalls'[r].id = userCalls[r].id
    BY <1>s, <1>t, <1>2, <2>1
  <2>3. ASSUME prompt'
        PROVE  PromptOK'
    <3>1. PromptOK
      BY <1>2, <2>3 DEF UsersInv
    <3>2. \A r \in Slot : r # s => SameUserCall(r)
      BY <2>2 DEF SameUserCall
    <3>3. UserOut("save")' = UserOut("save") /\ UserOut("list")' = UserOut("list")
      BY <2>2 DEF UserOut
    <3>4. \A r \in UserOut("save") : SaveSound(r)'
      BY <1>2, <1>u, <3>1, <3>2, <3>3 DEF PromptOK, SaveSound, SameUserCall, UserOut
    <3>5. \A r \in UserOut("list") : ListSound(r)'
      BY <1>2, <1>u, <3>1, <3>2 DEF PromptOK, ListSound, SameUserCall, UserOut
    <3>6. \A r \in UserOut("delete")' : userCalls'[r].id # Me
      BY <2>2, <3>1 DEF PromptOK, UserOut
    <3>7. OwnNameShown' <=> OwnNameShown
      BY <1>u DEF OwnNameShown, RowsShown
    <3> QED
      BY <1>2, <1>u, <3>1, <3>3, <3>4, <3>5, <3>6, <3>7 DEF PromptOK
  <2> QED
    BY <1>t, <1>u, <1>2, <2>2, <2>3, UsersInvParts
<1>3. CASE ServeCreateUser(s)
  <2>1. PICK done \in BOOLEAN, state \in {"ok", "error"} :
            /\ done => userSerial < MaxUsers
            /\ userSerial' = IF done THEN userSerial + 1 ELSE userSerial
            /\ userTable' = IF done THEN [userTable EXCEPT ![userSerial'] = userCalls[s].name]
                            ELSE userTable
            /\ UserServed(s, state, NoUsers)
    BY <1>3 DEF ServeCreateUser
  <2>2. userCalls[s].kind = "create" /\ prompt' = prompt
    BY <1>3 DEF ServeCreateUser, UserSent
  <2>3. userSerial' \in User /\ userSerial <= userSerial'
    BY <1>t, <2>1, UsersAssumption DEF User
  <2>4. done => userSerial' # Me
    BY <1>t, <2>1, UsersAssumption DEF UsersInv, NamesOK, User
  <2>5. userTable' \in UserList /\ userTable'[Me] = userTable[Me]
    BY <1>t, <2>1, <2>3, <2>4 DEF UserList, UserCall
  <2> QED
    BY <1>2, <2>1, <2>2, <2>3, <2>5
<1>4. CASE ServeDeleteUser(s)
  <2>1. PICK done \in BOOLEAN, state \in {"ok", "error"} :
            /\ done => userCalls[s].id # Me
            /\ userTable' = IF done THEN [userTable EXCEPT ![userCalls[s].id] = NoUser]
                            ELSE userTable
            /\ UserServed(s, state, NoUsers)
    BY <1>4 DEF ServeDeleteUser
  <2>2. userCalls[s].kind = "delete" /\ prompt' = prompt /\ userSerial' = userSerial
    BY <1>4 DEF ServeDeleteUser, UserSent
  <2>3. userTable' \in UserList /\ userTable'[Me] = userTable[Me]
    BY <1>t, <2>1 DEF UserList
  <2> QED
    BY <1>t, <1>2, <2>1, <2>2, <2>3
<1>5. CASE ServeReset(s)
  BY <1>t, <1>2, <1>5 DEF ServeReset, UserSent
<1> QED
  BY <1>1, <1>3, <1>4, <1>5

\* The server renames the user: the answer alone makes up for the name that
\* the page still holds.
LEMMA ProfileServed ==
    ASSUME UsersInv, NEW s \in Slot, ServeProfile(s)
    PROVE  UsersInv'
<1>t. /\ UsersTypeOK
      /\ userTable \in UserList /\ userTable[Me] # NoUser
      /\ userSerial \in User /\ userSerial <= userSerial
      /\ usersTab \in UsersState /\ userCalls \in [Slot -> UserCall]
      /\ userActs \in 0 .. MaxUserActs /\ prompt \in BOOLEAN
      /\ \A r \in Slot : userCalls[r].kind = "save" => userCalls[r].name \in UserName
      /\ userCalls[s] \in UserCall /\ NoUsers \in UserList /\ Me \in User
  BY UsersInvFacts, UserStartValues
<1>1. PICK done \in BOOLEAN, state \in {"ok", "error"} :
          /\ state = "ok" => done
          /\ userTable' = IF done THEN [userTable EXCEPT ![Me] = userCalls[s].name]
                          ELSE userTable
          /\ prompt' = (prompt /\ (done => state = "ok"))
          /\ UserServed(s, state, NoUsers)
  BY DEF ServeProfile
<1>2. /\ userCalls[s].kind = "save" /\ userCalls[s].state = "sent"
      /\ UNCHANGED <<userSerial, usersTab, userActs>>
  BY DEF ServeProfile, UserSent
<1>3. userCalls[s].name \in UserName
  BY <1>t, <1>2
<1>4. /\ userTable' \in UserList
      /\ userTable'[Me] = IF done THEN userCalls[s].name ELSE userTable[Me]
  BY <1>t, <1>1, <1>3 DEF UserList
<1>5. userTable'[Me] # NoUser
  BY <1>t, <1>3, <1>4, UsersAssumption
<1>6. state \in CallState
  BY DEF CallState
<1>7. /\ userCalls' \in [Slot -> UserCall]
      /\ \A r \in Slot : r # s => userCalls'[r] = userCalls[r]
      /\ \A r \in Slot : /\ userCalls'[r].kind = userCalls[r].kind
                         /\ userCalls'[r].name = userCalls[r].name
                         /\ userCalls'[r].id = userCalls[r].id
      /\ userCalls'[s].state = state
  BY <1>t, <1>1, <1>6 DEF UserServed, UserCall
<1>8. ASSUME prompt'
      PROVE  PromptOK'
  <2>1. PromptOK /\ (done <=> state = "ok")
    BY <1>1, <1>8 DEF UsersInv
  <2>2. /\ UserOut("save")' = UserOut("save") /\ UserOut("list")' = UserOut("list")
        /\ UserOut("delete")' = UserOut("delete") /\ s \in UserOut("save")
    BY <1>2, <1>7 DEF UserOut
  <2>3. SaveSound(s) /\ UserOut("list") = {} /\ \A r \in UserOut("save") : r = s
    BY <2>1, <2>2 DEF PromptOK, SaveSound
  <2>4. SaveSound(s)'
    BY <1>2, <1>4, <1>7, <2>1, <2>2, <2>3 DEF SaveSound
  <2>5. usersTab'.tab # "users"
    BY <1>2, <2>3 DEF SaveSound
  <2>6. /\ \A r, q \in UserOut("save")' : r = q
        /\ \A r \in UserOut("save")' : SaveSound(r)'
    BY <2>2, <2>3, <2>4
  <2>7. \A r \in UserOut("delete")' : userCalls'[r].id # Me
    BY <1>7, <2>1 DEF PromptOK, UserOut
  <2> QED
    BY <2>2, <2>3, <2>5, <2>6, <2>7 DEF PromptOK
<1>9. prompt' \in BOOLEAN
  BY <1>t, <1>1
<1> QED
  BY <1>t, <1>2, <1>4, <1>5, <1>7, <1>8, <1>9, UsersInvParts

\* A handler of these tabs ends, or asks for the list.
LEMMA UserEnding ==
    ASSUME UsersTypeOK, NEW s \in Slot, NEW p \in UsersState, EndUserCall(s, p)
    PROVE  /\ userCalls' \in [Slot -> UserCall] /\ userCalls'[s].kind = "idle"
           /\ \A r \in Slot : r # s => userCalls'[r] = userCalls[r]
           /\ usersTab' = IF userCalls[s].mine THEN p ELSE usersTab
           /\ usersTab' \in UsersState
           /\ UNCHANGED <<userTable, userSerial, prompt, userActs>>
  BY UserStartValues DEF EndUserCall, UsersTypeOK

\* A handler ends by asking for the list.
LEMMA UserReloading ==
    ASSUME UsersInv, NEW s \in Slot, NEW p \in UsersState, ReloadUsers(s, p),
           p.current = usersTab.current, userCalls[s].kind # "save"
    PROVE  UsersInv'
<1> DEFINE asked == [UserAsk("list", 0, NoUser) EXCEPT !.mine = userCalls[s].mine]
           shown == [p EXCEPT !.loading = TRUE]
<1>t. /\ UsersTypeOK
      /\ userTable \in UserList /\ userTable[Me] # NoUser
      /\ userSerial \in User /\ userSerial <= userSerial
      /\ usersTab \in UsersState /\ userCalls \in [Slot -> UserCall]
      /\ userActs \in 0 .. MaxUserActs /\ prompt \in BOOLEAN
      /\ \A r \in Slot : userCalls[r].kind = "save" => userCalls[r].name \in UserName
      /\ userCalls[s].mine \in BOOLEAN /\ 0 \in 0 .. MaxUsers /\ NoUsers[Me] = NoUser
  BY UsersInvFacts, UserStartValues DEF UserCall
<1>1. /\ userCalls' = [userCalls EXCEPT ![s] = asked]
      /\ usersTab' = IF userCalls[s].mine THEN shown ELSE usersTab
      /\ prompt' = (prompt /\ UserOut("save") = {})
      /\ UNCHANGED <<userTable, userSerial, userActs>>
  BY DEF ReloadUsers
<1>2. asked \in UserCall /\ asked.kind = "list" /\ asked.state = "sent"
  BY <1>t, UserAsked DEF UserKinds, UserCall
<1>3. shown \in UsersState /\ shown.current = usersTab.current /\ shown.loading
  BY DEF UsersState
<1> HIDE DEF asked, shown
<1>4. /\ userCalls' \in [Slot -> UserCall] /\ userCalls'[s] = asked
      /\ \A r \in Slot : r # s => userCalls'[r] = userCalls[r]
  BY <1>t, <1>1, <1>2
<1>5. usersTab' \in UsersState /\ usersTab'.current = usersTab.current
  BY <1>t, <1>1, <1>3
<1>6. ASSUME prompt'
      PROVE  PromptOK'
  <2>1. PromptOK /\ UserOut("save") = {}
    BY <1>1, <1>6 DEF UsersInv
  <2>2. usersTab'.tab = "users" => OwnNameShown'
    BY <1>t, <1>1, <1>3, <2>1 DEF PromptOK, OwnNameShown, RowsShown
  <2> QED
    BY <1>1, <1>2, <1>4, <1>5, <2>1, <2>2, PromptAsks DEF SameUserCall
<1>7. prompt' \in BOOLEAN
  BY <1>t, <1>1
<1> QED
  BY <1>t, <1>1, <1>2, <1>4, <1>5, <1>6, <1>7, UsersInvParts

\* A handler whose call does not bear on the own row ends, and shows the
\* same rows.
LEMMA UserEnds ==
    ASSUME UsersInv, NEW s \in Slot, NEW p \in UsersState, EndUserCall(s, p),
           userCalls[s].kind \in {"create", "delete", "reset"},
           p.current = usersTab.current, p.tab = usersTab.tab,
           p.list = usersTab.list, p.loading = usersTab.loading
    PROVE  UsersInv'
<1>t. /\ UsersTypeOK
      /\ userTable \in UserList /\ userTable[Me] # NoUser
      /\ userSerial \in User /\ userSerial <= userSerial
      /\ userActs \in 0 .. MaxUserActs /\ prompt \in BOOLEAN
      /\ \A r \in Slot : userCalls[r].kind = "save" => userCalls[r].name \in UserName
  BY UsersInvFacts
<1>1. /\ userCalls' \in [Slot -> UserCall] /\ userCalls'[s].kind = "idle"
      /\ \A r \in Slot : r # s => userCalls'[r] = userCalls[r]
      /\ usersTab' = IF userCalls[s].mine THEN p ELSE usersTab
      /\ usersTab' \in UsersState
      /\ UNCHANGED <<userTable, userSerial, prompt, userActs>>
  BY <1>t, UserEnding
<1>2. /\ usersTab'.current = usersTab.current /\ usersTab'.tab = usersTab.tab
      /\ RowsShown' = RowsShown
  BY <1>1 DEF RowsShown
<1>3. ASSUME prompt'
      PROVE  PromptOK'
  <2>1. PromptOK
    BY <1>1, <1>3 DEF UsersInv
  <2>2. \A r \in Slot : r # s => SameUserCall(r)
    BY <1>1 DEF SameUserCall
  <2>3. UserOut("save")' = UserOut("save") /\ UserOut("list")' = UserOut("list")
    BY <1>1 DEF UserOut
  <2>4. \A r \in UserOut("save") : SaveSound(r)'
    BY <1>1, <1>2, <2>1, <2>2, <2>3 DEF PromptOK, SaveSound, SameUserCall, UserOut
  <2>5. \A r \in UserOut("list") : ListSound(r)'
    BY <1>2, <2>1, <2>2 DEF PromptOK, ListSound, SameUserCall, UserOut
  <2>6. \A r \in UserOut("delete")' : userCalls'[r].id # Me
    BY <1>1, <2>1 DEF PromptOK, UserOut
  <2> QED
    BY <1>1, <1>2, <2>1, <2>3, <2>4, <2>5, <2>6 DEF PromptOK, OwnNameShown
<1> QED
  BY <1>t, <1>1, <1>3, UsersInvParts

\* The answers to the administrator's acts.
LEMMA UserHandlers ==
    ASSUME UsersInv, NEW s \in Slot, UserCreated(s) \/ UserDeleted(s) \/ PasswordReset(s)
    PROVE  UsersInv'
<1>t. usersTab \in UsersState /\ 0 \in 0 .. MaxUsers
  BY UsersInvFacts, UserStartValues
<1>1. CASE UserCreated(s)
  <2>1. [usersTab EXCEPT !.adder = FALSE, !.adding = FALSE] \in UsersState
    BY <1>t DEF UsersState
  <2>2. [usersTab EXCEPT !.adding = FALSE] \in UsersState
    BY <1>t DEF UsersState
  <2>3. [usersTab EXCEPT !.adder = FALSE, !.adding = FALSE].current = usersTab.current
    BY <1>t DEF UsersState
  <2>4. userCalls[s].kind = "create"
    BY <1>1 DEF UserCreated, Back
  <2>5. CASE Succeeded(userCalls, s)
    BY <1>1, <2>1, <2>3, <2>4, <2>5, UserReloading DEF UserCreated
  <2>6. CASE ~Succeeded(userCalls, s)
    <3> DEFINE p == [usersTab EXCEPT !.adding = FALSE]
    <3>1. /\ p \in UsersState /\ p.current = usersTab.current /\ p.tab = usersTab.tab
          /\ p.list = usersTab.list /\ p.loading = usersTab.loading
      BY <1>t DEF UsersState
    <3>2. EndUserCall(s, p)
      BY <1>1, <2>6 DEF UserCreated
    <3> HIDE DEF p
    <3> QED
      BY <2>4, <3>1, <3>2, UserEnds
  <2> QED
    BY <2>5, <2>6
<1>2. CASE UserDeleted(s)
  <2>1. userCalls[s].kind = "delete" /\ (ReloadUsers(s, usersTab) \/ EndUserCall(s, usersTab))
    BY <1>2 DEF UserDeleted, Back
  <2> QED
    BY <1>t, <2>1, UserReloading, UserEnds
<1>3. CASE PasswordReset(s)
  <2> DEFINE p == [usersTab EXCEPT !.resetting = FALSE,
                       !.reset = IF Succeeded(userCalls, s) THEN 0 ELSE usersTab.reset]
  <2>1. userCalls[s].kind = "reset" /\ EndUserCall(s, p)
    BY <1>3 DEF PasswordReset, Back
  <2>2. /\ p \in UsersState /\ p.current = usersTab.current /\ p.tab = usersTab.tab
        /\ p.list = usersTab.list /\ p.loading = usersTab.loading
    BY <1>t DEF UsersState
  <2> HIDE DEF p
  <2> QED
    BY <2>1, <2>2, UserEnds
<1> QED
  BY <1>1, <1>2, <1>3

\* The rows come back.
LEMMA UserRowsListed ==
    ASSUME UsersInv, NEW s \in Slot, UsersListed(s)
    PROVE  UsersInv'
<1> DEFINE p == [usersTab EXCEPT
                     !.loading = FALSE,
                     !.list = IF Succeeded(userCalls, s) THEN userCalls[s].list ELSE @]
<1>t. /\ UsersTypeOK
      /\ userTable \in UserList /\ userTable[Me] # NoUser
      /\ userSerial \in User /\ userSerial <= userSerial
      /\ usersTab \in UsersState /\ userCalls[s] \in UserCall
      /\ userActs \in 0 .. MaxUserActs /\ prompt \in BOOLEAN
      /\ \A r \in Slot : userCalls[r].kind = "save" => userCalls[r].name \in UserName
  BY UsersInvFacts
<1>1. userCalls[s].kind = "list" /\ userCalls[s].state # "sent" /\ EndUserCall(s, p)
  BY DEF UsersListed, Back
<1>2. /\ p \in UsersState /\ p.current = usersTab.current /\ p.tab = usersTab.tab
      /\ ~p.loading
      /\ Succeeded(userCalls, s) => p.list = userCalls[s].list
  BY <1>t DEF UsersState, UserCall
<1> HIDE DEF p
<1>3. /\ userCalls' \in [Slot -> UserCall] /\ userCalls'[s].kind = "idle"
      /\ \A r \in Slot : r # s => userCalls'[r] = userCalls[r]
      /\ usersTab' = IF userCalls[s].mine THEN p ELSE usersTab
      /\ usersTab' \in UsersState
      /\ UNCHANGED <<userTable, userSerial, prompt, userActs>>
  BY <1>t, <1>1, <1>2, UserEnding
<1>4. ASSUME prompt'
      PROVE  PromptOK'
  <2>1. PromptOK
    BY <1>3, <1>4 DEF UsersInv
  <2>2. s \in UserOut("list") /\ ListSound(s)
    BY <1>1, <2>1 DEF PromptOK, UserOut
  <2>3. userCalls[s].state = "ok" /\ userCalls[s].list[Me] = usersTab.current
    BY <1>t, <1>1, <2>2 DEF ListSound, UserCall, CallState
  <2>4. UserOut("save") = {} /\ UserOut("save")' = {}
    BY <1>1, <1>3, <2>1, <2>2 DEF PromptOK, SaveSound, UserOut
  <2>5. usersTab'.current = usersTab.current /\ usersTab'.tab = usersTab.tab
    BY <1>2, <1>3
  <2>6. usersTab'.tab = "users" => OwnNameShown'
    <3>1. CASE userCalls[s].mine
      BY <1>2, <1>3, <2>3, <2>5, <3>1 DEF OwnNameShown, RowsShown, Succeeded
    <3>2. CASE ~userCalls[s].mine
      BY <1>3, <2>1, <3>2 DEF PromptOK, OwnNameShown, RowsShown
    <3> QED
      BY <3>1, <3>2
  <2>7. \A r \in UserOut("list")' : ListSound(r)'
    BY <1>3, <2>1, <2>5 DEF PromptOK, ListSound, UserOut
  <2>8. \A r \in UserOut("delete")' : userCalls'[r].id # Me
    BY <1>3, <2>1 DEF PromptOK, UserOut
  <2> QED
    BY <1>3, <2>1, <2>4, <2>5, <2>6, <2>7, <2>8 DEF PromptOK
<1> QED
  BY <1>t, <1>3, <1>4, UsersInvParts

\* The answer to a save of the profile: the page learns the name.
LEMMA ProfileComesBack ==
    ASSUME UsersInv, NEW s \in Slot, ProfileSaved(s)
    PROVE  UsersInv'
<1> DEFINE named == IF Succeeded(userCalls, s)
                    THEN [usersTab EXCEPT !.current = userCalls[s].name,
                              !.newName = IF userCalls[s].name # usersTab.current
                                          THEN userCalls[s].name ELSE @]
                    ELSE usersTab
           p == IF userCalls[s].mine THEN [named EXCEPT !.saving = FALSE] ELSE named
<1>t. /\ UsersTypeOK
      /\ userTable \in UserList /\ userTable[Me] # NoUser
      /\ userSerial \in User /\ userSerial <= userSerial
      /\ usersTab \in UsersState /\ userCalls \in [Slot -> UserCall]
      /\ userCalls[s] \in UserCall
      /\ userActs \in 0 .. MaxUserActs /\ prompt \in BOOLEAN
      /\ \A r \in Slot : userCalls[r].kind = "save" => userCalls[r].name \in UserName
      /\ NoUserCall \in UserCall /\ NoUserCall.kind = "idle"
  BY UsersInvFacts, UserStartValues
<1>1. /\ userCalls[s].kind = "save" /\ userCalls[s].state # "sent"
      /\ userCalls' = [userCalls EXCEPT ![s] = NoUserCall] /\ usersTab' = p
      /\ UNCHANGED <<userTable, userSerial, prompt, userActs>>
  BY DEF ProfileSaved, Back
<1>2. /\ named \in UsersState /\ named.tab = usersTab.tab
      /\ named.current = IF Succeeded(userCalls, s) THEN userCalls[s].name
                         ELSE usersTab.current
  <2>1. userCalls[s].name \in UserName
    BY <1>t, <1>1
  <2> QED
    BY <1>t, <2>1 DEF UsersState
<1> HIDE DEF named
<1>3. p \in UsersState /\ p.tab = named.tab /\ p.current = named.current
  BY <1>2 DEF UsersState
<1> HIDE DEF p
<1>4. /\ userCalls' \in [Slot -> UserCall] /\ userCalls'[s].kind = "idle"
      /\ \A r \in Slot : r # s => userCalls'[r] = userCalls[r]
  BY <1>t, <1>1
<1>5. ASSUME prompt'
      PROVE  PromptOK'
  <2>1. PromptOK
    BY <1>1, <1>5 DEF UsersInv
  <2>2. s \in UserOut("save") /\ SaveSound(s)
    BY <1>1, <2>1 DEF PromptOK, UserOut
  <2>3. UserOut("save")' = {}
    BY <1>1, <1>4, <2>1 DEF PromptOK, UserOut
  <2>4. UserOut("list")' = {} /\ usersTab'.tab # "users"
    BY <1>1, <1>2, <1>3, <1>4, <2>2 DEF SaveSound, UserOut
  <2>5. usersTab'.current = userTable'[Me]
    BY <1>1, <1>2, <1>3, <2>2 DEF SaveSound, Succeeded
  <2>6. \A r \in UserOut("delete")' : userCalls'[r].id # Me
    BY <1>4, <2>1 DEF PromptOK, UserOut
  <2> QED
    BY <2>3, <2>4, <2>5, <2>6 DEF PromptOK
<1> QED
  BY <1>t, <1>1, <1>3, <1>2, <1>4, <1>5, UsersInvParts

\* UsersInv holds at the start.
LEMMA UsersStart ==
    ASSUME UsersInit
    PROVE  UsersInv
<1>1. /\ userTable \in UserList /\ userTable[Me] # NoUser /\ userTable[Me] \in UserName
      /\ userSerial \in User /\ Me <= userSerial
  BY UsersAssumption DEF UsersInit, UserList, User
<1>2. /\ usersTab \in UsersState /\ usersTab.tab = "other"
      /\ usersTab.current = userTable[Me]
  BY <1>1, UserStartValues DEF UsersInit, FreshUsersTab
<1>3. userCalls \in [Slot -> UserCall] /\ \A s \in Slot : userCalls[s].kind = "idle"
  BY UserStartValues DEF UsersInit
<1>4. UsersTypeOK
  BY <1>1, <1>2, <1>3, UsersAssumption DEF UsersInit, UsersTypeOK
<1> QED
  BY <1>1, <1>2, <1>3, <1>4 DEF UsersInv, NamesOK, PromptOK, UserOut

\* UsersInv is inductive.
LEMMA UsersStep ==
    ASSUME UsersInv, [UsersNext]_usersVars
    PROVE  UsersInv'
<1>1. CASE UsersNext
  <2>1. CASE \E tab \in {"users", "profile", "other"} : ChooseTab(tab)
    BY <2>1, UserQuietActs, UserTabChosen
  <2>2. CASE \E s \in Slot : UserCallStep(s)
    BY <2>2, UserServer, ProfileServed, UserRowsListed, UserHandlers, ProfileComesBack
       DEF UserCallStep
  <2>3. CASE \/ ReopenUsers \/ OpenAdder \/ ResetPassword \/ CloseDialog \/ SaveProfile
             \/ \E u \in User : DeleteUser(u) \/ OpenReset(u)
             \/ \E name \in UserName : CreateUser(name) \/ TypeName(name)
    BY <2>3, UserQuietActs, UserRowActs, ProfileSubmitted
  <2> QED
    BY <1>1, <2>1, <2>2, <2>3 DEF UsersNext
<1>2. CASE UNCHANGED usersVars
  BY <1>2 DEF usersVars, UsersInv, UsersTypeOK, NamesOK, PromptOK, SaveSound, ListSound,
              OwnNameShown, RowsShown, UserOut
<1> QED
  BY <1>1, <1>2

\* Every variable of the users' tabs stays in its domain; the administrator
\* who looks is never deleted.
THEOREM UsersTypeCorrect == UsersSpec => []UsersTypeOK
<1>1. UsersInit => UsersInv
  BY UsersStart
<1>2. UsersInv /\ [UsersNext]_usersVars => UsersInv'
  BY UsersStep
<1>3. UsersInv => UsersTypeOK
  BY DEF UsersInv
<1> QED
  BY <1>1, <1>2, <1>3, PTL DEF UsersSpec

\* The own row is told from the others by its name, and always rightly, for
\* any users, names and number of calls.
THEOREM OwnRowIsKept == UsersSpec => []OwnRowKept
<1>1. UsersInit => UsersInv
  BY UsersStart
<1>2. UsersInv /\ [UsersNext]_usersVars => UsersInv'
  BY UsersStep
<1>3. UsersInv => OwnRowKept
  BY DEF UsersInv, PromptOK, OwnRowKept
<1> QED
  BY <1>1, <1>2, <1>3, PTL DEF UsersSpec

-----------------------------------------------------------------------------
(***************************************************************************)
(* The session.  The cookie changes when an answer arrives, the page when  *)
(* the handler goes on.  The invariant says, of each call that is between  *)
(* the two, what the cookie and the page hold meanwhile.                   *)
(***************************************************************************)
\* Behind the loading screen there is the one getMe of the page, and nobody.
Checking ==
    IF app.checking
    THEN /\ app.user = Nobody
         /\ \A s \in Slot : sessionCalls[s].kind \in {"me", "idle"}
         /\ \A s \in SessionOut({"me"}) : sessionCalls[s].who = cookie
         /\ \A r, s \in SessionOut({"me"}) : r = s
         /\ SessionOut({"me"}) # {}
    ELSE SessionOut({"me"}) = {}

LoginSound(s) ==
    /\ app.user = Nobody /\ app.signing
    /\ cookie = IF sessionCalls[s].state = "ok" THEN sessionCalls[s].who ELSE Nobody

NameSound(s) ==
    app.user # Nobody /\ app.user = cookie /\ sessionCalls[s].who = cookie

LogoutSound(s) ==
    /\ sessionCalls[s].state # "error"
    /\ sessionCalls[s].state = "ok" => cookie = Nobody

TurnOK ==
    /\ app.user # Nobody => app.role = RoleOf(app.user)
    /\ \A s \in SessionOut({"me"}) : sessionCalls[s].state = "error" => cookie = Nobody
    /\ SessionOut({"logout"}) # {} => SessionOut({"login", "save"}) = {}
    /\ \A r, s \in SessionOut({"login"}) : r = s
    /\ \A s \in SessionOut({"login"}) : LoginSound(s)
    /\ \A s \in SessionOut({"save"}) : NameSound(s)
    /\ \A s \in SessionOut({"logout"}) : LogoutSound(s)
    /\ /\ ~app.checking /\ SessionOut({"login"}) = {}
       /\ \A s \in SessionOut({"logout"}) : sessionCalls[s].state = "sent"
       => app.user = cookie

SessionInv == SessionTypeOK /\ Checking /\ (inTurn => TurnOK)

\* What SessionInv says of types.
LEMMA SessionInvFacts ==
    ASSUME SessionInv
    PROVE  /\ SessionTypeOK /\ cookie \in Login \union {Nobody}
           /\ app \in AppState /\ sessionCalls \in [Slot -> SessionCall]
           /\ sessionActs \in 0 .. MaxSessionActs /\ succeeded \in Nat
           /\ inTurn \in BOOLEAN
  BY DEF SessionInv, SessionTypeOK

\* The application as it is first loaded, and the slot that is free.
LEMMA SessionStartValues ==
    /\ FreshApp \in AppState /\ NoSessionCall \in SessionCall
    /\ NoSessionCall.kind = "idle"
    /\ \A who \in Login \union {Nobody} : RoleOf(who) \in {"user", "admin"}
  BY DEF FreshApp, AppState, NoSessionCall, SessionCall, CallState, RoleOf

\* What a call says when it is sent.
LEMMA SessionAsked ==
    ASSUME NEW kind \in {"me", "login", "logout", "save", "submit"},
           NEW who \in Login \union {Nobody}
    PROVE  /\ SessionAsk(kind, who) \in SessionCall
           /\ SessionAsk(kind, who).kind = kind /\ SessionAsk(kind, who).who = who
           /\ SessionAsk(kind, who).state = "sent"
  BY DEF SessionAsk, SessionCall, CallState

\* A call is sent from a slot that was free.
LEMMA SessionSending ==
    ASSUME SessionTypeOK, NEW call \in SessionCall, SendSessionCall(call)
    PROVE  \E s \in Slot :
               /\ sessionCalls[s].kind = "idle" /\ sessionCalls'[s] = call
               /\ \A r \in Slot : r # s => sessionCalls'[r] = sessionCalls[r]
               /\ sessionCalls' \in [Slot -> SessionCall]
<1>1. PICK s \in Free(sessionCalls) : sessionCalls' = [sessionCalls EXCEPT ![s] = call]
  BY DEF SendSessionCall
<1>2. s \in Slot /\ sessionCalls[s].kind = "idle"
  BY <1>1 DEF Free
<1> QED
  BY <1>1, <1>2 DEF SessionTypeOK

\* Acts are counted up to their bound.
LEMMA SessionActCounts ==
    ASSUME SessionTypeOK, SessionAct
    PROVE  sessionActs' \in 0 .. MaxSessionActs
  BY SessionAssumption DEF SessionTypeOK, SessionAct

\* The call in slot s says what it said; whether its page is there does not
\* count.
SameSessionCall(s) ==
    /\ sessionCalls'[s].kind = sessionCalls[s].kind
    /\ sessionCalls'[s].state = sessionCalls[s].state
    /\ sessionCalls'[s].who = sessionCalls[s].who

\* The components that leave take no call's meaning with them.
LEMMA LeftCalls ==
    ASSUME SessionInv, NEW kinds
    PROVE  /\ Left(sessionCalls, kinds) \in [Slot -> SessionCall]
           /\ \A s \in Slot :
                  /\ Left(sessionCalls, kinds)[s].kind = sessionCalls[s].kind
                  /\ Left(sessionCalls, kinds)[s].state = sessionCalls[s].state
                  /\ Left(sessionCalls, kinds)[s].who = sessionCalls[s].who
<1>1. sessionCalls \in [Slot -> SessionCall]
  BY SessionInvFacts
<1>2. ASSUME NEW s \in Slot
      PROVE  /\ Left(sessionCalls, kinds)[s] \in SessionCall
             /\ Left(sessionCalls, kinds)[s].kind = sessionCalls[s].kind
             /\ Left(sessionCalls, kinds)[s].state = sessionCalls[s].state
             /\ Left(sessionCalls, kinds)[s].who = sessionCalls[s].who
  BY <1>1 DEF Left, SessionCall
<1>3. Left(sessionCalls, kinds) = [s \in Slot |-> Left(sessionCalls, kinds)[s]]
  BY DEF Left
<1> QED
  BY <1>2, <1>3

\* The calls that change the session, and what it holds, are as they were.
Unconcerned(kind) == kind \in {"idle", "submit"}

\* No call that bears on the session, and nothing of it, has changed.
LEMMA SessionKept ==
    ASSUME SessionInv, SessionTypeOK',
           \A s \in Slot : \/ SameSessionCall(s)
                           \/ /\ ~app.checking /\ Unconcerned(sessionCalls[s].kind)
                              /\ Unconcerned(sessionCalls'[s].kind),
           cookie' = cookie, inTurn' = inTurn,
           app'.user = app.user, app'.role = app.role, app'.checking = app.checking,
           app'.signing = app.signing
    PROVE  SessionInv'
<1>1. \A kind \in {"me", "login", "logout", "save"} : \A s \in Slot :
          /\ sessionCalls'[s].kind = kind <=> sessionCalls[s].kind = kind
          /\ sessionCalls[s].kind = kind => SameSessionCall(s)
  BY DEF SameSessionCall, Unconcerned
<1>2. /\ SessionOut({"me"})' = SessionOut({"me"})
      /\ SessionOut({"login"})' = SessionOut({"login"})
      /\ SessionOut({"logout"})' = SessionOut({"logout"})
      /\ SessionOut({"save"})' = SessionOut({"save"})
      /\ SessionOut({"login", "save"})' = SessionOut({"login", "save"})
  BY <1>1 DEF SessionOut
<1>3. /\ \A s \in SessionOut({"me"}) : SameSessionCall(s)
      /\ \A s \in SessionOut({"login"}) : SameSessionCall(s)
      /\ \A s \in SessionOut({"logout"}) : SameSessionCall(s)
      /\ \A s \in SessionOut({"save"}) : SameSessionCall(s)
  BY <1>1 DEF SessionOut
<1>4. Checking'
  BY <1>2, <1>3 DEF SessionInv, Checking, SameSessionCall
<1>5. ASSUME inTurn'
      PROVE  TurnOK'
  <2>1. TurnOK
    BY <1>5 DEF SessionInv
  <2>2. \A s \in SessionOut({"login"}) : LoginSound(s)'
    BY <1>3, <2>1 DEF TurnOK, LoginSound, SameSessionCall
  <2>3. \A s \in SessionOut({"save"}) : NameSound(s)'
    BY <1>3, <2>1 DEF TurnOK, NameSound, SameSessionCall
  <2>4. \A s \in SessionOut({"logout"}) : LogoutSound(s)'
    BY <1>3, <2>1 DEF TurnOK, LogoutSound, SameSessionCall
  <2>5. \A s \in SessionOut({"me"}) : sessionCalls'[s].state = "error" => cookie' = Nobody
    BY <1>3, <2>1 DEF TurnOK, SameSessionCall
  <2> QED
    BY <1>2, <1>3, <2>1, <2>2, <2>3, <2>4, <2>5 DEF TurnOK, SameSessionCall
<1> QED
  BY <1>4, <1>5 DEF SessionInv

\* The acts that do not concern the session.
LEMMA SessionQuietActs ==
    ASSUME SessionInv,
           \/ \E page \in {"files", "settings"} : Navigate(page)
           \/ OpenModal \/ CloseModal \/ SubmitLinks
    PROVE  SessionInv'
<1>t. /\ SessionTypeOK /\ cookie \in Login \union {Nobody}
      /\ app \in AppState /\ sessionCalls \in [Slot -> SessionCall]
      /\ succeeded \in Nat /\ inTurn \in BOOLEAN
  BY SessionInvFacts
<1>1. SessionAct /\ UNCHANGED <<cookie, succeeded, inTurn>>
  BY DEF Navigate, OpenModal, CloseModal, SubmitLinks
<1>2. sessionActs' \in 0 .. MaxSessionActs
  BY <1>t, <1>1, SessionActCounts
<1> DEFINE Same == /\ app' \in AppState
                   /\ app'.user = app.user /\ app'.role = app.role
                   /\ app'.checking = app.checking /\ app'.signing = app.signing
<1>3. Same
  <2>1. ASSUME NEW page \in {"files", "settings"}, Navigate(page)
        PROVE  Same
    BY <1>t, <2>1 DEF Navigate, AppState
  <2>2. CASE OpenModal
    BY <1>t, <2>2 DEF OpenModal, AppState
  <2>3. CASE CloseModal
    BY <1>t, <2>3 DEF CloseModal, WithoutModal, AppState
  <2>4. CASE SubmitLinks
    BY <1>t, <2>4 DEF SubmitLinks, AppState
  <2> QED
    BY <2>1, <2>2, <2>3, <2>4
<1>4. /\ sessionCalls' \in [Slot -> SessionCall]
      /\ \A s \in Slot : \/ SameSessionCall(s)
                         \/ /\ ~app.checking /\ Unconcerned(sessionCalls[s].kind)
                            /\ Unconcerned(sessionCalls'[s].kind)
  <2>1. CASE (\E page \in {"files", "settings"} : Navigate(page)) \/ CloseModal
    <3>1. PICK kinds \in {{"save", "logout"}, {"submit"}} :
              sessionCalls' = Left(sessionCalls, kinds)
      BY <2>1 DEF Navigate, CloseModal
    <3> QED
      BY <3>1, LeftCalls DEF SameSessionCall
  <2>2. CASE OpenModal
    BY <1>t, <2>2 DEF OpenModal, SameSessionCall
  <2>3. CASE SubmitLinks
    <3> DEFINE call == SessionAsk("submit", cookie)
    <3>1. call \in SessionCall /\ call.kind = "submit"
      BY <1>t, SessionAsked
    <3>2. SendSessionCall(call) /\ ~app.checking
      BY <2>3 DEF SubmitLinks, SignedIn
    <3> HIDE DEF call
    <3>3. PICK s \in Slot :
              /\ sessionCalls[s].kind = "idle" /\ sessionCalls'[s] = call
              /\ \A r \in Slot : r # s => sessionCalls'[r] = sessionCalls[r]
              /\ sessionCalls' \in [Slot -> SessionCall]
      BY <1>t, <3>1, <3>2, SessionSending
    <3> QED
      BY <3>1, <3>2, <3>3 DEF SameSessionCall, Unconcerned
  <2> QED
    BY <2>1, <2>2, <2>3
<1>5. SessionTypeOK'
  BY <1>t, <1>1, <1>2, <1>3, <1>4 DEF SessionTypeOK
<1> QED
  BY <1>1, <1>3, <1>4, <1>5, SessionKept

\* The acts of the session: each finds the calls that its turn allows.
LEMMA SessionSends ==
    ASSUME SessionInv, (\E who \in Login : SignIn(who)) \/ SignOut \/ SaveName
    PROVE  SessionInv'
<1>t. /\ SessionTypeOK /\ cookie \in Login \union {Nobody}
      /\ app \in AppState /\ sessionCalls \in [Slot -> SessionCall]
      /\ succeeded \in Nat /\ inTurn \in BOOLEAN
  BY SessionInvFacts
<1>1. SessionAct /\ UNCHANGED <<cookie, succeeded>>
  BY DEF SignIn, SignOut, SaveName
<1>2. sessionActs' \in 0 .. MaxSessionActs
  BY <1>t, <1>1, SessionActCounts
<1>3. ASSUME NEW call \in SessionCall, SendSessionCall(call), ~app.checking,
             call.kind \in {"login", "save", "logout"}, call.state = "sent",
             app' \in AppState, app'.checking = app.checking,
             app'.user = app.user, app'.role = app.role, inTurn' \in BOOLEAN,
             NEW s \in Slot, sessionCalls[s].kind = "idle", sessionCalls'[s] = call,
             \A r \in Slot : r # s => sessionCalls'[r] = sessionCalls[r],
             sessionCalls' \in [Slot -> SessionCall],
             inTurn' => TurnOK'
      PROVE  SessionInv'
  <2>1. SessionOut({"me"})' = {}
    BY <1>3 DEF SessionInv, Checking, SessionOut
  <2>2. Checking'
    BY <1>3, <2>1 DEF Checking
  <2> QED
    BY <1>t, <1>1, <1>2, <1>3, <2>2 DEF SessionInv, SessionTypeOK
<1>4. ASSUME NEW who \in Login, SignIn(who)
      PROVE  SessionInv'
  <2> DEFINE call == SessionAsk("login", who)
  <2>1. /\ call \in SessionCall /\ call.kind = "login" /\ call.state = "sent"
        /\ SendSessionCall(call)
    BY <1>4, SessionAsked DEF SignIn
  <2> HIDE DEF call
  <2>2. PICK s \in Slot :
            /\ sessionCalls[s].kind = "idle" /\ sessionCalls'[s] = call
            /\ \A r \in Slot : r # s => sessionCalls'[r] = sessionCalls[r]
            /\ sessionCalls' \in [Slot -> SessionCall]
    BY <1>t, <2>1, SessionSending
  <2>3. /\ app' = [app EXCEPT !.signing = TRUE] /\ app.user = Nobody
        /\ ~app.checking /\ ~app.signing
        /\ inTurn' = (inTurn /\ SessionOut({"logout"}) = {})
    BY <1>4 DEF SignIn
  <2>4. /\ app' \in AppState /\ app'.checking = app.checking /\ app'.signing
        /\ app'.user = app.user /\ app'.role = app.role
    BY <1>t, <2>3 DEF AppState
  <2>5. ASSUME inTurn'
        PROVE  TurnOK'
    <3>1. TurnOK /\ SessionOut({"logout"}) = {}
      BY <2>3, <2>5 DEF SessionInv
    <3>2. SessionOut({"login"}) = {} /\ SessionOut({"save"}) = {} /\ SessionOut({"me"}) = {}
      BY <2>3, <3>1 DEF TurnOK, LoginSound, NameSound, SessionInv, Checking
    <3>3. cookie = Nobody
      BY <2>3, <3>1, <3>2 DEF TurnOK
    <3>4. /\ SessionOut({"login"})' = {s} /\ SessionOut({"save"})' = {}
          /\ SessionOut({"me"})' = {} /\ SessionOut({"logout"})' = {}
      BY <2>1, <2>2, <3>1, <3>2 DEF SessionOut
    <3>5. LoginSound(s)'
      BY <1>1, <2>1, <2>2, <2>3, <2>4, <3>3 DEF LoginSound
    <3> QED
      BY <2>3, <2>4, <3>4, <3>5 DEF TurnOK
  <2>6. inTurn' \in BOOLEAN
    BY <1>t, <2>3
  <2> QED
    BY <1>3, <2>1, <2>2, <2>3, <2>4, <2>5, <2>6
<1>5. CASE SignOut
  <2> DEFINE call == SessionAsk("logout", cookie)
  <2>1. /\ call \in SessionCall /\ call.kind = "logout" /\ call.state = "sent"
        /\ SendSessionCall(call)
    BY <1>5, <1>t, SessionAsked DEF SignOut
  <2> HIDE DEF call
  <2>2. PICK s \in Slot :
            /\ sessionCalls[s].kind = "idle" /\ sessionCalls'[s] = call
            /\ \A r \in Slot : r # s => sessionCalls'[r] = sessionCalls[r]
            /\ sessionCalls' \in [Slot -> SessionCall]
    BY <1>t, <2>1, SessionSending
  <2>3. /\ app' = app /\ ~app.checking
        /\ inTurn' = (inTurn /\ SessionOut({"login", "save"}) = {})
    BY <1>5 DEF SignOut, OnPage, SignedIn
  <2>4. ASSUME inTurn'
        PROVE  TurnOK'
    <3>1. TurnOK /\ SessionOut({"login"}) = {} /\ SessionOut({"save"}) = {}
      BY <2>3, <2>4 DEF SessionInv, SessionOut
    <3>2. SessionOut({"me"}) = {}
      BY <2>3 DEF SessionInv, Checking
    <3>3. /\ SessionOut({"login"})' = {} /\ SessionOut({"save"})' = {}
          /\ SessionOut({"me"})' = {} /\ SessionOut({"login", "save"})' = {}
          /\ SessionOut({"logout"})' = SessionOut({"logout"}) \union {s}
      BY <2>1, <2>2, <3>1, <3>2 DEF SessionOut
    <3>4. \A r \in SessionOut({"logout"})' : LogoutSound(r)'
      BY <1>1, <2>1, <2>2, <3>1 DEF TurnOK, LogoutSound, SessionOut
    <3>5. (\A r \in SessionOut({"logout"})' : sessionCalls'[r].state = "sent")
              => \A r \in SessionOut({"logout"}) : sessionCalls[r].state = "sent"
      BY <2>2 DEF SessionOut
    <3> QED
      BY <1>1, <2>3, <3>1, <3>3, <3>4, <3>5 DEF TurnOK
  <2>5. inTurn' \in BOOLEAN
    BY <1>t, <2>3
  <2> QED
    BY <1>3, <1>t, <2>1, <2>2, <2>3, <2>4, <2>5
<1>6. CASE SaveName
  <2> DEFINE call == SessionAsk("save", cookie)
  <2>1. /\ call \in SessionCall /\ call.kind = "save" /\ call.state = "sent"
        /\ call.who = cookie /\ SendSessionCall(call)
    BY <1>6, <1>t, SessionAsked DEF SaveName
  <2> HIDE DEF call
  <2>2. PICK s \in Slot :
            /\ sessionCalls[s].kind = "idle" /\ sessionCalls'[s] = call
            /\ \A r \in Slot : r # s => sessionCalls'[r] = sessionCalls[r]
            /\ sessionCalls' \in [Slot -> SessionCall]
    BY <1>t, <2>1, SessionSending
  <2>3. /\ app' = [app EXCEPT !.saving = TRUE] /\ ~app.checking /\ app.user # Nobody
        /\ inTurn' = (inTurn /\ SessionOut({"logout"}) = {})
    BY <1>6 DEF SaveName, OnPage, SignedIn
  <2>4. /\ app' \in AppState /\ app'.checking = app.checking
        /\ app'.user = app.user /\ app'.role = app.role
    BY <1>t, <2>3 DEF AppState
  <2>5. ASSUME inTurn'
        PROVE  TurnOK'
    <3>1. TurnOK /\ SessionOut({"logout"}) = {}
      BY <2>3, <2>5 DEF SessionInv
    <3>2. SessionOut({"login"}) = {} /\ SessionOut({"me"}) = {}
      BY <2>3, <3>1 DEF TurnOK, LoginSound, SessionInv, Checking
    <3>3. app.user = cookie
      BY <2>3, <3>1, <3>2 DEF TurnOK
    <3>4. /\ SessionOut({"login"})' = {} /\ SessionOut({"me"})' = {}
          /\ SessionOut({"logout"})' = {}
          /\ SessionOut({"save"})' = SessionOut({"save"}) \union {s}
      BY <2>1, <2>2, <3>1, <3>2 DEF SessionOut
    <3>5. \A r \in SessionOut({"save"})' : NameSound(r)'
      BY <1>1, <2>1, <2>2, <2>3, <2>4, <3>1, <3>3 DEF TurnOK, NameSound, SessionOut
    <3> QED
      BY <1>1, <2>3, <2>4, <3>1, <3>3, <3>4, <3>5 DEF TurnOK
  <2>6. inTurn' \in BOOLEAN
    BY <1>t, <2>3
  <2> QED
    BY <1>3, <2>1, <2>2, <2>3, <2>4, <2>5, <2>6
<1> QED
  BY <1>4, <1>5, <1>6

\* The page is loaded, or loaded again: what remains is getMe.
LEMMA OnlyGetMeOut ==
    ASSUME cookie' \in Login \union {Nobody}, app' = FreshApp,
           sessionCalls' = [s \in Slot |-> IF s = 1 THEN SessionAsk("me", cookie')
                                           ELSE NoSessionCall],
           sessionActs' \in 0 .. MaxSessionActs, succeeded' = 0, inTurn' \in BOOLEAN
    PROVE  SessionInv'
<1> DEFINE call == SessionAsk("me", cookie')
<1>1. /\ call \in SessionCall /\ call.kind = "me" /\ call.who = cookie'
      /\ call.state = "sent"
  BY SessionAsked
<1>2. sessionCalls' = [s \in Slot |-> IF s = 1 THEN call ELSE NoSessionCall]
  OBVIOUS
<1> HIDE DEF call
<1>3. 1 \in Slot
  BY CallsAssumption DEF Slot
<1>4. /\ sessionCalls' \in [Slot -> SessionCall] /\ sessionCalls'[1] = call
      /\ \A s \in Slot : s # 1 => sessionCalls'[s].kind = "idle"
  BY <1>1, <1>2, <1>3, SessionStartValues
<1>5. /\ SessionOut({"me"})' = {1} /\ SessionOut({"login"})' = {}
      /\ SessionOut({"logout"})' = {} /\ SessionOut({"save"})' = {}
  BY <1>1, <1>3, <1>4 DEF SessionOut
<1>6. app'.checking /\ app'.user = Nobody
  BY DEF FreshApp
<1>7. SessionTypeOK'
  BY <1>4, SessionStartValues DEF SessionTypeOK
<1>8. Checking'
  BY <1>1, <1>4, <1>5, <1>6 DEF Checking
<1>9. TurnOK'
  BY <1>1, <1>4, <1>5, <1>6 DEF TurnOK
<1> QED
  BY <1>7, <1>8, <1>9 DEF SessionInv

\* The application is loaded again.
LEMMA SessionReloads ==
    ASSUME SessionInv, ReloadApp
    PROVE  SessionInv'
<1>1. /\ SessionTypeOK /\ cookie \in Login \union {Nobody} /\ inTurn \in BOOLEAN
  BY SessionInvFacts
<1>2. sessionActs' \in 0 .. MaxSessionActs
  BY <1>1, SessionActCounts DEF ReloadApp
<1> QED
  BY <1>1, <1>2, OnlyGetMeOut DEF ReloadApp, OnlyGetMe

\* An answer reaches the browser: with it the cookie changes, or not.
LEMMA AnswerArrives ==
    ASSUME SessionInv, NEW s \in Slot, NEW state \in {"ok", "error"},
           sessionCalls[s].kind # "idle", sessionCalls[s].state = "sent",
           sessionCalls' = [sessionCalls EXCEPT ![s] = [@ EXCEPT !.state = state]],
           state = "ok" => sessionCalls[s].who # Nobody \/ sessionCalls[s].kind = "logout",
           cookie' = IF state = "ok" THEN CookieAfter(sessionCalls[s]) ELSE cookie,
           app' = app, sessionActs' = sessionActs, succeeded' \in Nat,
           inTurn' \in BOOLEAN,
           inTurn' => /\ inTurn
                      /\ state = "error" =>
                             /\ sessionCalls[s].kind # "logout"
                             /\ sessionCalls[s].kind = "me" => sessionCalls[s].who = Nobody
    PROVE  SessionInv'
<1>t. /\ SessionTypeOK /\ cookie \in Login \union {Nobody}
      /\ app \in AppState /\ sessionCalls \in [Slot -> SessionCall]
      /\ sessionActs \in 0 .. MaxSessionActs
      /\ sessionCalls[s] \in SessionCall /\ state \in CallState
  BY SessionInvFacts DEF CallState
<1>1. /\ sessionCalls' \in [Slot -> SessionCall] /\ sessionCalls'[s].state = state
      /\ \A r \in Slot : /\ sessionCalls'[r].kind = sessionCalls[r].kind
                         /\ sessionCalls'[r].who = sessionCalls[r].who
                         /\ r # s => sessionCalls'[r].state = sessionCalls[r].state
  BY <1>t DEF SessionCall
<1>2. /\ SessionOut({"me"})' = SessionOut({"me"})
      /\ SessionOut({"login"})' = SessionOut({"login"})
      /\ SessionOut({"logout"})' = SessionOut({"logout"})
      /\ SessionOut({"save"})' = SessionOut({"save"})
      /\ SessionOut({"login", "save"})' = SessionOut({"login", "save"})
  BY <1>1 DEF SessionOut
<1>3. cookie' \in Login \union {Nobody}
  BY <1>t DEF CookieAfter, SessionCall
<1>4. SessionTypeOK'
  BY <1>t, <1>1, <1>3 DEF SessionTypeOK
<1>5. Checking'
  <2>1. app.checking => cookie' = cookie
    <3>1. app.checking => sessionCalls[s].kind = "me"
      BY DEF SessionInv, Checking
    <3> QED
      BY <3>1 DEF CookieAfter
  <2> QED
    BY <1>1, <1>2, <2>1 DEF SessionInv, Checking
<1>6. ASSUME inTurn'
      PROVE  TurnOK'
  <2>1. TurnOK /\ Checking
    BY <1>6 DEF SessionInv
  <2>2. CASE sessionCalls[s].kind = "me"
    <3>1. s \in SessionOut({"me"}) /\ cookie' = cookie /\ sessionCalls[s].who = cookie
          /\ app.checking
      BY <2>1, <2>2 DEF Checking, SessionOut, CookieAfter
    <3>2. SessionOut({"login"}) = {} /\ SessionOut({"logout"}) = {} /\ SessionOut({"save"}) = {}
      BY <2>1, <3>1 DEF Checking, SessionOut
    <3>3. \A r \in SessionOut({"me"}) : sessionCalls'[r].state = "error" => cookie' = Nobody
      BY <1>1, <1>6, <2>1, <2>2, <3>1 DEF TurnOK, SessionOut
    <3> QED
      BY <1>2, <2>1, <3>1, <3>2, <3>3 DEF TurnOK
  <2>3. CASE sessionCalls[s].kind = "login"
    <3>1. s \in SessionOut({"login"}) /\ LoginSound(s) /\ \A r \in SessionOut({"login"}) : r = s
      BY <2>1, <2>3 DEF TurnOK, SessionOut
    <3>2. /\ SessionOut({"logout"}) = {} /\ SessionOut({"save"}) = {}
          /\ SessionOut({"me"}) = {}
      BY <2>1, <2>3, <3>1 DEF TurnOK, LoginSound, NameSound, Checking, SessionOut
    <3>3. LoginSound(s)'
      BY <1>1, <2>3, <3>1 DEF LoginSound, CookieAfter
    <3>4. app.user = Nobody
      BY <3>1 DEF LoginSound
    <3> QED
      BY <1>2, <2>1, <3>1, <3>2, <3>3, <3>4 DEF TurnOK
  <2>4. CASE sessionCalls[s].kind = "save"
    <3>1. s \in SessionOut({"save"}) /\ NameSound(s)
      BY <2>1, <2>4 DEF TurnOK, SessionOut
    <3>2. cookie' = cookie
      BY <2>4, <3>1 DEF NameSound, CookieAfter
    <3>3. /\ SessionOut({"logout"}) = {} /\ SessionOut({"login"}) = {}
          /\ SessionOut({"me"}) = {}
      BY <2>1, <2>4, <3>1 DEF TurnOK, LoginSound, NameSound, Checking, SessionOut
    <3>4. \A r \in SessionOut({"save"}) : NameSound(r)'
      BY <1>1, <2>1, <3>2 DEF TurnOK, NameSound, SessionOut
    <3> QED
      BY <1>2, <2>1, <3>2, <3>3, <3>4 DEF TurnOK
  <2>5. CASE sessionCalls[s].kind = "logout"
    <3>1. s \in SessionOut({"logout"}) /\ state = "ok" /\ cookie' = Nobody
      BY <1>6, <2>5 DEF SessionOut, CookieAfter
    <3>2. SessionOut({"login"}) = {} /\ SessionOut({"save"}) = {}
      BY <2>1, <3>1 DEF TurnOK, SessionOut
    <3>3. \A r \in SessionOut({"logout"}) : LogoutSound(r)'
      BY <1>1, <2>1, <3>1 DEF TurnOK, LogoutSound, SessionOut
    <3>4. ~(\A r \in SessionOut({"logout"}) : sessionCalls'[r].state = "sent")
      BY <1>1, <3>1
    <3> QED
      BY <1>2, <2>1, <3>1, <3>2, <3>3, <3>4 DEF TurnOK
  <2>6. CASE sessionCalls[s].kind = "submit"
    <3>1. cookie' = cookie
      BY <2>6 DEF CookieAfter
    <3>2. \A r \in Slot : sessionCalls[r].kind # "submit" => SameSessionCall(r)
      BY <1>1, <2>6 DEF SameSessionCall
    <3>3. \A r \in SessionOut({"login"}) : LoginSound(r)'
      BY <2>1, <3>1, <3>2 DEF TurnOK, LoginSound, SameSessionCall, SessionOut
    <3>4. \A r \in SessionOut({"save"}) : NameSound(r)'
      BY <2>1, <3>1, <3>2 DEF TurnOK, NameSound, SameSessionCall, SessionOut
    <3>5. \A r \in SessionOut({"logout"}) : LogoutSound(r)'
      BY <2>1, <3>1, <3>2 DEF TurnOK, LogoutSound, SameSessionCall, SessionOut
    <3>6. \A r \in SessionOut({"me"}) \union SessionOut({"logout"}) :
              sessionCalls'[r].state = sessionCalls[r].state
      BY <1>1, <2>6 DEF SessionOut
    <3> QED
      BY <1>2, <2>1, <3>1, <3>3, <3>4, <3>5, <3>6 DEF TurnOK
  <2> QED
    BY <1>t, <2>2, <2>3, <2>4, <2>5, <2>6 DEF SessionCall
<1> QED
  BY <1>4, <1>5, <1>6 DEF SessionInv

\* The server answers, or the call fails.
LEMMA SessionServer ==
    ASSUME SessionInv, NEW s \in Slot, Answer(s) \/ Refuse(s)
    PROVE  SessionInv'
<1>t. succeeded \in Nat /\ inTurn \in BOOLEAN
  BY SessionInvFacts
<1>1. CASE Answer(s)
  <2>1. /\ sessionCalls[s].kind # "idle" /\ sessionCalls[s].state = "sent"
        /\ sessionCalls[s].who # Nobody \/ sessionCalls[s].kind = "logout"
        /\ sessionCalls' = [sessionCalls EXCEPT ![s] = [@ EXCEPT !.state = "ok"]]
        /\ cookie' = CookieAfter(sessionCalls[s])
        /\ UNCHANGED <<app, sessionActs, inTurn>>
    BY <1>1 DEF Answer
  <2>2. succeeded' \in Nat
    BY <1>1, <1>t DEF Answer
  <2> QED
    BY <1>t, <2>1, <2>2, AnswerArrives
<1>2. CASE Refuse(s)
  <2>1. /\ sessionCalls[s].kind # "idle" /\ sessionCalls[s].state = "sent"
        /\ sessionCalls' = [sessionCalls EXCEPT ![s] = [@ EXCEPT !.state = "error"]]
        /\ inTurn' = (inTurn /\ sessionCalls[s].kind # "logout"
                        /\ (sessionCalls[s].kind = "me" => sessionCalls[s].who = Nobody))
        /\ UNCHANGED <<cookie, app, sessionActs, succeeded>>
    BY <1>2 DEF Refuse
  <2>2. inTurn' \in BOOLEAN
    BY <1>t, <2>1
  <2> QED
    BY <1>t, <2>1, <2>2, AnswerArrives
<1> QED
  BY <1>1, <1>2

\* A handler ends: its call is gone, and others may have lost their page.
LEMMA SessionEnding ==
    ASSUME SessionInv, NEW s \in Slot, NEW p \in AppState, NEW calls,
           calls = sessionCalls \/ \E kinds : calls = Left(sessionCalls, kinds),
           EndSessionCall(s, calls, p)
    PROVE  /\ SessionTypeOK' /\ app' = p /\ sessionCalls'[s].kind = "idle"
           /\ \A r \in Slot : r # s => SameSessionCall(r)
           /\ UNCHANGED <<cookie, inTurn>>
<1>1. /\ sessionCalls' = [calls EXCEPT ![s] = NoSessionCall] /\ app' = p
      /\ UNCHANGED <<cookie, sessionActs, succeeded, inTurn>>
  BY DEF EndSessionCall
<1>2. /\ calls \in [Slot -> SessionCall]
      /\ \A r \in Slot : /\ calls[r].kind = sessionCalls[r].kind
                         /\ calls[r].state = sessionCalls[r].state
                         /\ calls[r].who = sessionCalls[r].who
  BY SessionInvFacts, LeftCalls
<1>3. /\ sessionCalls' \in [Slot -> SessionCall] /\ sessionCalls'[s].kind = "idle"
      /\ \A r \in Slot : r # s => sessionCalls'[r] = calls[r]
  BY <1>1, <1>2, SessionStartValues
<1> QED
  BY <1>1, <1>2, <1>3, SessionInvFacts DEF SessionTypeOK, SameSessionCall

\* getMe's answer.
LEMMA MeComesBack ==
    ASSUME SessionInv, NEW s \in Slot, GotMe(s)
    PROVE  SessionInv'
<1> DEFINE p == IF Succeeded(sessionCalls, s)
                THEN [app EXCEPT !.checking = FALSE, !.user = sessionCalls[s].who,
                                 !.role = RoleOf(sessionCalls[s].who)]
                ELSE [app EXCEPT !.checking = FALSE]
<1>t. app \in AppState /\ sessionCalls[s] \in SessionCall
  BY SessionInvFacts
<1>1. /\ sessionCalls[s].kind = "me" /\ sessionCalls[s].state # "sent"
      /\ EndSessionCall(s, sessionCalls, p)
  BY DEF GotMe, Back
<1>2. /\ app.checking /\ app.user = Nobody /\ sessionCalls[s].who = cookie
      /\ \A r \in Slot : r # s => sessionCalls[r].kind = "idle"
  BY <1>1 DEF SessionInv, Checking, SessionOut
<1>3. /\ sessionCalls[s].who \in Login \union {Nobody}
      /\ RoleOf(sessionCalls[s].who) \in {"user", "admin"}
  BY <1>t, SessionStartValues DEF SessionCall
<1>4. /\ p \in AppState /\ ~p.checking
      /\ p.user = IF Succeeded(sessionCalls, s) THEN sessionCalls[s].who ELSE Nobody
      /\ Succeeded(sessionCalls, s) => p.role = RoleOf(p.user)
  BY <1>t, <1>2, <1>3 DEF AppState
<1> HIDE DEF p
<1>5. /\ SessionTypeOK' /\ app' = p /\ sessionCalls'[s].kind = "idle"
      /\ \A r \in Slot : r # s => SameSessionCall(r)
      /\ UNCHANGED <<cookie, inTurn>>
  BY <1>1, <1>4, SessionEnding
<1>6. \A r \in Slot : sessionCalls'[r].kind = "idle"
  BY <1>2, <1>5 DEF SameSessionCall
<1>7. Checking'
  BY <1>4, <1>5, <1>6 DEF Checking, SessionOut
<1>8. ASSUME inTurn'
      PROVE  TurnOK'
  <2>1. /\ SessionOut({"me"})' = {} /\ SessionOut({"login"})' = {}
        /\ SessionOut({"logout"})' = {} /\ SessionOut({"save"})' = {}
    BY <1>6 DEF SessionOut
  <2>2. app'.user = cookie'
    <3>1. CASE Succeeded(sessionCalls, s)
      BY <1>2, <1>4, <1>5, <3>1
    <3>2. CASE ~Succeeded(sessionCalls, s)
      <4>1. sessionCalls[s].state = "error"
        BY <1>t, <1>1, <3>2 DEF Succeeded, SessionCall, CallState
      <4>2. cookie = Nobody
        BY <1>1, <1>5, <1>8, <4>1 DEF SessionInv, TurnOK, SessionOut
      <4> QED
        BY <1>4, <1>5, <3>2, <4>2
    <3> QED
      BY <3>1, <3>2
  <2>3. app'.user # Nobody => app'.role = RoleOf(app'.user)
    BY <1>4, <1>5
  <2> QED
    BY <2>1, <2>2, <2>3 DEF TurnOK
<1> QED
  BY <1>5, <1>7, <1>8 DEF SessionInv

\* The answer to a login.
LEMMA LoginComesBack ==
    ASSUME SessionInv, NEW s \in Slot, SignedInBack(s)
    PROVE  SessionInv'
<1> DEFINE p == IF Succeeded(sessionCalls, s)
                THEN [app EXCEPT !.user = sessionCalls[s].who, !.signing = FALSE,
                                 !.role = RoleOf(sessionCalls[s].who)]
                ELSE [app EXCEPT !.signing = @ /\ ~sessionCalls[s].mine]
           calls == IF Succeeded(sessionCalls, s) THEN Left(sessionCalls, {"login"})
                    ELSE sessionCalls
<1>t. app \in AppState /\ sessionCalls[s] \in SessionCall
  BY SessionInvFacts
<1>1. /\ sessionCalls[s].kind = "login" /\ sessionCalls[s].state # "sent"
      /\ EndSessionCall(s, calls, p)
  BY DEF SignedInBack, Back
<1>2. ~app.checking
  BY <1>1 DEF SessionInv, Checking
<1>3. /\ sessionCalls[s].who \in Login \union {Nobody}
      /\ RoleOf(sessionCalls[s].who) \in {"user", "admin"}
      /\ sessionCalls[s].mine \in BOOLEAN
  BY <1>t, SessionStartValues DEF SessionCall
<1>4. /\ p \in AppState /\ p.checking = app.checking
      /\ p.user = IF Succeeded(sessionCalls, s) THEN sessionCalls[s].who ELSE app.user
      /\ p.role = IF Succeeded(sessionCalls, s) THEN RoleOf(sessionCalls[s].who)
                  ELSE app.role
  <2>1. (app.signing /\ ~sessionCalls[s].mine) \in BOOLEAN
    BY <1>t, <1>3
  <2> QED
    BY <1>t, <1>3, <2>1 DEF AppState
<1>5. calls = sessionCalls \/ \E kinds : calls = Left(sessionCalls, kinds)
  OBVIOUS
<1> HIDE DEF p, calls
<1>6. /\ SessionTypeOK' /\ app' = p /\ sessionCalls'[s].kind = "idle"
      /\ \A r \in Slot : r # s => SameSessionCall(r)
      /\ UNCHANGED <<cookie, inTurn>>
  BY <1>1, <1>4, <1>5, SessionEnding
<1>7. SessionOut({"me"})' = {} /\ Checking'
  BY <1>2, <1>4, <1>6 DEF SessionInv, Checking, SessionOut, SameSessionCall
<1>8. ASSUME inTurn'
      PROVE  TurnOK'
  <2>1. TurnOK
    BY <1>6, <1>8 DEF SessionInv
  <2>2. /\ LoginSound(s) /\ \A r \in SessionOut({"login"}) : r = s
        /\ SessionOut({"logout"}) = {} /\ SessionOut({"save"}) = {}
    BY <1>1, <2>1 DEF TurnOK, LoginSound, NameSound, SessionOut
  <2>3. /\ SessionOut({"login"})' = {} /\ SessionOut({"logout"})' = {}
        /\ SessionOut({"save"})' = {}
    BY <1>6, <2>2 DEF SessionOut, SameSessionCall
  <2>4. app'.user = cookie'
    BY <1>4, <1>6, <2>2 DEF LoginSound, Succeeded
  <2>5. app'.user # Nobody => app'.role = RoleOf(app'.user)
    BY <1>4, <1>6, <2>1 DEF TurnOK
  <2> QED
    BY <1>7, <2>3, <2>4, <2>5 DEF TurnOK
<1> QED
  BY <1>6, <1>7, <1>8 DEF SessionInv

\* The answer to a logout, or its failure: the login page comes.
LEMMA LogoutComesBack ==
    ASSUME SessionInv, NEW s \in Slot, SignedOutBack(s)
    PROVE  SessionInv'
<1> DEFINE p == SignedOut(app)
<1>t. app \in AppState /\ sessionCalls[s] \in SessionCall
  BY SessionInvFacts
<1>1. /\ sessionCalls[s].kind = "logout" /\ sessionCalls[s].state # "sent"
      /\ EndSessionCall(s, Left(sessionCalls, {"save", "submit"}), p)
  BY DEF SignedOutBack, Back
<1>2. ~app.checking
  BY <1>1 DEF SessionInv, Checking
<1>3. p \in AppState /\ p.checking = app.checking /\ p.user = Nobody
  BY <1>t DEF SignedOut, AppState
<1> HIDE DEF p
<1>4. /\ SessionTypeOK' /\ app' = p /\ sessionCalls'[s].kind = "idle"
      /\ \A r \in Slot : r # s => SameSessionCall(r)
      /\ UNCHANGED <<cookie, inTurn>>
  BY <1>1, <1>3, SessionEnding
<1>5. SessionOut({"me"})' = {} /\ Checking'
  BY <1>2, <1>3, <1>4 DEF SessionInv, Checking, SessionOut, SameSessionCall
<1>6. ASSUME inTurn'
      PROVE  TurnOK'
  <2>1. TurnOK
    BY <1>4, <1>6 DEF SessionInv
  <2>2. s \in SessionOut({"logout"}) /\ LogoutSound(s)
    BY <1>1, <2>1 DEF TurnOK, SessionOut
  <2>3. cookie' = Nobody
    BY <1>t, <1>1, <1>4, <2>2 DEF LogoutSound, SessionCall, CallState
  <2>4. SessionOut({"login"})' = {} /\ SessionOut({"save"})' = {}
    BY <1>4, <2>1, <2>2 DEF TurnOK, SessionOut, SameSessionCall
  <2>5. \A r \in SessionOut({"logout"})' : LogoutSound(r)'
    BY <1>4, <2>1, <2>3 DEF TurnOK, LogoutSound, SessionOut, SameSessionCall
  <2>6. SessionOut({"login", "save"})' = {}
    BY <2>4 DEF SessionOut
  <2> QED
    BY <1>3, <1>4, <1>5, <2>3, <2>4, <2>5, <2>6 DEF TurnOK
<1> QED
  BY <1>4, <1>5, <1>6 DEF SessionInv

\* The answer to a save of the profile: the name and the cookie agree by then.
LEMMA NameComesBack ==
    ASSUME SessionInv, NEW s \in Slot, NameSaved(s)
    PROVE  SessionInv'
<1> DEFINE q == [app EXCEPT !.saving = @ /\ ~sessionCalls[s].mine]
           p == IF Succeeded(sessionCalls, s)
                THEN [q EXCEPT !.user = sessionCalls[s].who, !.signing = FALSE]
                ELSE q
           calls == IF Succeeded(sessionCalls, s) /\ app.user = Nobody
                    THEN Left(sessionCalls, {"login"}) ELSE sessionCalls
<1>t. app \in AppState /\ sessionCalls[s] \in SessionCall
  BY SessionInvFacts
<1>1. sessionCalls[s].kind = "save" /\ EndSessionCall(s, calls, p)
  BY DEF NameSaved, Back
<1>2. ~app.checking
  BY <1>1 DEF SessionInv, Checking
<1>3. sessionCalls[s].who \in Login \union {Nobody} /\ sessionCalls[s].mine \in BOOLEAN
  BY <1>t DEF SessionCall
<1>4. /\ p \in AppState /\ p.checking = app.checking /\ p.role = app.role
      /\ p.user = IF Succeeded(sessionCalls, s) THEN sessionCalls[s].who ELSE app.user
  <2>1. (app.saving /\ ~sessionCalls[s].mine) \in BOOLEAN
    BY <1>t, <1>3
  <2>2. /\ q \in AppState /\ q.checking = app.checking /\ q.role = app.role
        /\ q.user = app.user
    BY <1>t, <2>1 DEF AppState
  <2> HIDE DEF q
  <2> QED
    BY <1>3, <2>2 DEF AppState
<1>5. calls = sessionCalls \/ \E kinds : calls = Left(sessionCalls, kinds)
  OBVIOUS
<1> HIDE DEF p, calls
<1>6. /\ SessionTypeOK' /\ app' = p /\ sessionCalls'[s].kind = "idle"
      /\ \A r \in Slot : r # s => SameSessionCall(r)
      /\ UNCHANGED <<cookie, inTurn>>
  BY <1>1, <1>4, <1>5, SessionEnding
<1>7. SessionOut({"me"})' = {} /\ Checking'
  BY <1>2, <1>4, <1>6 DEF SessionInv, Checking, SessionOut, SameSessionCall
<1>8. ASSUME inTurn'
      PROVE  TurnOK'
  <2>1. TurnOK
    BY <1>6, <1>8 DEF SessionInv
  <2>2. s \in SessionOut({"save"}) /\ NameSound(s)
    BY <1>1, <2>1 DEF TurnOK, SessionOut
  <2>3. SessionOut({"logout"}) = {} /\ SessionOut({"login"}) = {}
    BY <1>1, <2>1, <2>2 DEF TurnOK, LoginSound, NameSound, SessionOut
  <2>4. SessionOut({"login"})' = {} /\ SessionOut({"logout"})' = {}
    BY <1>6, <2>3 DEF SessionOut, SameSessionCall
  <2>5. app'.user = app.user /\ app'.user = cookie' /\ app'.role = app.role
    BY <1>4, <1>6, <2>2 DEF NameSound
  <2>6. \A r \in SessionOut({"save"})' : NameSound(r)'
    BY <1>6, <2>1, <2>5 DEF TurnOK, NameSound, SessionOut, SameSessionCall
  <2> QED
    BY <1>7, <2>1, <2>4, <2>5, <2>6 DEF TurnOK
<1> QED
  BY <1>6, <1>7, <1>8 DEF SessionInv

\* The answer to a submission does not concern the session.
LEMMA LinksComeBack ==
    ASSUME SessionInv, NEW s \in Slot, LinksSubmitted(s)
    PROVE  SessionInv'
<1> DEFINE p == IF Succeeded(sessionCalls, s)
                THEN [WithoutModal(app) EXCEPT !.submitted = @ + Reported(s)]
                ELSE [app EXCEPT !.submitting = @ /\ ~sessionCalls[s].mine]
           calls == IF Succeeded(sessionCalls, s) THEN Left(sessionCalls, {"submit"})
                    ELSE sessionCalls
<1>t. app \in AppState /\ sessionCalls[s] \in SessionCall
  BY SessionInvFacts
<1>1. sessionCalls[s].kind = "submit" /\ EndSessionCall(s, calls, p)
  BY DEF LinksSubmitted, Back
<1>2. /\ p \in AppState /\ p.checking = app.checking /\ p.role = app.role
      /\ p.user = app.user /\ p.signing = app.signing
  <2>1. (app.submitting /\ ~sessionCalls[s].mine) \in BOOLEAN
    BY <1>t DEF AppState, SessionCall
  <2>2. /\ WithoutModal(app) \in AppState
        /\ WithoutModal(app).checking = app.checking
        /\ WithoutModal(app).role = app.role /\ WithoutModal(app).user = app.user
        /\ WithoutModal(app).signing = app.signing
    BY <1>t DEF WithoutModal, AppState
  <2>3. WithoutModal(app).submitted + Reported(s) \in Nat
    BY <2>2 DEF AppState, Reported
  <2> QED
    BY <1>t, <2>1, <2>2, <2>3 DEF AppState
<1>3. calls = sessionCalls \/ \E kinds : calls = Left(sessionCalls, kinds)
  OBVIOUS
<1>4. ~app.checking
  BY <1>1 DEF SessionInv, Checking
<1> HIDE DEF p, calls
<1>5. /\ SessionTypeOK' /\ app' = p /\ sessionCalls'[s].kind = "idle"
      /\ \A r \in Slot : r # s => SameSessionCall(r)
      /\ UNCHANGED <<cookie, inTurn>>
  BY <1>1, <1>2, <1>3, SessionEnding
<1>6. \A r \in Slot : \/ SameSessionCall(r)
                      \/ /\ ~app.checking /\ Unconcerned(sessionCalls[r].kind)
                         /\ Unconcerned(sessionCalls'[r].kind)
  BY <1>1, <1>4, <1>5 DEF Unconcerned
<1> QED
  BY <1>2, <1>5, <1>6, SessionKept

\* SessionInv is inductive.
LEMMA SessionStep ==
    ASSUME SessionInv, [SessionNext]_sessionVars
    PROVE  SessionInv'
<1>1. CASE SessionNext
  BY <1>1, SessionQuietActs, SessionSends, SessionReloads, SessionServer, MeComesBack,
     LoginComesBack, LogoutComesBack, NameComesBack, LinksComeBack
     DEF SessionNext, SessionCallStep
<1>2. CASE UNCHANGED sessionVars
  BY <1>2 DEF sessionVars, SessionInv, SessionTypeOK, Checking, TurnOK, LoginSound,
              NameSound, LogoutSound, SessionOut
<1> QED
  BY <1>1, <1>2

\* SessionInv holds at the start, when getMe has been sent.
LEMMA SessionStart ==
    ASSUME SessionInit
    PROVE  SessionInv
<1> DEFINE call == SessionAsk("me", cookie)
<1>1. /\ call \in SessionCall /\ call.kind = "me" /\ call.who = cookie
      /\ call.state = "sent"
  BY SessionAsked DEF SessionInit
<1>2. sessionCalls = [s \in Slot |-> IF s = 1 THEN call ELSE NoSessionCall]
  BY DEF SessionInit, OnlyGetMe
<1> HIDE DEF call
<1>3. 1 \in Slot
  BY CallsAssumption DEF Slot
<1>4. /\ sessionCalls \in [Slot -> SessionCall] /\ sessionCalls[1] = call
      /\ \A s \in Slot : s # 1 => sessionCalls[s].kind = "idle"
  BY <1>1, <1>2, <1>3, SessionStartValues
<1>5. /\ SessionOut({"me"}) = {1} /\ SessionOut({"login"}) = {}
      /\ SessionOut({"logout"}) = {} /\ SessionOut({"save"}) = {}
  BY <1>1, <1>3, <1>4 DEF SessionOut
<1>6. app \in AppState /\ app.checking /\ app.user = Nobody
  BY SessionStartValues DEF SessionInit, FreshApp
<1>7. SessionTypeOK
  BY <1>4, <1>6, SessionAssumption DEF SessionInit, SessionTypeOK
<1>8. Checking
  BY <1>1, <1>4, <1>5, <1>6 DEF Checking
<1>9. TurnOK
  BY <1>1, <1>4, <1>5, <1>6 DEF TurnOK
<1> QED
  BY <1>7, <1>8, <1>9 DEF SessionInv

\* Every variable of the session stays in its domain.
THEOREM SessionTypeCorrect == SessionSpec => []SessionTypeOK
<1>1. SessionInit => SessionInv
  BY SessionStart
<1>2. SessionInv /\ [SessionNext]_sessionVars => SessionInv'
  BY SessionStep
<1>3. SessionInv => SessionTypeOK
  BY DEF SessionInv
<1> QED
  BY <1>1, <1>2, <1>3, PTL DEF SessionSpec

\* Between two changes of the session the application shows the user and the
\* role that the cookie speaks for, for any users and any number of calls.
THEOREM SettledUserIsTheCookies == SessionSpec => []SettledUserIsCookies
<1>1. SessionInit => SessionInv
  BY SessionStart
<1>2. SessionInv /\ [SessionNext]_sessionVars => SessionInv'
  BY SessionStep
<1>3. SessionInv => SettledUserIsCookies
  BY DEF SessionInv, Checking, TurnOK, SettledUserIsCookies, SessionOut
<1> QED
  BY <1>1, <1>2, <1>3, PTL DEF SessionSpec

(***************************************************************************)
(* Submissions.  The count of the application and the answers that wait to *)
(* be counted; each step moves one from the one to the other at most.      *)
(***************************************************************************)
Waiting == {s \in SessionOut({"submit"}) : Succeeded(sessionCalls, s)}

\* The answers that wait are finitely many.
LEMMA WaitingFinite ==
    ASSUME NEW set, set \subseteq Slot
    PROVE  IsFiniteSet(set) /\ Cardinality(set) \in Nat
<1>1. IsFiniteSet(Slot)
  BY CallsAssumption, FS_Interval DEF Slot
<1>2. IsFiniteSet(set)
  BY <1>1, FS_Subset
<1> QED
  BY <1>2, FS_CardinalityType

\* The step takes nothing from the answers that wait, and adds nothing.
LEMMA ReportsKept ==
    ASSUME SubmissionsReported, app'.submitted = app.submitted,
           succeeded' = succeeded,
           \A s \in Slot : \/ SameSessionCall(s)
                           \/ /\ sessionCalls[s].kind # "submit" \/ sessionCalls[s].state # "ok"
                              /\ sessionCalls'[s].kind # "submit" \/ sessionCalls'[s].state # "ok"
    PROVE  SubmissionsReported'
<1>1. Waiting' = Waiting
  BY DEF Waiting, SessionOut, Succeeded, SameSessionCall
<1> QED
  BY <1>1 DEF SubmissionsReported, Waiting

\* The user's acts.
LEMMA ReportsOfActs ==
    ASSUME SessionInv, SubmissionsReported,
           \/ \E who \in Login : SignIn(who)
           \/ SignOut \/ SaveName
           \/ \E page \in {"files", "settings"} : Navigate(page)
           \/ OpenModal \/ CloseModal \/ SubmitLinks
    PROVE  SubmissionsReported'
<1>t. SessionTypeOK /\ cookie \in Login \union {Nobody} /\ app \in AppState
  BY SessionInvFacts
<1>1. succeeded' = succeeded
  BY DEF SignIn, SignOut, SaveName, Navigate, OpenModal, CloseModal, SubmitLinks
<1>2. app'.submitted = app.submitted
  <2>1. CASE \/ \E who \in Login : SignIn(who)
             \/ SignOut \/ SaveName \/ SubmitLinks
    BY <1>t, <2>1 DEF SignIn, SignOut, SaveName, SubmitLinks, AppState
  <2>2. CASE \/ \E page \in {"files", "settings"} : Navigate(page)
             \/ OpenModal \/ CloseModal
    BY <1>t, <2>2 DEF Navigate, OpenModal, CloseModal, WithoutModal, AppState
  <2> QED
    BY <2>1, <2>2
<1>3. ASSUME NEW kind \in {"login", "logout", "save", "submit"},
             NEW who \in Login \union {Nobody}, SendSessionCall(SessionAsk(kind, who))
      PROVE  SubmissionsReported'
  <2> DEFINE call == SessionAsk(kind, who)
  <2>1. call \in SessionCall /\ call.state = "sent"
    BY SessionAsked
  <2>2. SendSessionCall(call)
    BY <1>3
  <2> HIDE DEF call
  <2>3. PICK s \in Slot :
            /\ sessionCalls[s].kind = "idle" /\ sessionCalls'[s] = call
            /\ \A r \in Slot : r # s => sessionCalls'[r] = sessionCalls[r]
            /\ sessionCalls' \in [Slot -> SessionCall]
    BY <1>t, <2>1, <2>2, SessionSending
  <2> QED
    BY <1>1, <1>2, <2>1, <2>3, ReportsKept DEF SameSessionCall
<1>4. CASE \/ \E who \in Login : SignIn(who)
           \/ SignOut \/ SaveName \/ SubmitLinks
  BY <1>t, <1>3, <1>4 DEF SignIn, SignOut, SaveName, SubmitLinks
<1>5. CASE \/ \E page \in {"files", "settings"} : Navigate(page)
           \/ OpenModal \/ CloseModal
  <2>1. sessionCalls' = sessionCalls \/ \E kinds : sessionCalls' = Left(sessionCalls, kinds)
    BY <1>5 DEF Navigate, OpenModal, CloseModal
  <2>2. \A s \in Slot : SameSessionCall(s)
    BY <2>1, LeftCalls DEF SameSessionCall
  <2> QED
    BY <1>1, <1>2, <2>2, ReportsKept
<1> QED
  BY <1>4, <1>5

\* A submission that succeeds is counted by the server and waits.
LEMMA ReportsOfServer ==
    ASSUME SessionInv, SubmissionsReported, NEW s \in Slot, Answer(s) \/ Refuse(s)
    PROVE  SubmissionsReported'
<1>t. sessionCalls \in [Slot -> SessionCall] /\ app \in AppState /\ succeeded \in Nat
  BY SessionInvFacts
<1>1. PICK state \in {"ok", "error"} :
          /\ sessionCalls' = [sessionCalls EXCEPT ![s] = [@ EXCEPT !.state = state]]
          /\ succeeded' = IF state = "ok" /\ sessionCalls[s].kind = "submit"
                          THEN succeeded + 1 ELSE succeeded
  BY DEF Answer, Refuse
<1>2. app' = app /\ sessionCalls[s].state = "sent"
  BY DEF Answer, Refuse
<1>3. /\ sessionCalls'[s].kind = sessionCalls[s].kind /\ sessionCalls'[s].state = state
      /\ \A r \in Slot : r # s => sessionCalls'[r] = sessionCalls[r]
  BY <1>t, <1>1 DEF SessionCall
<1>4. CASE state = "ok" /\ sessionCalls[s].kind = "submit"
  <2>1. Waiting' = Waiting \union {s} /\ s \notin Waiting
    BY <1>2, <1>3, <1>4 DEF Waiting, SessionOut, Succeeded
  <2>2. IsFiniteSet(Waiting) /\ Cardinality(Waiting) \in Nat
    BY WaitingFinite DEF Waiting, SessionOut
  <2>3. Cardinality(Waiting') = Cardinality(Waiting) + 1
    BY <2>1, <2>2, FS_AddElement
  <2>4. app.submitted \in Nat
    BY <1>t DEF AppState
  <2> QED
    BY <1>1, <1>2, <1>4, <2>2, <2>3, <2>4, <1>t DEF SubmissionsReported, Waiting
<1>5. CASE ~(state = "ok" /\ sessionCalls[s].kind = "submit")
  BY <1>1, <1>2, <1>3, <1>5, ReportsKept DEF SameSessionCall
<1> QED
  BY <1>4, <1>5

\* The handlers: one that waits is counted by the application, whatever has
\* become of its dialog.
LEMMA ReportsOfHandlers ==
    ASSUME SessionInv, SubmissionsReported, NEW s \in Slot,
           \/ GotMe(s) \/ SignedInBack(s) \/ SignedOutBack(s) \/ NameSaved(s)
           \/ LinksSubmitted(s)
    PROVE  SubmissionsReported'
<1>t. /\ sessionCalls \in [Slot -> SessionCall] /\ app \in AppState
      /\ sessionCalls[s] \in SessionCall /\ succeeded' = succeeded
  BY SessionInvFacts
     DEF GotMe, SignedInBack, SignedOutBack, NameSaved, LinksSubmitted, EndSessionCall
<1>1. PICK calls : /\ sessionCalls' = [calls EXCEPT ![s] = NoSessionCall]
                   /\ calls = sessionCalls \/ \E kinds : calls = Left(sessionCalls, kinds)
  BY DEF GotMe, SignedInBack, SignedOutBack, NameSaved, LinksSubmitted, EndSessionCall
<1>2. /\ calls \in [Slot -> SessionCall]
      /\ \A r \in Slot : /\ calls[r].kind = sessionCalls[r].kind
                         /\ calls[r].state = sessionCalls[r].state
                         /\ calls[r].who = sessionCalls[r].who
  BY <1>1, SessionInvFacts, LeftCalls
<1>3. /\ sessionCalls'[s].kind = "idle"
      /\ \A r \in Slot : r # s => SameSessionCall(r)
  BY <1>1, <1>2, SessionStartValues DEF SameSessionCall
<1>4. CASE GotMe(s) \/ SignedInBack(s) \/ SignedOutBack(s) \/ NameSaved(s)
  <2>1. sessionCalls[s].kind # "submit"
    BY <1>4 DEF GotMe, SignedInBack, SignedOutBack, NameSaved, Back
  <2>2. app'.submitted = app.submitted
    <3>1. CASE GotMe(s) \/ SignedInBack(s)
      BY <1>t, <3>1 DEF GotMe, SignedInBack, EndSessionCall, AppState
    <3>2. CASE SignedOutBack(s) \/ NameSaved(s)
      BY <1>t, <3>2 DEF SignedOutBack, SignedOut, NameSaved, EndSessionCall, AppState
    <3> QED
      BY <1>4, <3>1, <3>2
  <2> QED
    BY <1>t, <1>3, <2>1, <2>2, ReportsKept
<1>5. CASE LinksSubmitted(s)
  <2>1. sessionCalls[s].kind = "submit"
    BY <1>5 DEF LinksSubmitted, Back
  <2>2. CASE Succeeded(sessionCalls, s)
    <3>1. app' = [WithoutModal(app) EXCEPT !.submitted = @ + Reported(s)]
      BY <1>5, <2>2 DEF LinksSubmitted, EndSessionCall
    <3>2. app'.submitted = app.submitted + 1 /\ app.submitted \in Nat
      BY <1>t, <3>1 DEF WithoutModal, Reported, AppState
    <3>3. s \in Waiting /\ Waiting' = Waiting \ {s}
      BY <1>3, <2>1, <2>2 DEF Waiting, SessionOut, Succeeded, SameSessionCall
    <3>4. IsFiniteSet(Waiting) /\ Cardinality(Waiting) \in Nat
      BY WaitingFinite DEF Waiting, SessionOut
    <3>5. Cardinality(Waiting') = Cardinality(Waiting) - 1
      BY <3>3, <3>4, FS_RemoveElement
    <3> QED
      BY <1>t, <3>2, <3>4, <3>5 DEF SubmissionsReported, Waiting
  <2>3. CASE ~Succeeded(sessionCalls, s)
    <3>1. app' = [app EXCEPT !.submitting = @ /\ ~sessionCalls[s].mine]
      BY <1>5, <2>3 DEF LinksSubmitted, EndSessionCall
    <3>2. app'.submitted = app.submitted
      BY <1>t, <3>1 DEF AppState
    <3> QED
      BY <1>t, <1>3, <2>3, <3>2, ReportsKept DEF Succeeded
  <2> QED
    BY <2>2, <2>3
<1> QED
  BY <1>4, <1>5

\* A reload forgets the submissions and what was reported of them.
LEMMA ReportsOfReload ==
    ASSUME SessionInv, ReloadApp
    PROVE  SubmissionsReported'
<1>1. Waiting' = {}
  BY SessionAsked, SessionInvFacts
     DEF ReloadApp, OnlyGetMe, Waiting, SessionOut, Succeeded, NoSessionCall, SessionAsk
<1>2. app'.submitted = 0 /\ succeeded' = 0
  BY DEF ReloadApp, FreshApp
<1> QED
  BY <1>1, <1>2, FS_EmptySet DEF SubmissionsReported, Waiting

\* SubmissionsReported is inductive relative to SessionInv.
LEMMA ReportsStep ==
    ASSUME SessionInv, SubmissionsReported, [SessionNext]_sessionVars
    PROVE  SubmissionsReported'
<1>1. CASE SessionNext
  BY <1>1, ReportsOfActs, ReportsOfServer, ReportsOfHandlers, ReportsOfReload
     DEF SessionNext, SessionCallStep
<1>2. CASE UNCHANGED sessionVars
  BY <1>2, ReportsKept DEF sessionVars, SameSessionCall
<1> QED
  BY <1>1, <1>2

\* No success of a submission is lost or reported twice, however often its
\* dialog or its user changes, for any number of calls.
THEOREM SubmissionsAreReported == SessionSpec => []SubmissionsReported
<1>1. SessionInit => SessionInv /\ SubmissionsReported
  <2> SUFFICES ASSUME SessionInit PROVE SubmissionsReported
    BY SessionStart
  <2>1. Waiting = {}
    BY DEF SessionInit, OnlyGetMe, Waiting, SessionOut, Succeeded, NoSessionCall, SessionAsk
  <2> QED
    BY <2>1, FS_EmptySet DEF SessionInit, FreshApp, SubmissionsReported, Waiting
<1>2. /\ SessionInv /\ SubmissionsReported
      /\ [SessionNext]_sessionVars
      => (SessionInv /\ SubmissionsReported)'
  BY SessionStep, ReportsStep
<1> QED
  BY <1>1, <1>2, PTL DEF SessionSpec

(***************************************************************************)
(* The parts together.  A behaviour of WebPages is one of every part: the  *)
(* part that is open acts, the others stutter.  So what holds of a part    *)
(* holds of it here.                                                       *)
(***************************************************************************)

\* A step of the pages is a step of each part, or leaves the part alone.
LEMMA PagesMove ==
    ASSUME [PagesNext]_pagesVars
    PROVE  /\ [AccountsNext]_accountsVars /\ [KeysNext]_keysVars
           /\ [PolicyNext]_policyVars /\ [UsersNext]_usersVars
           /\ [SessionNext]_sessionVars
<1>1. CASE OnAccounts
  BY <1>1 DEF OnAccounts
<1>2. CASE OnKeys
  BY <1>2 DEF OnKeys
<1>3. CASE OnPolicy
  BY <1>3 DEF OnPolicy
<1>4. CASE OnUsers
  BY <1>4 DEF OnUsers
<1>5. CASE OnSession
  BY <1>5 DEF OnSession
<1>6. CASE UNCHANGED pagesVars
  BY <1>6 DEF pagesVars
<1> QED
  BY <1>1, <1>2, <1>3, <1>4, <1>5, <1>6 DEF PagesNext

\* The pages implement the specification of every part.
THEOREM PagesImplementTheirParts ==
    PagesSpec => AccountsSpec /\ KeysSpec /\ PolicySpec /\ UsersSpec /\ SessionSpec
<1>1. PagesInit => AccountsInit /\ KeysInit /\ PolicyInit /\ UsersInit /\ SessionInit
  BY DEF PagesInit
<1>2. [PagesNext]_pagesVars =>
          /\ [AccountsNext]_accountsVars /\ [KeysNext]_keysVars
          /\ [PolicyNext]_policyVars /\ [UsersNext]_usersVars
          /\ [SessionNext]_sessionVars
  BY PagesMove
<1> QED
  BY <1>1, <1>2, PTL
     DEF PagesSpec, AccountsSpec, KeysSpec, PolicySpec, UsersSpec, SessionSpec

\* Every variable of every part stays in its domain, whichever part of the
\* application is open.
THEOREM PagesTypeCorrect == PagesSpec => []PagesTypeOK
<1>1. PagesSpec => [](part \in Part)
  <2>1. PagesInit => part \in Part
    BY DEF PagesInit
  <2>2. part \in Part /\ [PagesNext]_pagesVars => (part \in Part)'
    BY DEF PagesNext, pagesVars, OnAccounts, OnKeys, OnPolicy, OnUsers, OnSession
  <2> QED
    BY <2>1, <2>2, PTL DEF PagesSpec
<1>2. /\ part \in Part /\ AccountsTypeOK /\ KeysTypeOK /\ PolicyTypeOK
      /\ UsersTypeOK /\ SessionTypeOK
      => PagesTypeOK
  BY DEF PagesTypeOK
<1> QED
  BY <1>1, <1>2, PagesImplementTheirParts, AccountsTypeCorrect, KeysTypeCorrect,
     PolicyTypeCorrect, UsersTypeCorrect, SessionTypeCorrect, PTL

\* What the tabs promise one by one they promise together: the spinners and
\* the list of AccountsPage.tsx, the creations of the key tab, the form of
\* PolicyTab.tsx, the own row of the user tab and the user that App.tsx
\* shows.
THEOREM PagesKeepTheirPromises ==
    PagesSpec => /\ []AccountFlagsMatchCalls /\ []SettledListCurrent
                 /\ AccountsNeverInvented
                 /\ []OneKeyAtATime /\ KeyStaysUntilClosed
                 /\ []UneditedFieldsInForce
                 /\ []OwnRowKept
                 /\ []SettledUserIsCookies /\ []SubmissionsReported
  BY PagesImplementTheirParts, AccountFlagsHold, SettledListIsCurrent,
     AccountsNeverInventedHolds, OneKeyAtATimeHolds, KeyStaysUntilClosedHolds,
     UneditedFieldsAreInForce, OwnRowIsKept, SettledUserIsTheCookies,
     SubmissionsAreReported, PTL
=============================================================================
