----------------------------- MODULE PolicyTab -----------------------------
(***************************************************************************)
(* The policy tab of the settings page (web/src/pages/SettingsPage.tsx):   *)
(* the form over the system settings.                                      *)
(*                                                                         *)
(* The form is there at once, with defaults written into the page; the     *)
(* server's settings replace them, and whatever was edited by then, when   *)
(* they arrive.  A save sends the whole form.  The manual cleanup takes    *)
(* its days from the form, saved or not.                                   *)
(***************************************************************************)
EXTENDS ApiCalls

CONSTANTS
    Field,          \* the fields of the form
    Value,          \* what a field may hold
    Default,        \* the defaults of the page
    MaxPolicyActs   \* bound on the administrator's acts

Policy == [Field -> Value]

ASSUME PolicyAssumption ==
    Default \in Policy /\ MaxPolicyActs \in Nat

VARIABLES
    policy,         \* the settings table
    policyTab,      \* the tab's state hooks
    policyCalls,    \* the calls of the tab
    policyActs,     \* acts so far
    calm            \* history: loads came back, and before anything was edited

policyVars == <<policy, policyTab, policyCalls, policyActs, calm>>

(***************************************************************************)
(* settings is the form; edited is history: the fields changed since it    *)
(* was last loaded or saved.                                               *)
(***************************************************************************)
PolicyState ==
    [active : BOOLEAN, settings : Policy, saving : BOOLEAN,
     cleaning : BOOLEAN, edited : SUBSET Field]

FreshPolicyTab ==
    [active |-> FALSE, settings |-> Default, saving |-> FALSE,
     cleaning |-> FALSE, edited |-> {}]

PolicyCall ==
    [kind : {"idle", "load", "save", "cleanup"}, mine : BOOLEAN, policy : Policy,
     state : CallState]

NoPolicyCall ==
    [kind |-> "idle", mine |-> FALSE, policy |-> Default, state |-> "sent"]

PolicyAsk(kind, form) ==
    [NoPolicyCall EXCEPT !.kind = kind, !.mine = TRUE, !.policy = form]

PolicyInit ==
    /\ policy \in Policy
    /\ policyTab = FreshPolicyTab
    /\ policyCalls = [s \in Slot |-> NoPolicyCall]
    /\ policyActs = 0
    /\ calm = TRUE

-----------------------------------------------------------------------------
PolicyAct == policyActs < MaxPolicyActs /\ policyActs' = policyActs + 1

SendPolicyCall(call) ==
    \E s \in Free(policyCalls) : policyCalls' = [policyCalls EXCEPT ![s] = call]

PolicyOut(kind) == {s \in Slot : policyCalls[s].kind = kind}

\* The effect on [activeTab, isAdmin] calls loadSettings.
OpenPolicy ==
    /\ PolicyAct
    /\ ~policyTab.active
    /\ policyTab' = [policyTab EXCEPT !.active = TRUE]
    /\ SendPolicyCall(PolicyAsk("load", Default))
    /\ calm' = (calm /\ PolicyOut("load") \union PolicyOut("save") = {})
    /\ UNCHANGED policy

\* Another tab; the form keeps what it holds.
LeavePolicy ==
    /\ PolicyAct
    /\ policyTab.active
    /\ policyTab' = [policyTab EXCEPT !.active = FALSE]
    /\ UNCHANGED <<policy, policyCalls, calm>>

\* The settings page is left and opened again, on another tab.
ReopenSettings ==
    /\ PolicyAct
    /\ policyTab' = FreshPolicyTab
    /\ policyCalls' = Orphaned(policyCalls)
    /\ UNCHANGED <<policy, calm>>

\* Mutant: the other fields are not copied from the form.
EditedAlone(field, value) == [Default EXCEPT ![field] = value]

\* setSettings({ ...settings, field: value })
Edited(field, value) == [policyTab.settings EXCEPT ![field] = value]

\* One of the form's fields.  The page shows a number only while the switch
\* above it is on, which is left out.
EditPolicy(field, value) ==
    /\ PolicyAct
    /\ policyTab.active
    /\ value # policyTab.settings[field]
    /\ policyTab' = [policyTab EXCEPT !.settings = Edited(field, value),
                                      !.edited = @ \union {field}]
    /\ calm' = (calm /\ PolicyOut("load") = {})
    /\ UNCHANGED <<policy, policyCalls>>

\* handleSaveSettings up to its await.
SavePolicy ==
    /\ PolicyAct
    /\ policyTab.active /\ ~policyTab.saving
    /\ policyTab' = [policyTab EXCEPT !.saving = TRUE]
    /\ SendPolicyCall(PolicyAsk("save", policyTab.settings))
    /\ calm' = (calm /\ PolicyOut("load") \union PolicyOut("save") = {})
    /\ UNCHANGED policy

\* handleTriggerCleanupNow up to its await.
TriggerCleanup ==
    /\ PolicyAct
    /\ policyTab.active /\ ~policyTab.cleaning
    /\ policyTab' = [policyTab EXCEPT !.cleaning = TRUE]
    /\ SendPolicyCall(PolicyAsk("cleanup", policyTab.settings))
    /\ UNCHANGED <<policy, calm>>

-----------------------------------------------------------------------------
(***************************************************************************)
(* The server: getSettings, updateSettings, triggerCleanup.                *)
(***************************************************************************)

PolicyServed(s, state, form) ==
    policyCalls' = [policyCalls EXCEPT ![s] = [@ EXCEPT !.state = state, !.policy = form]]

PolicySent(s, kind) == policyCalls[s].kind = kind /\ policyCalls[s].state = "sent"

\* GetSettings: the copy it answers from is taken to agree with the table.
ServePolicy(s) ==
    /\ PolicySent(s, "load")
    /\ \/ PolicyServed(s, "ok", policy) /\ UNCHANGED calm
       \/ PolicyServed(s, "error", Default) /\ calm' = FALSE
    /\ UNCHANGED <<policy, policyTab, policyActs>>

ServeSave(s) ==
    /\ PolicySent(s, "save")
    /\ \E done \in BOOLEAN, state \in {"ok", "error"} :
        /\ state = "ok" => done
        /\ policy' = IF done THEN policyCalls[s].policy ELSE policy
        /\ PolicyServed(s, state, policyCalls[s].policy)
        /\ calm' = (calm /\ state = "ok")
    /\ UNCHANGED <<policyTab, policyActs>>

\* It runs with the days of the call, and changes no setting.
ServeCleanup(s) ==
    /\ PolicySent(s, "cleanup")
    /\ \E state \in {"ok", "error"} : PolicyServed(s, state, policyCalls[s].policy)
    /\ UNCHANGED <<policy, policyTab, policyActs, calm>>

-----------------------------------------------------------------------------
(***************************************************************************)
(* The second halves of the handlers.                                      *)
(***************************************************************************)

EndPolicyCall(s, p) ==
    /\ policyCalls' = [policyCalls EXCEPT ![s] = NoPolicyCall]
    /\ policyTab' = IF policyCalls[s].mine THEN p ELSE policyTab
    /\ UNCHANGED <<policy, policyActs, calm>>

\* The rest of loadSettings: a failure is only logged.
PolicyLoaded(s) ==
    /\ Back(policyCalls, s, "load")
    /\ EndPolicyCall(s,
           IF Succeeded(policyCalls, s)
           THEN [policyTab EXCEPT !.settings = policyCalls[s].policy, !.edited = {}]
           ELSE policyTab)

\* handleSaveSettings: the form stays as it is, edited further or not.
PolicySaved(s) ==
    /\ Back(policyCalls, s, "save")
    /\ EndPolicyCall(s,
           IF Succeeded(policyCalls, s)
           THEN [policyTab EXCEPT !.saving = FALSE,
                     !.edited = {f \in @ : policyTab.settings[f] # policyCalls[s].policy[f]}]
           ELSE [policyTab EXCEPT !.saving = FALSE])

\* Its handler goes on to loadOverviewData (CleanupLoads of OverviewTab).
CleanedUp(s) ==
    /\ Back(policyCalls, s, "cleanup")
    /\ EndPolicyCall(s, [policyTab EXCEPT !.cleaning = FALSE])

-----------------------------------------------------------------------------
PolicyCallStep(s) ==
    \/ ServePolicy(s)
    \/ ServeSave(s)
    \/ ServeCleanup(s)
    \/ PolicyLoaded(s)
    \/ PolicySaved(s)
    \/ CleanedUp(s)

PolicyNext ==
    \/ OpenPolicy
    \/ LeavePolicy
    \/ ReopenSettings
    \/ \E field \in Field, value \in Value : EditPolicy(field, value)
    \/ SavePolicy
    \/ TriggerCleanup
    \/ \E s \in Slot : PolicyCallStep(s)

PolicySpec == PolicyInit /\ [][PolicyNext]_policyVars

-----------------------------------------------------------------------------
(***************************************************************************)
(* Properties.                                                             *)
(***************************************************************************)

\* Every variable stays in its domain.
PolicyTypeOK ==
    /\ policy \in Policy
    /\ policyTab \in PolicyState
    /\ policyCalls \in [Slot -> PolicyCall]
    /\ policyActs \in 0 .. MaxPolicyActs
    /\ calm \in BOOLEAN

\* The settings that a save will write and that nobody edited are the ones
\* in force, as long as no load failed or was overtaken by an edit or a
\* save: the form, once it has its settings, differs from the table in the
\* edited fields only, through edits during a save, failures of a cleanup
\* and changes of tab and page.
UneditedFieldsInForce ==
    policyTab.active /\ calm /\ PolicyOut("load") = {} =>
        \A f \in Field \ policyTab.edited :
            \/ policyTab.settings[f] = policy[f]
            \/ \E s \in PolicyOut("save") : policyCalls[s].policy[f] = policyTab.settings[f]
=============================================================================
