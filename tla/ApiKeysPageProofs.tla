------------------------- MODULE ApiKeysPageProofs -------------------------
(***************************************************************************)
(* Theorems about ApiKeysPage: its type invariant, that one key is made at *)
(* a time, and that the only copy of a key's text stays in the dialog      *)
(* until its user closes it.                                               *)
(***************************************************************************)
EXTENDS ApiKeysPage, TLAPS

(***************************************************************************)
(* The inductive invariant adds that nothing is being made while a key is  *)
(* kept, so that no answer can put another in its place, and that a page   *)
(* which is gone has no dialog and makes nothing.                          *)
(***************************************************************************)
KeptAlone == keysPage.created # 0 => Out(keyCalls, "create") = {}

\* A page that is gone makes none.
GoneMakesNone ==
    ~keysPage.mounted =>
        /\ ~keysPage.open /\ ~keysPage.submitting
        /\ keysPage.created = 0

KeysInv == KeysTypeOK /\ OneKeyAtATime /\ KeptAlone /\ GoneMakesNone

\* The values a page and a call start from.
LEMMA KeyStartValues ==
    /\ NoKeys \in KeyList /\ FreshKeysPage \in KeysPageState
    /\ NoKeyCall \in KeyCall /\ NoKeyCall.kind = "idle" /\ ~NoKeyCall.mine
<1>1. NoKeys \in KeyList
  BY DEF NoKeys, KeyList
<1>2. 0 \in 0 .. MaxKeys
  BY KeysAssumption
<1> QED
  BY <1>1, <1>2 DEF FreshKeysPage, KeysPageState, NoKeyCall, KeyCall, CallState

\* A new call.
LEMMA KeyAsked ==
    ASSUME NEW kind \in {"list", "create", "delete", "toggle"}, NEW id \in 0 .. MaxKeys
    PROVE  /\ KeyAsk(kind, id) \in KeyCall
           /\ KeyAsk(kind, id).kind = kind /\ KeyAsk(kind, id).mine
  BY KeyStartValues DEF KeyAsk, KeyCall

\* Calls of which the same are creations of this page are the same to the
\* invariant.
LEMMA SameCreations ==
    ASSUME \A s \in Slot : /\ keyCalls'[s].kind = "create" /\ keyCalls'[s].mine
                           <=> keyCalls[s].kind = "create" /\ keyCalls[s].mine
    PROVE  Out(keyCalls, "create")' = Out(keyCalls, "create")
  BY DEF Out

\* A step that leaves the creations alone.
LEMMA CreationsKept ==
    ASSUME KeysInv, KeysTypeOK',
           Out(keyCalls, "create")' = Out(keyCalls, "create"),
           keysPage'.submitting = keysPage.submitting,
           keysPage'.created \in {0, keysPage.created},
           keysPage'.mounted = keysPage.mounted,
           keysPage'.open => keysPage.open \/ keysPage.mounted
    PROVE  KeysInv'
  BY DEF KeysInv, OneKeyAtATime, KeptAlone, GoneMakesNone

\* A call that makes no key is sent from a free slot.
LEMMA KeySending ==
    ASSUME KeysInv, NEW call \in KeyCall, call.kind # "create", SendKeyCall(call)
    PROVE  /\ keyCalls' \in [Slot -> KeyCall]
           /\ Out(keyCalls, "create")' = Out(keyCalls, "create")
<1>1. PICK s \in Free(keyCalls) : keyCalls' = [keyCalls EXCEPT ![s] = call]
  BY DEF SendKeyCall
<1>2. s \in Slot /\ keyCalls[s].kind = "idle" /\ keyCalls \in [Slot -> KeyCall]
  BY <1>1 DEF Free, KeysInv, KeysTypeOK
<1>3. \A r \in Slot : keyCalls'[r].kind = "create" /\ keyCalls'[r].mine
                      <=> keyCalls[r].kind = "create" /\ keyCalls[r].mine
  BY <1>1, <1>2
<1> QED
  BY <1>1, <1>2, <1>3, SameCreations

\* An act of the user counts.
LEMMA KeyActCounts ==
    ASSUME KeysInv, KeyAct
    PROVE  keyActs' \in 0 .. MaxKeyActs
  BY KeysAssumption DEF KeyAct, KeysInv, KeysTypeOK

\* The user's acts, but for the submission of the dialog.
LEMMA KeyActs ==
    ASSUME KeysInv,
           \/ RefreshKeys \/ OpenKeyDialog \/ FillKeyDialog \/ CloseKeyDialog
           \/ \E k \in Key : ToggleKey(k) \/ DeleteKey(k)
    PROVE  KeysInv'
<1>t. /\ keysPage \in KeysPageState /\ keyCalls \in [Slot -> KeyCall]
      /\ keyTable \in KeyList /\ keySerial \in 0 .. MaxKeys
  BY DEF KeysInv, KeysTypeOK
<1>z. 0 \in 0 .. MaxKeys
  BY KeysAssumption
<1>1. CASE RefreshKeys
  <2>1. AskKeys \in KeyCall /\ AskKeys.kind # "create"
    BY <1>z, KeyAsked DEF AskKeys
  <2>2. keyCalls' \in [Slot -> KeyCall] /\ Out(keyCalls, "create")' = Out(keyCalls, "create")
    BY <1>1, <2>1, KeySending DEF RefreshKeys
  <2>3. /\ keysPage' \in KeysPageState /\ keysPage'.submitting = keysPage.submitting
        /\ keysPage'.created = keysPage.created
        /\ keysPage'.mounted = keysPage.mounted /\ keysPage.mounted
    BY <1>1, <1>t DEF RefreshKeys, KeysPageState
  <2> QED
    BY <1>1, <1>t, <2>2, <2>3, KeyActCounts, CreationsKept DEF RefreshKeys, KeysTypeOK
<1>2. CASE OpenKeyDialog \/ FillKeyDialog \/ CloseKeyDialog
  <2>1. /\ keysPage' \in KeysPageState /\ keysPage'.submitting = keysPage.submitting
        /\ keysPage'.created \in {0, keysPage.created}
        /\ keysPage'.mounted = keysPage.mounted
        /\ keysPage'.open => keysPage.open \/ keysPage.mounted
    BY <1>2, <1>t, <1>z DEF OpenKeyDialog, FillKeyDialog, CloseKeyDialog, KeysPageState
  <2>2. KeyAct /\ UNCHANGED <<keyTable, keySerial, keyCalls>>
    BY <1>2 DEF OpenKeyDialog, FillKeyDialog, CloseKeyDialog
  <2>3. Out(keyCalls, "create")' = Out(keyCalls, "create")
    BY <2>2 DEF Out
  <2> QED
    BY <1>t, <2>1, <2>2, <2>3, KeyActCounts, CreationsKept DEF KeysTypeOK
<1>3. ASSUME NEW k \in Key, ToggleKey(k)
      PROVE  KeysInv'
  <2> DEFINE call == [KeyAsk("toggle", k) EXCEPT !.enabled = ~keysPage.view[k]]
  <2>1. k \in 0 .. MaxKeys
    BY KeysAssumption DEF Key
  <2>2. /\ KeyAsk("toggle", k) \in KeyCall
        /\ KeyAsk("toggle", k).kind = "toggle"
    BY <2>1, KeyAsked
  <2>3. (~keysPage.view[k]) \in BOOLEAN
    OBVIOUS
  <2>4. call \in KeyCall /\ call.kind # "create"
    BY <2>2, <2>3 DEF KeyCall
  <2>5. SendKeyCall(call)
    BY <1>3 DEF ToggleKey
  <2> HIDE DEF call
  <2>6. keyCalls' \in [Slot -> KeyCall] /\ Out(keyCalls, "create")' = Out(keyCalls, "create")
    BY <2>4, <2>5, KeySending
  <2> QED
    BY <1>3, <1>t, <2>6, KeyActCounts, CreationsKept DEF ToggleKey, KeysTypeOK
<1>4. ASSUME NEW k \in Key, DeleteKey(k)
      PROVE  KeysInv'
  <2>1. k \in 0 .. MaxKeys
    BY KeysAssumption DEF Key
  <2>2. KeyAsk("delete", k) \in KeyCall /\ KeyAsk("delete", k).kind # "create"
    BY <2>1, KeyAsked
  <2>3. keyCalls' \in [Slot -> KeyCall] /\ Out(keyCalls, "create")' = Out(keyCalls, "create")
    BY <1>4, <2>2, KeySending DEF DeleteKey
  <2> QED
    BY <1>4, <1>t, <2>3, KeyActCounts, CreationsKept DEF DeleteKey, KeysTypeOK
<1> QED
  BY <1>1, <1>2, <1>3, <1>4

\* A submission: no other is out, and no key is kept.
LEMMA Submitting ==
    ASSUME KeysInv, SubmitKey
    PROVE  KeysInv'
<1>t. /\ keysPage \in KeysPageState /\ keyCalls \in [Slot -> KeyCall]
  BY DEF KeysInv, KeysTypeOK
<1>1. /\ keysPage' = [keysPage EXCEPT !.submitting = TRUE]
      /\ SendKeyCall(KeyAsk("create", 0))
      /\ keysPage.created = 0 /\ ~keysPage.submitting /\ keysPage.open
      /\ UNCHANGED <<keyTable, keySerial>> /\ KeyAct
  BY DEF SubmitKey, CanSubmitKey
<1>2. 0 \in 0 .. MaxKeys
  BY KeysAssumption
<1>3. /\ KeyAsk("create", 0) \in KeyCall
      /\ KeyAsk("create", 0).kind = "create" /\ KeyAsk("create", 0).mine
  BY <1>2, KeyAsked
<1>4. PICK s \in Free(keyCalls) : keyCalls' = [keyCalls EXCEPT ![s] = KeyAsk("create", 0)]
  BY <1>1 DEF SendKeyCall
<1>5. s \in Slot /\ keyCalls[s].kind = "idle"
  BY <1>4 DEF Free
<1>6. Out(keyCalls, "create") = {}
  BY <1>1 DEF KeysInv, OneKeyAtATime
<1>7. /\ keyCalls' \in [Slot -> KeyCall]
      /\ \A r \in Slot : (keyCalls'[r].kind = "create" /\ keyCalls'[r].mine) <=> r = s
  BY <1>t, <1>3, <1>4, <1>5, <1>6 DEF Out
<1>8. Out(keyCalls, "create")' = {s}
  BY <1>5, <1>7 DEF Out
<1>m. keysPage.mounted
  BY <1>1 DEF KeysInv, GoneMakesNone
<1>9. /\ keysPage' \in KeysPageState /\ keysPage'.submitting /\ keysPage'.created = 0
      /\ keysPage'.mounted
  BY <1>t, <1>1, <1>m DEF KeysPageState
<1>10. KeysTypeOK'
  BY <1>1, <1>7, <1>9, KeyActCounts DEF KeysInv, KeysTypeOK
<1> QED
  BY <1>8, <1>9, <1>10 DEF KeysInv, OneKeyAtATime, KeptAlone, GoneMakesNone

\* The page is left, or opened again.
LEMMA ComingAndGoing ==
    ASSUME KeysInv, LeaveKeys \/ ReturnToKeys
    PROVE  KeysInv'
<1>t. keyCalls \in [Slot -> KeyCall]
  BY DEF KeysInv, KeysTypeOK
<1>1. CASE LeaveKeys
  <2>1. /\ keysPage' \in KeysPageState /\ ~keysPage'.submitting
        /\ keysPage'.created = 0 /\ ~keysPage'.open
    BY <1>1, KeyStartValues DEF LeaveKeys, KeysPageState, FreshKeysPage
  <2>2. \A s \in Slot : /\ [keyCalls[s] EXCEPT !.mine = FALSE] \in KeyCall
                        /\ ~[keyCalls[s] EXCEPT !.mine = FALSE].mine
    BY <1>t DEF KeyCall
  <2>3. keyCalls' \in [Slot -> KeyCall] /\ \A s \in Slot : ~keyCalls'[s].mine
    BY <1>1, <2>2 DEF LeaveKeys, Orphaned
  <2>4. Out(keyCalls, "create")' = {}
    BY <2>3 DEF Out
  <2>5. KeysTypeOK'
    BY <1>1, <2>1, <2>3, KeyActCounts DEF LeaveKeys, KeysInv, KeysTypeOK
  <2> QED
    BY <2>1, <2>4, <2>5 DEF KeysInv, OneKeyAtATime, KeptAlone, GoneMakesNone
<1>2. CASE ReturnToKeys
  <2>1. 0 \in 0 .. MaxKeys
    BY KeysAssumption
  <2>2. AskKeys \in KeyCall /\ AskKeys.kind # "create"
    BY <2>1, KeyAsked DEF AskKeys
  <2>3. keyCalls' \in [Slot -> KeyCall] /\ Out(keyCalls, "create")' = Out(keyCalls, "create")
    BY <1>2, <2>2, KeySending DEF ReturnToKeys
  <2>4. /\ keysPage' \in KeysPageState /\ ~keysPage'.submitting
        /\ keysPage'.created = 0 /\ keysPage'.mounted
    BY <1>2, KeyStartValues DEF ReturnToKeys, FreshKeysPage
  <2>5. Out(keyCalls, "create") = {}
    BY <1>2 DEF ReturnToKeys, KeysInv, GoneMakesNone, OneKeyAtATime
  <2>6. KeysTypeOK'
    BY <1>2, <2>3, <2>4 DEF ReturnToKeys, KeysInv, KeysTypeOK
  <2> QED
    BY <2>3, <2>4, <2>5, <2>6 DEF KeysInv, OneKeyAtATime, KeptAlone, GoneMakesNone
<1> QED
  BY <1>1, <1>2

\* The server executes a call: its kind and its page stay.
LEMMA KeyServing ==
    ASSUME KeysInv, NEW s \in Slot, NEW state \in CallState, NEW list \in KeyList,
           NEW id \in 0 .. MaxKeys, KeyServed(s, state, list, id)
    PROVE  /\ keyCalls' \in [Slot -> KeyCall]
           /\ Out(keyCalls, "create")' = Out(keyCalls, "create")
<1>1. keyCalls \in [Slot -> KeyCall]
  BY DEF KeysInv, KeysTypeOK
<1> DEFINE call == [keyCalls[s] EXCEPT !.state = state, !.list = list, !.id = id]
<1>2. /\ call \in KeyCall
      /\ call.kind = keyCalls[s].kind /\ call.mine = keyCalls[s].mine
  BY <1>1 DEF KeyCall
<1>3. keyCalls' = [keyCalls EXCEPT ![s] = call]
  BY <1>1 DEF KeyServed
<1> HIDE DEF call
<1>4. keyCalls' \in [Slot -> KeyCall]
  BY <1>1, <1>2, <1>3
<1>5. \A r \in Slot : (keyCalls'[r].kind = "create" /\ keyCalls'[r].mine)
                      <=> (keyCalls[r].kind = "create" /\ keyCalls[r].mine)
  BY <1>1, <1>2, <1>3
<1> QED
  BY <1>4, <1>5, SameCreations

\* The server reads or writes the table of keys.
LEMMA KeyServer ==
    ASSUME KeysInv, NEW s \in Slot,
           ServeKeyList(s) \/ ServeKeyUpdate(s) \/ ServeKeyCreate(s)
    PROVE  KeysInv'
<1>t. /\ keyCalls[s] \in KeyCall /\ keyTable \in KeyList /\ keySerial \in 0 .. MaxKeys
      /\ keyCalls[s].id \in 0 .. MaxKeys /\ keyCalls[s].enabled \in BOOLEAN
      /\ 0 \in 0 .. MaxKeys
  BY KeysAssumption DEF KeysInv, KeysTypeOK, KeyCall
<1>p. UNCHANGED <<keysPage, keyActs>>
  BY DEF ServeKeyList, ServeKeyUpdate, ServeKeyCreate
<1>1. ASSUME keyTable' \in KeyList, keySerial' \in 0 .. MaxKeys,
             keyCalls' \in [Slot -> KeyCall],
             Out(keyCalls, "create")' = Out(keyCalls, "create")
      PROVE  KeysInv'
  <2>1. KeysTypeOK'
    BY <1>1, <1>p DEF KeysInv, KeysTypeOK
  <2> QED
    BY <1>1, <1>p, <2>1, CreationsKept
<1>2. CASE ServeKeyList(s)
  <2>1. \/ KeyServed(s, "ok", keyTable, 0)
        \/ KeyServed(s, "error", NoKeys, 0)
    BY <1>2 DEF ServeKeyList
  <2>2. keyCalls' \in [Slot -> KeyCall] /\ Out(keyCalls, "create")' = Out(keyCalls, "create")
    BY <2>1, <1>t, KeyStartValues, KeyServing DEF CallState
  <2> QED
    BY <1>1, <1>2, <1>t, <2>2 DEF ServeKeyList
<1>3. CASE ServeKeyUpdate(s)
  <2> DEFINE call == keyCalls[s]
             after == IF call.kind = "delete" THEN NoKey ELSE call.enabled
  <2>1. PICK done \in BOOLEAN, state \in {"ok", "error"} :
          /\ keyTable' = [keyTable EXCEPT
                 ![call.id] = IF done /\ @ # NoKey THEN after ELSE @]
          /\ KeyServed(s, state, NoKeys, call.id)
    BY <1>3 DEF ServeKeyUpdate
  <2>2. after \in BOOLEAN \union {NoKey}
    BY <1>t
  <2> HIDE DEF after
  <2>3. keyTable' \in KeyList
    BY <1>t, <2>1, <2>2 DEF KeyList
  <2>4. keyCalls' \in [Slot -> KeyCall] /\ Out(keyCalls, "create")' = Out(keyCalls, "create")
    BY <2>1, <1>t, KeyStartValues, KeyServing DEF CallState
  <2> QED
    BY <1>1, <1>3, <1>t, <2>3, <2>4 DEF ServeKeyUpdate
<1>4. CASE ServeKeyCreate(s)
  <2>1. PICK done \in BOOLEAN, state \in {"ok", "error"} :
          /\ state = "ok" => done
          /\ done => keySerial < MaxKeys
          /\ keySerial' = IF done THEN keySerial + 1 ELSE keySerial
          /\ keyTable' = IF done THEN [keyTable EXCEPT ![keySerial'] = TRUE] ELSE keyTable
          /\ KeyServed(s, state, NoKeys, IF state = "ok" THEN keySerial' ELSE 0)
    BY <1>4 DEF ServeKeyCreate
  <2>2. keySerial' \in 0 .. MaxKeys
    BY <1>t, <2>1, KeysAssumption
  <2>3. keyTable' \in KeyList
    BY <1>t, <2>1 DEF KeyList
  <2>4. (IF state = "ok" THEN keySerial' ELSE 0) \in 0 .. MaxKeys
    BY <1>t, <2>2
  <2>5. keyCalls' \in [Slot -> KeyCall] /\ Out(keyCalls, "create")' = Out(keyCalls, "create")
    BY <2>1, <2>4, KeyStartValues, KeyServing DEF CallState
  <2> QED
    BY <1>1, <2>2, <2>3, <2>5
<1> QED
  BY <1>2, <1>3, <1>4

\* A call comes back: its slot is free again, or asks for the list.
LEMMA KeyComesBack ==
    ASSUME KeysInv, NEW s \in Slot, NEW p \in KeysPageState,
           EndKeyCall(s, p) \/ ReloadKeys(s, p)
    PROVE  /\ keyCalls' \in [Slot -> KeyCall]
           /\ Out(keyCalls, "create")' = Out(keyCalls, "create") \ {s}
           /\ keysPage' \in KeysPageState
           /\ ~keyCalls[s].mine => keysPage' = keysPage
           /\ keyCalls[s].mine =>
                  /\ keysPage'.created = p.created /\ keysPage'.submitting = p.submitting
                  /\ keysPage'.mounted = p.mounted /\ keysPage'.open = p.open
           /\ UNCHANGED <<keyTable, keySerial, keyActs>>
<1>t. /\ keyCalls \in [Slot -> KeyCall] /\ keysPage \in KeysPageState
      /\ keyCalls[s].mine \in BOOLEAN
  BY DEF KeysInv, KeysTypeOK, KeyCall
<1> DEFINE list == [AskKeys EXCEPT !.mine = keyCalls[s].mine]
<1>1. NoKeyCall \in KeyCall /\ NoKeyCall.kind # "create"
  BY KeyStartValues
<1>2. AskKeys \in KeyCall /\ AskKeys.kind = "list"
  BY KeysAssumption, KeyAsked DEF AskKeys
<1>3. list \in KeyCall /\ list.kind # "create"
  BY <1>t, <1>2 DEF KeyCall
<1>4. PICK call \in KeyCall : /\ call.kind # "create"
                              /\ keyCalls' = [keyCalls EXCEPT ![s] = call]
  BY <1>1, <1>3 DEF EndKeyCall, ReloadKeys
<1>5. \A r \in Slot : (keyCalls'[r].kind = "create" /\ keyCalls'[r].mine)
                      <=> (r # s /\ keyCalls[r].kind = "create" /\ keyCalls[r].mine)
  BY <1>t, <1>4
<1>6. Out(keyCalls, "create")' = Out(keyCalls, "create") \ {s}
  BY <1>5 DEF Out
<1>7. [p EXCEPT !.loading = TRUE] \in KeysPageState
  BY DEF KeysPageState
<1>8. keysPage' = IF keyCalls[s].mine
                  THEN (IF EndKeyCall(s, p) THEN p ELSE [p EXCEPT !.loading = TRUE])
                  ELSE keysPage
  BY DEF EndKeyCall, ReloadKeys
<1>9. /\ keysPage' \in KeysPageState
      /\ keyCalls[s].mine =>
             /\ keysPage'.created = p.created /\ keysPage'.submitting = p.submitting
             /\ keysPage'.mounted = p.mounted /\ keysPage'.open = p.open
  BY <1>t, <1>7, <1>8 DEF KeysPageState
<1> QED
  BY <1>t, <1>4, <1>6, <1>8, <1>9 DEF EndKeyCall, ReloadKeys

\* The rest of loadKeys, of handleToggle and of handleDelete.
LEMMA KeyHandlers ==
    ASSUME KeysInv, NEW s \in Slot, KeysListed(s) \/ KeyUpdated(s)
    PROVE  /\ KeysInv' /\ keysPage'.created = keysPage.created
<1>t. keysPage \in KeysPageState /\ keyCalls[s] \in KeyCall
  BY DEF KeysInv, KeysTypeOK
<1> DEFINE listed == [keysPage EXCEPT
               !.loading = FALSE,
               !.view = IF Succeeded(keyCalls, s) THEN keyCalls[s].list ELSE @]
<1>1. /\ listed \in KeysPageState
      /\ listed.created = keysPage.created /\ listed.submitting = keysPage.submitting
      /\ listed.mounted = keysPage.mounted /\ listed.open = keysPage.open
  BY <1>t DEF KeysPageState, KeyCall
<1>2. PICK p \in KeysPageState :
          /\ EndKeyCall(s, p) \/ ReloadKeys(s, p)
          /\ p.created = keysPage.created /\ p.submitting = keysPage.submitting
          /\ p.mounted = keysPage.mounted /\ p.open = keysPage.open
  BY <1>t, <1>1 DEF KeysListed, KeyUpdated
<1>3. keyCalls[s].kind # "create"
  BY DEF KeysListed, KeyUpdated, Back
<1>4. /\ Out(keyCalls, "create")' = Out(keyCalls, "create")
      /\ keyCalls' \in [Slot -> KeyCall] /\ keysPage' \in KeysPageState
      /\ keysPage'.created = keysPage.created
      /\ keysPage'.submitting = keysPage.submitting
      /\ keysPage'.mounted = keysPage.mounted /\ keysPage'.open = keysPage.open
      /\ UNCHANGED <<keyTable, keySerial, keyActs>>
  BY <1>2, <1>3, KeyComesBack DEF Out
<1>5. KeysTypeOK'
  BY <1>4 DEF KeysInv, KeysTypeOK
<1> QED
  BY <1>4, <1>5, CreationsKept

\* handleCreate: its answer is the only one that is out.
LEMMA KeyCreation ==
    ASSUME KeysInv, NEW s \in Slot, KeyCreated(s)
    PROVE  /\ KeysInv'
           /\ keysPage.created # 0 => keysPage'.created = keysPage.created
<1>t. keysPage \in KeysPageState /\ keyCalls[s] \in KeyCall
  BY DEF KeysInv, KeysTypeOK
<1> DEFINE made == [keysPage EXCEPT !.submitting = FALSE, !.created = keyCalls[s].id]
           failed == [keysPage EXCEPT !.submitting = FALSE]
<1>1. /\ made \in KeysPageState /\ failed \in KeysPageState
      /\ ~made.submitting /\ ~failed.submitting
      /\ made.mounted = keysPage.mounted /\ failed.mounted = keysPage.mounted
      /\ failed.created = keysPage.created
  BY <1>t DEF KeysPageState, KeyCall
<1>2. PICK p \in KeysPageState :
          /\ EndKeyCall(s, p) \/ ReloadKeys(s, p)
          /\ ~p.submitting /\ p.mounted = keysPage.mounted
  BY <1>1 DEF KeyCreated
<1>3. keyCalls[s].kind = "create"
  BY DEF KeyCreated, Back
<1>4. /\ keyCalls' \in [Slot -> KeyCall] /\ keysPage' \in KeysPageState
      /\ Out(keyCalls, "create")' = Out(keyCalls, "create") \ {s}
      /\ UNCHANGED <<keyTable, keySerial, keyActs>>
  BY <1>2, KeyComesBack
<1>5. KeysTypeOK'
  BY <1>4 DEF KeysInv, KeysTypeOK
<1>6. CASE ~keyCalls[s].mine
  <2>1. keysPage' = keysPage
    BY <1>2, <1>6, KeyComesBack
  <2>2. Out(keyCalls, "create")' = Out(keyCalls, "create")
    BY <1>4, <1>6 DEF Out
  <2> QED
    BY <1>5, <2>1, <2>2, CreationsKept DEF KeysInv, GoneMakesNone
<1>7. CASE keyCalls[s].mine
  <2>1. s \in Out(keyCalls, "create")
    BY <1>3, <1>7 DEF Out
  <2>2. /\ keysPage.submitting /\ keysPage.mounted /\ keysPage.created = 0
        /\ Out(keyCalls, "create") \ {s} = {}
    BY <2>1 DEF KeysInv, OneKeyAtATime, KeptAlone, GoneMakesNone
  <2>3. ~keysPage'.submitting /\ keysPage'.mounted
    BY <1>2, <1>7, <2>2, KeyComesBack
  <2> QED
    BY <1>4, <1>5, <2>2, <2>3 DEF KeysInv, OneKeyAtATime, KeptAlone, GoneMakesNone
<1> QED
  BY <1>6, <1>7

\* At the start the page is not open and no call is out.
LEMMA KeysStart == KeysInit => KeysInv
<1> SUFFICES ASSUME KeysInit
             PROVE  KeysInv
  OBVIOUS
<1>1. PICK k \in 0 .. MaxKeys :
        /\ keySerial = k
        /\ keyTable = [l \in Key |-> IF l <= k THEN TRUE ELSE NoKey]
  BY DEF KeysInit
<1>2. keyTable \in KeyList /\ keySerial \in 0 .. MaxKeys
  BY <1>1 DEF KeyList
<1>3. AskKeys \in KeyCall /\ AskKeys.kind = "list"
  BY KeysAssumption, KeyAsked DEF AskKeys
<1>4. /\ keyCalls \in [Slot -> KeyCall]
      /\ \A s \in Slot : keyCalls[s].kind # "create"
  BY <1>3, KeyStartValues DEF KeysInit
<1>5. /\ keysPage \in KeysPageState /\ ~keysPage.submitting /\ keysPage.mounted
      /\ keysPage.created = 0
  BY KeyStartValues DEF KeysInit, FreshKeysPage
<1>6. keyActs \in 0 .. MaxKeyActs
  BY KeysAssumption DEF KeysInit
<1>7. Out(keyCalls, "create") = {}
  BY <1>4 DEF Out
<1> QED
  BY <1>2, <1>4, <1>5, <1>6, <1>7 DEF KeysInv, KeysTypeOK, OneKeyAtATime, KeptAlone, GoneMakesNone

\* A step of the page keeps the invariant.
LEMMA KeysStep == KeysInv /\ [KeysNext]_keysVars => KeysInv'
<1> SUFFICES ASSUME KeysInv, [KeysNext]_keysVars
             PROVE  KeysInv'
  OBVIOUS
<1>1. CASE UNCHANGED keysVars
  BY <1>1 DEF keysVars, KeysInv, KeysTypeOK, OneKeyAtATime, KeptAlone, GoneMakesNone, Out
<1>2. CASE KeysNext
  BY <1>2, KeyActs, Submitting, ComingAndGoing, KeyServer, KeyHandlers, KeyCreation
     DEF KeysNext, KeyCallStep
<1> QED
  BY <1>1, <1>2

\* Every variable of the key page stays in its domain.
THEOREM KeysTypeCorrect == KeysSpec => []KeysTypeOK
<1>1. KeysInv => KeysTypeOK
  BY DEF KeysInv
<1> QED
  BY <1>1, KeysStart, KeysStep, PTL DEF KeysSpec

\* handleCreate is never out twice, and the button of the dialog says so,
\* whatever was closed, opened and left meanwhile.
THEOREM OneKeyAtATimeHolds == KeysSpec => []OneKeyAtATime
<1>1. KeysInv => OneKeyAtATime
  BY DEF KeysInv
<1> QED
  BY <1>1, KeysStart, KeysStep, PTL DEF KeysSpec

\* A key that the open dialog shows is replaced by no step: only the user's
\* closing forgets it.
LEMMA KeyStays ==
    ASSUME KeysInv, [KeysNext]_keysVars,
           keysPage.open, keysPage.created # 0, keysPage'.open
    PROVE  keysPage'.created = keysPage.created
<1>t. keysPage \in KeysPageState
  BY DEF KeysInv, KeysTypeOK
<1>1. CASE UNCHANGED keysVars
  BY <1>1 DEF keysVars
<1>2. CASE RefreshKeys \/ \E k \in Key : ToggleKey(k) \/ DeleteKey(k)
  BY <1>2, <1>t DEF RefreshKeys, ToggleKey, DeleteKey, KeysPageState
<1>3. CASE OpenKeyDialog \/ FillKeyDialog \/ SubmitKey \/ LeaveKeys
  BY <1>3 DEF OpenKeyDialog, FillKeyDialog, SubmitKey, CanSubmitKey, LeaveKeys
<1>4. CASE CloseKeyDialog
  BY <1>4, <1>t DEF CloseKeyDialog, KeysPageState
<1>5. CASE ReturnToKeys
  BY <1>5 DEF ReturnToKeys, KeysInv, GoneMakesNone
<1>6. ASSUME NEW s \in Slot, ServeKeyList(s) \/ ServeKeyUpdate(s) \/ ServeKeyCreate(s)
      PROVE  keysPage'.created = keysPage.created
  BY <1>6 DEF ServeKeyList, ServeKeyUpdate, ServeKeyCreate
<1>7. ASSUME NEW s \in Slot, KeysListed(s) \/ KeyUpdated(s) \/ KeyCreated(s)
      PROVE  keysPage'.created = keysPage.created
  BY <1>7, KeyHandlers, KeyCreation
<1> QED
  BY <1>1, <1>2, <1>3, <1>4, <1>5, <1>6, <1>7 DEF KeysNext, KeyCallStep

\* The only copy of a key's text stays until its user closes the dialog.
THEOREM KeyStaysUntilClosedHolds == KeysSpec => KeyStaysUntilClosed
<1>1. KeysInv /\ [KeysNext]_keysVars
      => [keysPage.open /\ keysPage.created # 0 /\ keysPage'.open
              => keysPage'.created = keysPage.created]_keysVars
  BY KeyStays
<1> QED
  BY <1>1, KeysStart, KeysStep, PTL DEF KeysSpec, KeyStaysUntilClosed
=============================================================================
