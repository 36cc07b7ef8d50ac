-------------------------- MODULE FilesPageProofs --------------------------
(***************************************************************************)
(* What is proved about the file browser.                                  *)
(***************************************************************************)
EXTENDS FilesPage, TLAPS

-----------------------------------------------------------------------------
(***************************************************************************)
(* Sequences of calls.                                                     *)
(***************************************************************************)

\* Where the m-th call was before the n-th one was taken out.
Before(m, n) == IF m < n THEN m ELSE m + 1

\* The call that is settled leaves the list, and the others keep their
\* order.
LEMMA Removed ==
    ASSUME NEW S, NEW s \in Seq(S), NEW n \in DOMAIN s
    PROVE  /\ RemoveAt(s, n) \in Seq(S) /\ Len(RemoveAt(s, n)) = Len(s) - 1
           /\ \A m \in DOMAIN RemoveAt(s, n) :
                  /\ m \in 1 .. Len(s) - 1 /\ Before(m, n) \in DOMAIN s
                  /\ RemoveAt(s, n)[m] = s[Before(m, n)]
<1> DEFINE a == SubSeq(s, 1, n - 1)
           b == SubSeq(s, n + 1, Len(s))
<1>1. /\ Len(s) \in Nat /\ n \in 1 .. Len(s) /\ DOMAIN s = 1 .. Len(s)
      /\ a \in Seq(S) /\ b \in Seq(S)
  OBVIOUS
<1>2. /\ Len(a) = n - 1 /\ \A m \in 1 .. n - 1 : a[m] = s[m]
      /\ Len(b) = Len(s) - n /\ \A m \in 1 .. Len(s) - n : b[m] = s[n + m]
  BY <1>1
<1>3. RemoveAt(s, n) = a \o b
  BY DEF RemoveAt
<1> HIDE DEF a, b
<1>4. /\ a \o b \in Seq(S) /\ Len(a \o b) = Len(a) + Len(b)
      /\ \A m \in 1 .. Len(a) + Len(b) :
             (a \o b)[m] = IF m <= Len(a) THEN a[m] ELSE b[m - Len(a)]
  BY <1>1
<1>5. Len(a \o b) = Len(s) - 1 /\ DOMAIN (a \o b) = 1 .. Len(s) - 1
  <2>1. DOMAIN (a \o b) = 1 .. Len(a \o b)
    BY <1>4
  <2>2. Len(a) + Len(b) = Len(s) - 1
    BY <1>1, <1>2
  <2> QED
    BY <1>4, <2>1, <2>2
<1>6. ASSUME NEW m \in 1 .. Len(s) - 1
      PROVE  Before(m, n) \in DOMAIN s /\ (a \o b)[m] = s[Before(m, n)]
  <2>1. CASE m < n
    BY <1>1, <1>2, <1>4, <2>1 DEF Before
  <2>2. CASE ~(m < n)
    <3>1. /\ ~(m <= Len(a)) /\ m - Len(a) \in 1 .. Len(s) - n
          /\ m \in 1 .. Len(a) + Len(b) /\ n + (m - Len(a)) = m + 1
      BY <1>1, <1>2, <2>2
    <3>2. (a \o b)[m] = b[m - Len(a)] /\ b[m - Len(a)] = s[n + (m - Len(a))]
      BY <1>2, <1>4, <3>1
    <3> QED
      BY <1>1, <2>2, <3>1, <3>2 DEF Before
  <2> QED
    BY <2>1, <2>2
<1> QED
  BY <1>3, <1>4, <1>5, <1>6

\* A call that is sent comes last.
LEMMA Appended ==
    ASSUME NEW S, NEW s \in Seq(S), NEW c \in S
    PROVE  /\ Append(s, c) \in Seq(S) /\ Len(Append(s, c)) = Len(s) + 1
           /\ DOMAIN Append(s, c) = DOMAIN s \union {Len(s) + 1}
           /\ Append(s, c)[Len(s) + 1] = c
           /\ \A m \in DOMAIN s : Append(s, c)[m] = s[m]
  OBVIOUS

-----------------------------------------------------------------------------
(***************************************************************************)
(* Type correctness.                                                       *)
(***************************************************************************)

Bare == [i \in Item |-> None]

\* The page as it is first rendered.
LEMMA StartValues ==
    /\ FreshPage \in Page /\ Len(FreshPage.path) = 1 /\ FreshPage.path[1] = Root
    /\ FreshPage.mounted /\ FreshPage.loading /\ FreshPage.selected = {}
    /\ ~FreshPage.deleting /\ ~FreshPage.submitting /\ QueryOf(FreshPage) = Root
<1>1. <<Root>> \in Seq(Folder \union {Root}) /\ [i \in Item |-> None] \in Listing
  BY DEF Listing
<1> QED
  BY <1>1 DEF FreshPage, Page, QueryOf, Last

\* A page shows a folder or a search.
LEMMA QueryOfPage ==
    ASSUME NEW p \in Page, Len(p.path) > 0
    PROVE  /\ FolderOf(p) \in Folder \union {Root}
           /\ QueryOf(p) \in Query
           /\ p.keyword = None => QueryOf(p) = FolderOf(p)
<1>1. p.path \in Seq(Folder \union {Root}) /\ p.keyword \in Name \union {None}
  BY DEF Page
<1>2. Last(p.path) \in Folder \union {Root}
  BY <1>1 DEF Last
<1> QED
  BY <1>1, <1>2 DEF FolderOf, QueryOf, Query

\* What a handler sends.
LEMMA SentCall ==
    ASSUME NEW kind \in Kinds, NEW query \in Query, NEW items \in SUBSET Item,
           NEW name \in Name \union {None}
    PROVE  /\ Sent(kind, query, items, name) \in Call
           /\ Sent(kind, query, items, name).kind = kind
           /\ Sent(kind, query, items, name).query = query
           /\ Sent(kind, query, items, name).items = items
           /\ Sent(kind, query, items, name).name = name
           /\ Sent(kind, query, items, name).mine
           /\ Sent(kind, query, items, name).state = "sent"
  BY DEF Sent, Call, Listing

\* What the effect of a page sends.
LEMMA LoadCall ==
    ASSUME NEW p \in Page, Len(p.path) > 0
    PROVE  /\ Load(p) \in Call /\ Load(p).kind = "load" /\ Load(p).mine
           /\ Load(p).query = QueryOf(p) /\ Load(p).state = "sent"
  BY QueryOfPage, SentCall DEF Load, Kinds

\* Sending adds one call of the page at the end.
LEMMA Sending ==
    ASSUME TypeOK, NEW call \in Call, Send(call)
    PROVE  /\ calls' \in Seq(Call) /\ Len(calls') <= MaxCalls
           /\ Len(calls') = Len(calls) + 1
           /\ DOMAIN calls' = DOMAIN calls \union {Len(calls) + 1}
           /\ Len(calls) + 1 \notin DOMAIN calls
           /\ calls'[Len(calls) + 1] = call
           /\ \A m \in DOMAIN calls : calls'[m] = calls[m]
           /\ lone' \in BOOLEAN
<1>1. calls \in Seq(Call) /\ Len(calls) < MaxCalls /\ calls' = Append(calls, call)
  BY DEF TypeOK, Send, CanSend
<1>2. MaxCalls \in Nat /\ Len(calls) \in Nat
  BY <1>1, FilesPageAssumption
<1>3. lone' \in BOOLEAN
  BY DEF Send, TypeOK
<1> QED
  BY <1>1, <1>2, <1>3, Appended

\* Acts are counted.
LEMMA ActCounts ==
    ASSUME TypeOK, acts < MaxActs, acts' = acts + 1
    PROVE  acts' \in 0 .. MaxActs
  BY FilesPageAssumption DEF TypeOK

\* What is known of a call.
LEMMA CallFields ==
    ASSUME calls \in Seq(Call), NEW n \in DOMAIN calls
    PROVE  /\ calls[n] \in Call /\ calls[n].kind \in Kinds
           /\ calls[n].query \in Query /\ calls[n].items \in SUBSET Item
           /\ calls[n].name \in Name \union {None} /\ calls[n].mine \in BOOLEAN
           /\ calls[n].state \in {"sent", "ok", "error"}
           /\ calls[n].answer \in Listing
<1>1. calls[n] \in Call
  OBVIOUS
<1> QED
  BY <1>1 DEF Call

\* The calls of a page that is gone.
LEMMA Orphaned ==
    ASSUME calls \in Seq(Call),
           calls' = [n \in DOMAIN calls |-> [calls[n] EXCEPT !.mine = FALSE]]
    PROVE  /\ calls' \in Seq(Call) /\ Len(calls') = Len(calls)
           /\ DOMAIN calls' = DOMAIN calls
           /\ \A n \in DOMAIN calls : calls'[n] = [calls[n] EXCEPT !.mine = FALSE]
<1>1. ASSUME NEW n \in DOMAIN calls
      PROVE  [calls[n] EXCEPT !.mine = FALSE] \in Call
  BY CallFields DEF Call
<1>2. /\ DOMAIN calls = 1 .. Len(calls) /\ Len(calls) \in Nat
      /\ DOMAIN calls' = 1 .. Len(calls)
      /\ \A n \in 1 .. Len(calls) : calls'[n] \in Call
  BY <1>1
<1>3. calls' \in [1 .. Len(calls) -> Call]
  BY <1>1, <1>2
<1>4. calls' \in Seq(Call)
  BY <1>2, <1>3
<1> QED
  BY <1>2, <1>4

\* A page that an act shows.
LEMMA Shown ==
    ASSUME TypeOK, NEW p \in Page, Len(p.path) > 0, p.path[1] = Root, Show(p)
    PROVE  /\ page' \in Page /\ page'.path = p.path
           /\ calls' \in Seq(Call) /\ Len(calls') <= MaxCalls /\ lone' \in BOOLEAN
<1>1. Cleared(p) \in Page /\ Cleared(p).path = p.path
  BY DEF Cleared, Page
<1>2. CASE Requeries(p)
  BY <1>1, <1>2, LoadCall, Sending DEF Show
<1>3. CASE ~Requeries(p)
  BY <1>3 DEF Show, TypeOK
<1> QED
  BY <1>2, <1>3

\* Navigation.
LEMMA NavigatingType ==
    ASSUME TypeOK, Navigating
    PROVE  TypeOK'
<1>t. /\ page \in Page /\ page.path \in Seq(Folder \union {Root})
      /\ Len(page.path) > 0 /\ page.path[1] = Root
      /\ page.menu \in Item \union {None} /\ calls \in Seq(Call)
      /\ orderly \in BOOLEAN /\ QueryOf(page) \in Query
  BY QueryOfPage DEF TypeOK, Page
<1>1. ASSUME NEW i \in Item, OpenFolder(i)
      PROVE  TypeOK'
  <2> DEFINE p == [page EXCEPT !.path = Append(@, i), !.keyword = None, !.menu = None]
  <2>1. i \in Folder /\ Show(p)
    BY <1>1 DEF OpenFolder
  <2>2. /\ Append(page.path, i) \in Seq(Folder \union {Root})
        /\ Len(Append(page.path, i)) > 0 /\ Append(page.path, i)[1] = Root
    BY <1>t, <2>1
  <2>3. p \in Page /\ p.path = Append(page.path, i)
    BY <1>t, <2>2 DEF Page
  <2> HIDE DEF p
  <2> QED
    BY <1>1, <2>1, <2>2, <2>3, Shown, ActCounts DEF OpenFolder, Act, TypeOK
<1>2. ASSUME NEW n \in 1 .. Len(page.path), OpenBreadcrumb(n)
      PROVE  TypeOK'
  <2> DEFINE p == [page EXCEPT !.path = CrumbsTo(@, n), !.keyword = None, !.menu = None]
  <2>1. Show(p)
    BY <1>2 DEF OpenBreadcrumb
  <2>2. /\ CrumbsTo(page.path, n) \in Seq(Folder \union {Root})
        /\ Len(CrumbsTo(page.path, n)) > 0 /\ CrumbsTo(page.path, n)[1] = Root
    BY <1>t DEF CrumbsTo
  <2>3. p \in Page /\ p.path = CrumbsTo(page.path, n)
    BY <1>t, <2>2 DEF Page
  <2> HIDE DEF p
  <2> QED
    BY <1>2, <2>1, <2>2, <2>3, Shown, ActCounts DEF OpenBreadcrumb, Act, TypeOK
<1>3. ASSUME NEW k \in Name \union {None}, Search(k)
      PROVE  TypeOK'
  <2> DEFINE p == [page EXCEPT !.keyword = k]
  <2>1. Show(p)
    BY <1>3 DEF Search
  <2>2. p \in Page /\ p.path = page.path
    BY <1>t DEF Page
  <2> HIDE DEF p
  <2> QED
    BY <1>t, <1>3, <2>1, <2>2, Shown, ActCounts DEF Search, Act, TypeOK
<1>4. ASSUME NEW i \in Item, OpenVideo(i)
      PROVE  TypeOK'
  <2>1. page' \in Page /\ page'.path = page.path
    BY <1>t, <1>4 DEF OpenVideo, Page
  <2> QED
    BY <1>4, <2>1, ActCounts DEF OpenVideo, Act, TypeOK
<1>5. ASSUME NEW i \in Item, Preview(i)
      PROVE  TypeOK'
  <2>1. page' \in Page /\ page'.path = page.path
    BY <1>t, <1>5 DEF Preview, Page
  <2>2. Sent("info", QueryOf(page), {i}, None) \in Call
    BY <1>t, SentCall DEF Kinds
  <2> QED
    BY <1>5, <2>1, <2>2, ActCounts, Sending DEF Preview, Act, TypeOK
<1>6. ASSUME CloseViewer
      PROVE  TypeOK'
  <2>1. page' \in Page /\ page'.path = page.path
    BY <1>t, <1>6 DEF CloseViewer, Page
  <2> QED
    BY <1>6, <2>1, ActCounts DEF CloseViewer, Act, TypeOK
<1>7. ASSUME Leave
      PROVE  TypeOK'
  <2>1. page' \in Page /\ page'.path = page.path
    BY <1>t, <1>7 DEF Leave, Page
  <2>2. calls' \in Seq(Call) /\ Len(calls') = Len(calls)
    BY <1>t, <1>7, Orphaned DEF Leave
  <2> QED
    BY <1>7, <2>1, <2>2, ActCounts DEF Leave, Act, TypeOK
<1>8. ASSUME Return
      PROVE  TypeOK'
  <2>1. Send(Load(FreshPage)) /\ page' = FreshPage
    BY <1>8 DEF Return
  <2>2. Load(FreshPage) \in Call
    BY StartValues, LoadCall
  <2> QED
    BY <1>8, <2>1, <2>2, StartValues, Sending DEF Return, TypeOK
<1> QED
  BY <1>1, <1>2, <1>3, <1>4, <1>5, <1>6, <1>7, <1>8 DEF Navigating

\* Acts on the files that are shown.
LEMMA EditingType ==
    ASSUME TypeOK, Editing
    PROVE  TypeOK'
<1>t. /\ page \in Page /\ page.selected \in SUBSET Item
      /\ Len(page.path) > 0 /\ page.path[1] = Root
      /\ page.menu \in Item \union {None} /\ page.renaming \in Item \union {None}
      /\ calls \in Seq(Call) /\ QueryOf(page) \in Query
  BY QueryOfPage DEF TypeOK, Page
<1>1. ASSUME NEW i \in Item, ToggleSelect(i)
      PROVE  TypeOK'
  <2>1. page' \in Page /\ page'.path = page.path
    BY <1>t, <1>1 DEF ToggleSelect, Page
  <2> QED
    BY <1>1, <2>1, ActCounts DEF ToggleSelect, Act, TypeOK
<1>2. ASSUME NEW i \in Item, DeleteSingle(i)
      PROVE  TypeOK'
  <2>1. page' \in Page /\ page'.path = page.path
    BY <1>t, <1>2 DEF DeleteSingle, Page
  <2>2. Sent("delete", QueryOf(page), {i}, None) \in Call
    BY <1>t, SentCall DEF Kinds
  <2> QED
    BY <1>2, <2>1, <2>2, ActCounts, Sending DEF DeleteSingle, Act, TypeOK
<1>3. ASSUME NEW i \in Item, OpenMenu(i)
      PROVE  TypeOK'
  <2>1. page' \in Page /\ page'.path = page.path
    BY <1>t, <1>3 DEF OpenMenu, Page
  <2> QED
    BY <1>3, <2>1, ActCounts DEF OpenMenu, Act, TypeOK
<1>4. ASSUME NEW name \in Name, ConfirmRename(name)
      PROVE  TypeOK'
  <2>1. page' \in Page /\ page'.path = page.path
    BY <1>t, <1>4 DEF ConfirmRename, Page
  <2>2. Sent("rename", QueryOf(page), {page.renaming}, name) \in Call
    BY <1>t, <1>4, SentCall DEF Kinds, ConfirmRename
  <2> QED
    BY <1>4, <2>1, <2>2, ActCounts, Sending DEF ConfirmRename, Act, TypeOK
<1>5. ASSUME Unselect
      PROVE  TypeOK'
  <2>1. page' \in Page /\ page'.path = page.path
    BY <1>t, <1>5 DEF Unselect, Page
  <2> QED
    BY <1>5, <2>1, ActCounts DEF Unselect, Act, TypeOK
<1>6. ASSUME BatchDelete
      PROVE  TypeOK'
  <2>1. page' \in Page /\ page'.path = page.path
    BY <1>t, <1>6 DEF BatchDelete, Page
  <2>2. Sent("batch", QueryOf(page), page.selected, None) \in Call
    BY <1>t, SentCall DEF Kinds
  <2> QED
    BY <1>6, <2>1, <2>2, ActCounts, Sending DEF BatchDelete, Act, TypeOK
<1>7. ASSUME CloseMenu \/ StartRename \/ CloseRename
      PROVE  TypeOK'
  <2>1. page' \in Page /\ page'.path = page.path
    BY <1>t, <1>7 DEF CloseMenu, StartRename, CloseRename, Page
  <2> QED
    BY <1>7, <2>1, ActCounts DEF CloseMenu, StartRename, CloseRename, Act, TypeOK
<1> QED
  BY <1>1, <1>2, <1>3, <1>4, <1>5, <1>6, <1>7 DEF Editing

\* The watcher's calls.
LEMMA WatchingType ==
    ASSUME TypeOK, Watching
    PROVE  TypeOK'
<1>1. page \in Page /\ Len(page.path) > 0 /\ FolderOf(page) \in Query
  BY QueryOfPage DEF TypeOK, Query
<1>2. /\ Sent("check", FolderOf(page), {}, None) \in Call
      /\ Sent("reload", FolderOf(page), {}, None) \in Call
  BY <1>1, SentCall DEF Kinds
<1>3. CASE Check
  BY <1>2, <1>3, ActCounts, Sending DEF Check, Act, TypeOK
<1>4. CASE DelayedReload
  BY <1>2, <1>4, ActCounts, Sending DEF DelayedReload, Act, TypeOK
<1> QED
  BY <1>3, <1>4 DEF Watching

\* An answer of the server.
LEMMA Answered ==
    ASSUME TypeOK, NEW n \in DOMAIN calls, NEW state \in {"ok", "error"},
           NEW answer \in Listing, Served(n, state, answer)
    PROVE  /\ calls' \in Seq(Call) /\ Len(calls') = Len(calls)
           /\ DOMAIN calls' = DOMAIN calls
           /\ calls'[n].state = state /\ calls'[n].answer = answer
           /\ calls'[n].kind = calls[n].kind /\ calls'[n].query = calls[n].query
           /\ calls'[n].items = calls[n].items /\ calls'[n].name = calls[n].name
           /\ calls'[n].mine = calls[n].mine
           /\ \A m \in DOMAIN calls : m # n => calls'[m] = calls[m]
<1>1. calls \in Seq(Call) /\ calls[n] \in Call
  BY DEF TypeOK
<1>2. [calls[n] EXCEPT !.state = state, !.answer = answer] \in Call
  BY <1>1 DEF Call
<1>3. calls' = [calls EXCEPT ![n] = [calls[n] EXCEPT !.state = state, !.answer = answer]]
  BY DEF Served
<1>4. calls'[n] = [calls[n] EXCEPT !.state = state, !.answer = answer]
  BY <1>1, <1>2, <1>3
<1>5. /\ calls'[n].state = state /\ calls'[n].answer = answer
      /\ calls'[n].kind = calls[n].kind /\ calls'[n].query = calls[n].query
      /\ calls'[n].items = calls[n].items /\ calls'[n].name = calls[n].name
      /\ calls'[n].mine = calls[n].mine
  BY <1>1, <1>4 DEF Call
<1> QED
  BY <1>1, <1>2, <1>3, <1>5

\* A listing of the server is one.
LEMMA Listings ==
    ASSUME TypeOK
    PROVE  /\ \A query \in Query : Answers(query) \subseteq Listing
           /\ \A items \in SUBSET Item : Without(remote, items) \in Listing
<1>1. \A folder : Answer(folder) \in Listing
  BY DEF TypeOK, Answer, Listing
<1>2. \A keyword \in Name : Cached(keyword) \subseteq Listing
  BY DEF Cached, Listing
<1>3. Merged \subseteq Listing
  BY DEF TypeOK, Merged, Answer, Listing
<1>4. \A items \in SUBSET Item : Without(remote, items) \in Listing
  BY DEF TypeOK, Without, Listing
<1> QED
  BY <1>1, <1>2, <1>3, <1>4 DEF Answers

\* The server.
LEMMA ServeType ==
    ASSUME TypeOK, NEW n \in DOMAIN calls, Serve(n)
    PROVE  TypeOK'
<1>t. /\ calls[n] \in Call /\ calls[n].answer \in Listing /\ remote \in Listing
      /\ calls[n].query \in Query /\ calls[n].items \in SUBSET Item
      /\ calls[n].name \in Name \union {None}
  BY CallFields DEF TypeOK
<1>1. CASE ServeRead(n)
  BY <1>t, <1>1, Answered DEF ServeRead, TypeOK
<1>4. CASE ServeList(n)
  <2>1. \E state \in {"ok", "error"}, answer \in Listing :
            /\ Served(n, state, answer)
            /\ orderly' \in BOOLEAN
    BY <1>t, <1>4, Listings DEF ServeList, TypeOK
  <2> QED
    BY <1>4, <2>1, Answered DEF ServeList, TypeOK
<1>2. CASE ServeDelete(n)
  <2>1. PICK state \in {"ok", "error"}, done \in SUBSET calls[n].items :
            /\ Served(n, state, calls[n].answer)
            /\ remote' = Without(remote, done)
            /\ orderly' = (orderly /\ InOrder(n) /\ state = "ok"
                                   /\ done = calls[n].items)
    BY <1>2 DEF ServeDelete
  <2>2. done \in SUBSET Item
    BY <1>t DEF Call
  <2> QED
    BY <1>t, <1>2, <2>1, <2>2, Listings, Answered DEF ServeDelete, TypeOK
<1>3. CASE ServeRename(n)
  <2>1. PICK state \in {"ok", "error"}, done \in BOOLEAN :
            /\ Served(n, state, calls[n].answer)
            /\ remote' = [i \in Item |->
                   IF done /\ i \in calls[n].items /\ remote[i] # None
                   THEN calls[n].name ELSE remote[i]]
            /\ orderly' = (orderly /\ InOrder(n) /\ state = "ok")
    BY <1>3 DEF ServeRename
  <2>2. remote' \in Listing
    BY <1>t, <2>1 DEF Call, Listing
  <2> QED
    BY <1>t, <1>3, <2>1, <2>2, Answered DEF ServeRename, TypeOK
<1> QED
  BY <1>1, <1>2, <1>3, <1>4 DEF Serve

\* A task ends.
LEMMA ArriveType ==
    ASSUME TypeOK, NEW i \in Item, Arrive(i)
    PROVE  TypeOK'
<1>1. remote' \in Listing
  BY DEF Arrive, TypeOK, Listing
<1> QED
  BY <1>1, ActCounts DEF Arrive, TypeOK

\* A call that is settled is gone.
LEMMA Settled ==
    ASSUME TypeOK, NEW n \in DOMAIN calls, calls' = RemoveAt(calls, n)
    PROVE  /\ calls' \in Seq(Call) /\ Len(calls') = Len(calls) - 1
           /\ DOMAIN calls' = 1 .. Len(calls) - 1 /\ Len(calls') <= MaxCalls
           /\ \A m \in DOMAIN calls' :
                  Before(m, n) \in DOMAIN calls /\ calls'[m] = calls[Before(m, n)]
<1>1. calls \in Seq(Call) /\ Len(calls) \in Nat /\ Len(calls) <= MaxCalls /\ MaxCalls \in Nat
  BY FilesPageAssumption DEF TypeOK
<1>2. /\ calls' \in Seq(Call) /\ Len(calls') = Len(calls) - 1
      /\ \A m \in DOMAIN calls' :
             Before(m, n) \in DOMAIN calls /\ calls'[m] = calls[Before(m, n)]
  BY <1>1, Removed
<1>3. DOMAIN calls' = 1 .. Len(calls) - 1
  BY <1>2
<1> QED
  BY <1>1, <1>2, <1>3

\* The rest of a handler.
LEMMA SettleType ==
    ASSUME TypeOK, NEW n \in DOMAIN calls, NEW p \in Page, p.path = page.path,
           Settle(n, p)
    PROVE  TypeOK'
<1>1. page' \in Page /\ page'.path = page.path
  BY DEF Settle, TypeOK
<1> QED
  BY <1>1, Settled DEF Settle, TypeOK

\* The files after a deletion or a rename.
LEMMA EditedFiles ==
    ASSUME NEW listing \in Listing, NEW items \in SUBSET Item,
           NEW name \in Name \union {None}
    PROVE  /\ Unlisted(listing, items) \in Listing
           /\ [i \in Item |-> IF i \in items /\ listing[i] # None
                              THEN name ELSE listing[i]] \in Listing
  BY DEF Unlisted, Listing

\* A page that has received a listing is a page.
LEMMA PageLoaded ==
    ASSUME page \in Page, NEW listing \in Listing
    PROVE  /\ [page EXCEPT !.loading = FALSE, !.files = listing] \in Page
           /\ [page EXCEPT !.loading = FALSE, !.files = listing].path = page.path
  BY DEF Page

\* The second halves of the handlers.
LEMMA DeliverType ==
    ASSUME TypeOK, NEW n \in DOMAIN calls, Deliver(n)
    PROVE  TypeOK'
<1>t. /\ page \in Page /\ page.files \in Listing /\ page.selected \in SUBSET Item
      /\ calls[n] \in Call /\ calls[n].answer \in Listing
      /\ calls[n].items \in SUBSET Item /\ calls[n].query \in Query
      /\ calls[n].name \in Name \union {None} /\ calls[n].mine \in BOOLEAN
  BY CallFields DEF TypeOK, Page
<1>1. CASE Loaded(n)
  <2> DEFINE p == [page EXCEPT !.loading = FALSE,
                       !.files = IF Ok(n) THEN calls[n].answer ELSE @]
  <2>0. (IF Ok(n) THEN calls[n].answer ELSE page.files) \in Listing
    BY <1>t
  <2>1. p \in Page /\ p.path = page.path
    BY <1>t, <2>0, PageLoaded, Zenon
  <2>2. Settle(n, p)
    BY <1>1 DEF Loaded
  <2> HIDE DEF p
  <2> QED
    BY <2>1, <2>2, SettleType
<1>2. CASE Checked(n)
  <2>1. CASE Settle(n, page)
    BY <1>t, <2>1, SettleType
  <2>2. ASSUME calls' = Append(RemoveAt(calls, n),
                   [Sent("refresh", calls[n].query, {}, None)
                       EXCEPT !.mine = calls[n].mine]),
               UNCHANGED <<remote, page, acts>>,
               orderly' = (orderly /\ n = 1 /\ calls[n].query = QueryOf(page)),
               lone' = (lone /\ (calls[n].mine => ListsInFlight = {}))
        PROVE  TypeOK'
    <3>1. [Sent("refresh", calls[n].query, {}, None)
               EXCEPT !.mine = calls[n].mine] \in Call
      <4>1. Sent("refresh", calls[n].query, {}, None) \in Call
        BY <1>t, SentCall DEF Kinds
      <4> QED
        BY <1>t, <4>1 DEF Call
    <3>2. RemoveAt(calls, n) \in Seq(Call) /\ Len(RemoveAt(calls, n)) = Len(calls) - 1
      BY Removed DEF TypeOK
    <3>3. calls' \in Seq(Call) /\ Len(calls') = Len(calls)
      BY <2>2, <3>1, <3>2, Appended DEF TypeOK
    <3> QED
      BY <2>2, <3>3 DEF TypeOK
  <2> QED
    BY <1>2, <2>1, <2>2 DEF Checked
<1>3. CASE Refreshed(n)
  <2>1. page' \in Page /\ page'.path = page.path
    BY <1>t, <1>3 DEF Refreshed, Page
  <2> QED
    BY <1>3, <2>1, Settled DEF Refreshed, TypeOK
<1>4. CASE Deleted(n)
  <2> DEFINE p == IF Ok(n) THEN [page EXCEPT !.files = Unlisted(@, calls[n].items),
                                     !.selected = @ \ calls[n].items]
                  ELSE page
  <2>1. p \in Page /\ p.path = page.path
    BY <1>t, EditedFiles DEF Page
  <2>2. Settle(n, p)
    BY <1>4 DEF Deleted
  <2> HIDE DEF p
  <2> QED
    BY <2>1, <2>2, SettleType
<1>5. CASE BatchDeleted(n)
  <2> DEFINE p == IF Ok(n)
                  THEN [page EXCEPT !.deleting = FALSE, !.selected = {},
                            !.files = Unlisted(@, calls[n].items)]
                  ELSE [page EXCEPT !.deleting = FALSE]
  <2>1. p \in Page /\ p.path = page.path
    BY <1>t, EditedFiles DEF Page
  <2>2. Settle(n, p)
    BY <1>5 DEF BatchDeleted
  <2> HIDE DEF p
  <2> QED
    BY <2>1, <2>2, SettleType
<1>6. CASE Renamed(n)
  <2> DEFINE p == IF Ok(n)
                  THEN [page EXCEPT !.submitting = FALSE, !.renaming = None,
                            !.files = [i \in Item |->
                                IF i \in calls[n].items /\ @[i] # None
                                THEN calls[n].name ELSE @[i]]]
                  ELSE [page EXCEPT !.submitting = FALSE]
  <2>1. p \in Page /\ p.path = page.path
    BY <1>t, EditedFiles, ZenonT(60) DEF Page
  <2>2. Settle(n, p)
    BY <1>6 DEF Renamed
  <2> HIDE DEF p
  <2> QED
    BY <2>1, <2>2, SettleType
<1>7. CASE Previewed(n)
  <2>1. PICK i \in Item : Settle(n, page) \/ Settle(n, [page EXCEPT !.image = i])
    BY <1>t, <1>7 DEF Previewed
  <2>2. [page EXCEPT !.image = i] \in Page /\ [page EXCEPT !.image = i].path = page.path
    BY <1>t DEF Page
  <2> QED
    BY <1>t, <2>1, <2>2, SettleType
<1> QED
  BY <1>1, <1>2, <1>3, <1>4, <1>5, <1>6, <1>7 DEF Deliver

\* The types are inductive.
LEMMA TypeStep ==
    ASSUME TypeOK, [Next]_vars
    PROVE  TypeOK'
<1>1. CASE UNCHANGED vars
  BY <1>1 DEF vars, TypeOK
<1>2. CASE Serving
  BY <1>2, ServeType DEF Serving
<1>3. CASE Delivering
  BY <1>3, DeliverType DEF Delivering
<1> QED
  BY <1>1, <1>2, <1>3, NavigatingType, EditingType, WatchingType, ArriveType DEF Next

\* The types hold at the start.
LEMMA TypeStart ==
    ASSUME Init
    PROVE  /\ TypeOK /\ calls \in Seq(Call) /\ Len(calls) = 1 /\ DOMAIN calls = {1}
           /\ calls[1].kind = "load" /\ calls[1].mine /\ calls[1].state = "sent"
           /\ calls[1].query = Root
<1>1. /\ calls = <<Load(FreshPage)>> /\ Load(FreshPage) \in Call
      /\ Load(FreshPage).kind = "load" /\ Load(FreshPage).mine
      /\ Load(FreshPage).state = "sent" /\ Load(FreshPage).query = Root
  BY StartValues, LoadCall DEF Init
<1>2. calls \in Seq(Call) /\ Len(calls) = 1 /\ DOMAIN calls = {1} /\ calls[1] = Load(FreshPage)
  BY <1>1
<1>3. remote \in Listing
  BY FilesPageAssumption DEF Init, Listing
<1> QED
  BY <1>1, <1>2, <1>3, StartValues, FilesPageAssumption DEF Init, TypeOK

\* Every variable of the file browser stays in its domain, and the path
\* keeps its root.
THEOREM FilesTypeCorrect == Spec => []TypeOK
<1>1. Init => TypeOK
  BY TypeStart
<1>2. TypeOK /\ [Next]_vars => TypeOK'
  BY TypeStep
<1> QED
  BY <1>1, <1>2, PTL DEF Spec

-----------------------------------------------------------------------------
(***************************************************************************)
(* The flags and the ticks.                                                *)
(***************************************************************************)

\* The calls of s of some kinds whose answers still reach the page.
Flying(s, kinds) == {n \in DOMAIN s : s[n].kind \in kinds /\ s[n].mine}

AtMostOne(set) == \A m, n \in set : m = n

\* The calls in flight, as the module says it and as the proofs do.
LEMMA FlyingNames ==
    /\ ListsInFlight = Flying(calls, Lists)
    /\ \A kind : InFlight(kind) = Flying(calls, {kind})
    /\ ListsInFlight' = Flying(calls', Lists)
    /\ \A kind : InFlight(kind)' = Flying(calls', {kind})
  BY DEF ListsInFlight, InFlight, Flying

\* A call that is sent flies, the others go on.
LEMMA AppendedFlies ==
    ASSUME NEW s \in Seq(Call), NEW c \in Call, NEW kinds
    PROVE  Flying(Append(s, c), kinds) =
               IF c.kind \in kinds /\ c.mine THEN Flying(s, kinds) \union {Len(s) + 1}
               ELSE Flying(s, kinds)
<1>1. /\ DOMAIN Append(s, c) = DOMAIN s \union {Len(s) + 1}
      /\ Len(s) + 1 \notin DOMAIN s
      /\ Append(s, c)[Len(s) + 1] = c
      /\ \A m \in DOMAIN s : Append(s, c)[m] = s[m]
  BY Appended
<1> QED
  BY <1>1 DEF Flying

\* A call that is settled flies no more, the others go on.
LEMMA RemovedFlies ==
    ASSUME NEW s \in Seq(Call), NEW n \in DOMAIN s, NEW kinds
    PROVE  /\ AtMostOne(Flying(s, kinds)) => AtMostOne(Flying(RemoveAt(s, n), kinds))
           /\ Flying(s, kinds) = {} => Flying(RemoveAt(s, n), kinds) = {}
           /\ n \notin Flying(s, kinds) /\ Flying(s, kinds) # {}
                  => Flying(RemoveAt(s, n), kinds) # {}
           /\ n \in Flying(s, kinds) /\ AtMostOne(Flying(s, kinds))
                  => Flying(RemoveAt(s, n), kinds) = {}
<1> DEFINE t == RemoveAt(s, n)
<1>1. /\ t \in Seq(Call) /\ DOMAIN t = 1 .. Len(s) - 1 /\ Len(s) \in Nat
      /\ n \in 1 .. Len(s) /\ DOMAIN s = 1 .. Len(s)
      /\ \A m \in DOMAIN t : Before(m, n) \in DOMAIN s /\ t[m] = s[Before(m, n)]
  BY Removed
<1> HIDE DEF t
<1>2. \A m \in Flying(t, kinds) : m \in Nat /\ Before(m, n) \in Flying(s, kinds) /\ Before(m, n) # n
  BY <1>1 DEF Flying, Before
<1>3. \A m, r \in Nat : Before(m, n) = Before(r, n) => m = r
  BY <1>1 DEF Before
<1>4. ASSUME NEW r \in Flying(s, kinds), r # n
      PROVE  Flying(t, kinds) # {}
  <2> DEFINE m == IF r < n THEN r ELSE r - 1
  <2>1. m \in DOMAIN t /\ Before(m, n) = r
    BY <1>1, <1>4 DEF Flying, Before
  <2>2. m \in Flying(t, kinds)
    BY <1>1, <2>1 DEF Flying
  <2> QED
    BY <2>2
<1> QED
  BY <1>2, <1>3, <1>4 DEF AtMostOne, t

\* The answer of the server and the page that leaves.
LEMMA SameFlies ==
    ASSUME NEW s, NEW t, NEW kinds, DOMAIN s = DOMAIN t,
           \A n \in DOMAIN s : s[n].kind = t[n].kind /\ s[n].mine = t[n].mine
    PROVE  Flying(s, kinds) = Flying(t, kinds)
  BY DEF Flying

\* Answers reach no page that is gone.
GoneIsSilent == ~page.mounted => \A n \in DOMAIN calls : ~calls[n].mine

\* The dialog sends a name.
RenamesNamed ==
    \A n \in DOMAIN calls : calls[n].kind = "rename" => calls[n].name \in Name

\* Nothing is ticked while the spinner is shown.
LoadingUnticked == page.mounted /\ page.loading => page.selected = {}

\* While no two listings met, a load in flight keeps the spinner.
LoneList ==
    page.mounted /\ lone =>
        /\ AtMostOne(Flying(calls, Lists))
        /\ Flying(calls, {"load"}) # {} => page.loading

Flags ==
    /\ page.mounted =>
        /\ page.deleting <=> Flying(calls, {"batch"}) # {}
        /\ page.submitting <=> Flying(calls, {"rename"}) # {}
        /\ page.loading => Flying(calls, {"load"}) # {}
    /\ AtMostOne(Flying(calls, {"batch"}))
    /\ AtMostOne(Flying(calls, {"rename"}))

PageInv ==
    /\ TypeOK /\ GoneIsSilent /\ RenamesNamed /\ Flags
    /\ LoadingUnticked /\ LoneList /\ TickedAreShown

\* FlagsMatchCalls, in the form of the proofs.
LEMMA FlagsParts == FlagsMatchCalls <=> Flags
<1>1. /\ InFlight("batch") = Flying(calls, {"batch"})
      /\ InFlight("rename") = Flying(calls, {"rename"})
      /\ InFlight("load") = Flying(calls, {"load"})
  BY FlyingNames
<1> QED
  BY <1>1 DEF FlagsMatchCalls, Flags, AtMostOne

\* An act that sends nothing leaves the flags alone, and ticks what it sees.
LEMMA QuietAct ==
    ASSUME PageInv, TypeOK', UNCHANGED <<calls, lone>>,
           page'.mounted = page.mounted, page'.loading = page.loading,
           page'.deleting = page.deleting, page'.submitting = page.submitting,
           page'.files = page.files, page'.selected \subseteq page.selected \union Tiles
    PROVE  PageInv'
<1>1. GoneIsSilent' /\ RenamesNamed' /\ Flags' /\ LoneList'
  BY DEF PageInv, GoneIsSilent, RenamesNamed, Flags, LoneList
<1>2. LoadingUnticked'
  BY DEF PageInv, LoadingUnticked, Tiles
<1>3. TickedAreShown'
  BY DEF PageInv, TickedAreShown, Tiles, There
<1> QED
  BY <1>1, <1>2, <1>3 DEF PageInv

\* An act that sends a call raises its flag, if it has one.
LEMMA SendingAct ==
    ASSUME PageInv, TypeOK', NEW call \in Call, Send(call), call.mine,
           call.kind = "rename" => call.name \in Name,
           page.mounted, page'.mounted,
           page'.loading = (page.loading \/ call.kind = "load"),
           page'.deleting = (page.deleting \/ call.kind = "batch"),
           page'.submitting = (page.submitting \/ call.kind = "rename"),
           call.kind = "batch" => ~page.deleting,
           call.kind = "rename" => ~page.submitting,
           page'.files = page.files,
           page'.selected = IF call.kind = "load" THEN {} ELSE page.selected
    PROVE  PageInv'
<1>t. /\ TypeOK /\ calls \in Seq(Call) /\ calls' = Append(calls, call)
      /\ page.loading \in BOOLEAN /\ page.deleting \in BOOLEAN
      /\ page.submitting \in BOOLEAN
  BY DEF PageInv, TypeOK, Send, Page
<1>1. GoneIsSilent' /\ RenamesNamed'
  <2>1. \A m \in DOMAIN calls' :
            \/ calls'[m] = call
            \/ m \in DOMAIN calls /\ calls'[m] = calls[m]
    <3>1. TypeOK
      BY <1>t
    <3>2. /\ DOMAIN calls' = DOMAIN calls \union {Len(calls) + 1}
          /\ calls'[Len(calls) + 1] = call
          /\ \A m \in DOMAIN calls : calls'[m] = calls[m]
      BY <3>1, Sending
    <3> QED
      BY <3>2
  <2> QED
    BY <2>1 DEF PageInv, GoneIsSilent, RenamesNamed
<1>2. \A kinds : Flying(calls', kinds) =
          IF call.kind \in kinds THEN Flying(calls, kinds) \union {Len(calls) + 1}
          ELSE Flying(calls, kinds)
  BY <1>t, AppendedFlies
<1>3. Flags'
  <2>1. Flying(calls', {"batch"}) =
            IF call.kind = "batch" THEN Flying(calls, {"batch"}) \union {Len(calls) + 1}
            ELSE Flying(calls, {"batch"})
    BY <1>2
  <2>2. Flying(calls', {"rename"}) =
            IF call.kind = "rename" THEN Flying(calls, {"rename"}) \union {Len(calls) + 1}
            ELSE Flying(calls, {"rename"})
    BY <1>2
  <2>3. Flying(calls', {"load"}) =
            IF call.kind = "load" THEN Flying(calls, {"load"}) \union {Len(calls) + 1}
            ELSE Flying(calls, {"load"})
    BY <1>2
  <2>4. AtMostOne(Flying(calls', {"batch"})) /\ AtMostOne(Flying(calls', {"rename"}))
    BY <2>1, <2>2 DEF PageInv, Flags, AtMostOne
  <2>5. /\ page'.deleting <=> Flying(calls', {"batch"}) # {}
        /\ page'.submitting <=> Flying(calls', {"rename"}) # {}
        /\ page'.loading => Flying(calls', {"load"}) # {}
    BY <1>t, <2>1, <2>2, <2>3 DEF PageInv, Flags
  <2> QED
    BY <2>4, <2>5 DEF Flags
<1>4. LoadingUnticked'
  BY <1>t DEF PageInv, LoadingUnticked
<1>5. LoneList'
  <2> SUFFICES ASSUME lone'
               PROVE  /\ AtMostOne(Flying(calls', Lists))
                      /\ Flying(calls', {"load"}) # {} => page'.loading
    BY DEF LoneList
  <2>1. lone /\ (call.kind \in Lists => Flying(calls, Lists) = {})
    BY FlyingNames DEF Send, PageInv, TypeOK
  <2>2. AtMostOne(Flying(calls', Lists))
    BY <1>2, <2>1 DEF PageInv, LoneList, AtMostOne
  <2>3. Flying(calls', {"load"}) # {} => page'.loading
    BY <1>2, <1>t, <2>1 DEF PageInv, LoneList
  <2> QED
    BY <2>2, <2>3
<1>6. TickedAreShown'
  <2>1. lone' => lone
    BY DEF Send, PageInv, TypeOK
  <2> QED
    BY <1>t, <2>1 DEF PageInv, TickedAreShown, There
<1> QED
  BY <1>1, <1>3, <1>4, <1>5, <1>6 DEF PageInv

\* A page that is shown anew loads if its folder or its keyword changed.
LEMMA ShowingAct ==
    ASSUME PageInv, TypeOK', NEW p \in Page, Len(p.path) > 0, Show(p),
           page.mounted, p.mounted, p.loading = page.loading,
           p.deleting = page.deleting, p.submitting = page.submitting,
           p.files = page.files, p.selected = page.selected
    PROVE  PageInv'
<1>1. CASE Requeries(p)
  <2>1. page' = Cleared(p) /\ Send(Load(p))
    BY <1>1 DEF Show
  <2>2. /\ Cleared(p).mounted = p.mounted /\ Cleared(p).loading = TRUE
        /\ Cleared(p).deleting = p.deleting /\ Cleared(p).submitting = p.submitting
        /\ Cleared(p).files = p.files /\ Cleared(p).selected = {}
    BY DEF Cleared, Page
  <2>3. page.deleting \in BOOLEAN /\ page.submitting \in BOOLEAN
    BY DEF PageInv, TypeOK, Page
  <2> QED
    BY <2>1, <2>2, <2>3, LoadCall, SendingAct
<1>2. CASE ~Requeries(p)
  BY <1>2, QuietAct DEF Show
<1> QED
  BY <1>1, <1>2

\* Navigation raises the spinner when it loads.
LEMMA NavigatingFlags ==
    ASSUME PageInv, Navigating
    PROVE  PageInv'
<1>t. /\ TypeOK /\ TypeOK' /\ page \in Page /\ Len(page.path) > 0
      /\ page.path \in Seq(Folder \union {Root}) /\ QueryOf(page) \in Query
      /\ page.deleting \in BOOLEAN /\ page.submitting \in BOOLEAN /\ page.loading \in BOOLEAN
  BY NavigatingType, QueryOfPage DEF PageInv, TypeOK, Page
<1>1. ASSUME NEW i \in Item, OpenFolder(i)
      PROVE  PageInv'
  <2> DEFINE p == [page EXCEPT !.path = Append(@, i), !.keyword = None, !.menu = None]
  <2>1. i \in Folder /\ Show(p) /\ page.mounted
    BY <1>1 DEF OpenFolder, Act
  <2>2. /\ Append(page.path, i) \in Seq(Folder \union {Root})
        /\ Len(Append(page.path, i)) > 0
    BY <1>t, <2>1
  <2>3. /\ p \in Page /\ Len(p.path) > 0 /\ p.mounted = page.mounted
        /\ p.loading = page.loading /\ p.deleting = page.deleting
        /\ p.submitting = page.submitting /\ p.files = page.files
        /\ p.selected = page.selected
    BY <1>t, <2>2 DEF Page
  <2> HIDE DEF p
  <2> QED
    BY <1>t, <2>1, <2>3, ShowingAct
<1>2. ASSUME NEW n \in 1 .. Len(page.path), OpenBreadcrumb(n)
      PROVE  PageInv'
  <2> DEFINE p == [page EXCEPT !.path = CrumbsTo(@, n), !.keyword = None, !.menu = None]
  <2>1. Show(p) /\ page.mounted
    BY <1>2 DEF OpenBreadcrumb, Act
  <2>2. /\ CrumbsTo(page.path, n) \in Seq(Folder \union {Root})
        /\ Len(CrumbsTo(page.path, n)) > 0
    BY <1>t DEF CrumbsTo
  <2>3. /\ p \in Page /\ Len(p.path) > 0 /\ p.mounted = page.mounted
        /\ p.loading = page.loading /\ p.deleting = page.deleting
        /\ p.submitting = page.submitting /\ p.files = page.files
        /\ p.selected = page.selected
    BY <1>t, <2>2 DEF Page
  <2> HIDE DEF p
  <2> QED
    BY <1>t, <2>1, <2>3, ShowingAct
<1>3. ASSUME NEW k \in Name \union {None}, Search(k)
      PROVE  PageInv'
  <2> DEFINE p == [page EXCEPT !.keyword = k]
  <2>1. Show(p) /\ page.mounted
    BY <1>3 DEF Search, Act
  <2>2. /\ p \in Page /\ Len(p.path) > 0 /\ p.mounted = page.mounted
        /\ p.loading = page.loading /\ p.deleting = page.deleting
        /\ p.submitting = page.submitting /\ p.files = page.files
        /\ p.selected = page.selected
    BY <1>t DEF Page
  <2> HIDE DEF p
  <2> QED
    BY <1>t, <2>1, <2>2, ShowingAct
<1>4. ASSUME (\E i \in Item : OpenVideo(i)) \/ CloseViewer
      PROVE  PageInv'
  <2>1. /\ page'.mounted = page.mounted /\ page'.loading = page.loading
        /\ page'.deleting = page.deleting /\ page'.submitting = page.submitting
        /\ page'.files = page.files /\ page'.selected = page.selected
        /\ UNCHANGED <<calls, lone>>
    BY <1>t, <1>4 DEF OpenVideo, CloseViewer, Page
  <2> QED
    BY <1>t, <2>1, QuietAct
<1>5. ASSUME NEW i \in Item, Preview(i)
      PROVE  PageInv'
  <2>1. /\ page.mounted /\ page'.mounted /\ page'.loading = page.loading
        /\ page'.deleting = page.deleting /\ page'.submitting = page.submitting
        /\ page'.files = page.files /\ page'.selected = page.selected
    BY <1>t, <1>5 DEF Preview, Act, Page
  <2>2. /\ Sent("info", QueryOf(page), {i}, None) \in Call
        /\ Sent("info", QueryOf(page), {i}, None).kind = "info"
        /\ Sent("info", QueryOf(page), {i}, None).mine
    BY <1>t, SentCall DEF Kinds
  <2>3. Send(Sent("info", QueryOf(page), {i}, None))
    BY <1>5 DEF Preview
  <2> QED
    BY <1>t, <2>1, <2>2, <2>3, SendingAct
<1>6. ASSUME Leave
      PROVE  PageInv'
  <2>1. /\ ~page'.mounted /\ DOMAIN calls' = DOMAIN calls
        /\ \A n \in DOMAIN calls : calls'[n] = [calls[n] EXCEPT !.mine = FALSE]
    BY <1>t, <1>6, Orphaned DEF Leave, TypeOK, Page
  <2>2. \A n \in DOMAIN calls :
            /\ ~calls'[n].mine /\ calls'[n].kind = calls[n].kind
            /\ calls'[n].name = calls[n].name
    BY <1>t, <2>1, CallFields DEF TypeOK, Call
  <2>3. GoneIsSilent' /\ RenamesNamed'
    BY <2>1, <2>2 DEF GoneIsSilent, RenamesNamed, PageInv
  <2>4. \A kinds : Flying(calls', kinds) = {}
    BY <2>1, <2>2 DEF Flying
  <2> QED
    BY <1>t, <2>1, <2>3, <2>4
       DEF PageInv, Flags, AtMostOne, LoadingUnticked, LoneList, TickedAreShown
<1>7. ASSUME Return
      PROVE  PageInv'
  <2>1. /\ ~page.mounted /\ page' = FreshPage /\ Send(Load(FreshPage))
        /\ Load(FreshPage) \in Call /\ Load(FreshPage).kind = "load"
        /\ Load(FreshPage).mine
    BY <1>7, StartValues, LoadCall DEF Return
  <2>2. calls' = Append(calls, Load(FreshPage)) /\ calls \in Seq(Call)
    BY <1>t, <2>1 DEF Send, TypeOK
  <2>3. \A kinds : Flying(calls, kinds) = {}
    BY <2>1 DEF PageInv, GoneIsSilent, Flying
  <2>4. \A kinds : Flying(calls', kinds) =
            IF "load" \in kinds THEN {Len(calls) + 1} ELSE {}
    BY <2>1, <2>2, <2>3, AppendedFlies
  <2>5. /\ Flying(calls', {"load"}) = {Len(calls) + 1}
        /\ Flying(calls', {"batch"}) = {} /\ Flying(calls', {"rename"}) = {}
        /\ Flying(calls', Lists) = {Len(calls) + 1}
    BY <2>4 DEF Lists
  <2>6. RenamesNamed'
    <3>1. /\ DOMAIN calls' = DOMAIN calls \union {Len(calls) + 1}
          /\ calls'[Len(calls) + 1] = Load(FreshPage)
          /\ \A m \in DOMAIN calls : calls'[m] = calls[m]
      BY <1>t, <2>1, Sending
    <3> QED
      BY <2>1, <3>1 DEF PageInv, RenamesNamed
  <2>7. GoneIsSilent' /\ LoadingUnticked' /\ TickedAreShown'
    BY <2>1, StartValues DEF GoneIsSilent, LoadingUnticked, TickedAreShown
  <2>8. Flags' /\ LoneList'
    BY <2>1, <2>5, StartValues DEF Flags, LoneList, AtMostOne
  <2> QED
    BY <1>t, <2>6, <2>7, <2>8 DEF PageInv
<1> QED
  BY <1>1, <1>2, <1>3, <1>4, <1>5, <1>6, <1>7 DEF Navigating

\* The buttons raise their flags.
LEMMA EditingFlags ==
    ASSUME PageInv, Editing
    PROVE  PageInv'
<1>t. /\ TypeOK /\ TypeOK' /\ page \in Page /\ QueryOf(page) \in Query
      /\ page.deleting \in BOOLEAN /\ page.submitting \in BOOLEAN /\ page.loading \in BOOLEAN
      /\ page.selected \in SUBSET Item /\ page.renaming \in Item \union {None}
  BY EditingType, QueryOfPage DEF PageInv, TypeOK, Page
<1>1. ASSUME NEW i \in Item, ToggleSelect(i)
      PROVE  PageInv'
  <2>1. /\ page'.mounted = page.mounted /\ page'.loading = page.loading
        /\ page'.deleting = page.deleting /\ page'.submitting = page.submitting
        /\ page'.files = page.files /\ page'.selected \subseteq page.selected \union Tiles
        /\ UNCHANGED <<calls, lone>>
    BY <1>t, <1>1 DEF ToggleSelect, Page
  <2> QED
    BY <1>t, <2>1, QuietAct
<1>2. ASSUME \/ \E i \in Item : OpenMenu(i)
             \/ Unselect \/ CloseMenu \/ StartRename \/ CloseRename
      PROVE  PageInv'
  <2>1. /\ page'.mounted = page.mounted /\ page'.loading = page.loading
        /\ page'.deleting = page.deleting /\ page'.submitting = page.submitting
        /\ page'.files = page.files /\ page'.selected \subseteq page.selected
        /\ UNCHANGED <<calls, lone>>
    BY <1>t, <1>2 DEF OpenMenu, Unselect, CloseMenu, StartRename, CloseRename, Page
  <2> QED
    BY <1>t, <2>1, QuietAct
<1>3. ASSUME NEW i \in Item, DeleteSingle(i)
      PROVE  PageInv'
  <2>1. /\ page.mounted /\ page'.mounted /\ page'.loading = page.loading
        /\ page'.deleting = page.deleting /\ page'.submitting = page.submitting
        /\ page'.files = page.files /\ page'.selected = page.selected
    BY <1>t, <1>3 DEF DeleteSingle, Act, Page
  <2>2. /\ Sent("delete", QueryOf(page), {i}, None) \in Call
        /\ Sent("delete", QueryOf(page), {i}, None).kind = "delete"
        /\ Sent("delete", QueryOf(page), {i}, None).mine
    BY <1>t, SentCall DEF Kinds
  <2>3. Send(Sent("delete", QueryOf(page), {i}, None))
    BY <1>3 DEF DeleteSingle
  <2> QED
    BY <1>t, <2>1, <2>2, <2>3, SendingAct
<1>4. ASSUME BatchDelete
      PROVE  PageInv'
  <2>1. /\ page.mounted /\ page'.mounted /\ page'.loading = page.loading
        /\ ~page.deleting /\ page'.deleting = TRUE /\ page'.submitting = page.submitting
        /\ page'.files = page.files /\ page'.selected = page.selected
    BY <1>t, <1>4 DEF BatchDelete, CanBatch, Act, Page
  <2>2. /\ Sent("batch", QueryOf(page), page.selected, None) \in Call
        /\ Sent("batch", QueryOf(page), page.selected, None).kind = "batch"
        /\ Sent("batch", QueryOf(page), page.selected, None).mine
    BY <1>t, SentCall DEF Kinds
  <2>3. Send(Sent("batch", QueryOf(page), page.selected, None))
    BY <1>4 DEF BatchDelete
  <2> QED
    BY <1>t, <2>1, <2>2, <2>3, SendingAct
<1>5. ASSUME NEW name \in Name, ConfirmRename(name)
      PROVE  PageInv'
  <2>1. /\ page.mounted /\ page'.mounted /\ page'.loading = page.loading
        /\ page'.deleting = page.deleting /\ ~page.submitting /\ page'.submitting = TRUE
        /\ page'.files = page.files /\ page'.selected = page.selected
    BY <1>t, <1>5 DEF ConfirmRename, Act, Page
  <2>2. /\ Sent("rename", QueryOf(page), {page.renaming}, name) \in Call
        /\ Sent("rename", QueryOf(page), {page.renaming}, name).kind = "rename"
        /\ Sent("rename", QueryOf(page), {page.renaming}, name).mine
        /\ Sent("rename", QueryOf(page), {page.renaming}, name).name \in Name
    BY <1>t, <1>5, SentCall DEF Kinds, ConfirmRename
  <2>3. Send(Sent("rename", QueryOf(page), {page.renaming}, name))
    BY <1>5 DEF ConfirmRename
  <2> QED
    BY <1>t, <2>1, <2>2, <2>3, SendingAct
<1> QED
  BY <1>1, <1>2, <1>3, <1>4, <1>5 DEF Editing

\* The watcher's calls have no flag.
LEMMA WatchingFlags ==
    ASSUME PageInv, Watching
    PROVE  PageInv'
<1>t. /\ TypeOK /\ TypeOK' /\ page \in Page /\ FolderOf(page) \in Query
      /\ page.deleting \in BOOLEAN /\ page.submitting \in BOOLEAN /\ page.loading \in BOOLEAN
  BY WatchingType, QueryOfPage DEF PageInv, TypeOK, Page, Query
<1>1. page.mounted /\ page' = page
  BY DEF Watching, Check, DelayedReload, Act
<1>2. ASSUME NEW kind \in {"check", "reload"}
      PROVE  /\ Sent(kind, FolderOf(page), {}, None) \in Call
             /\ Sent(kind, FolderOf(page), {}, None).kind = kind
             /\ Sent(kind, FolderOf(page), {}, None).mine
  BY <1>t, SentCall DEF Kinds
<1>3. CASE Check
  <2>1. Send(Sent("check", FolderOf(page), {}, None))
    BY <1>3 DEF Check
  <2>2. /\ Sent("check", FolderOf(page), {}, None) \in Call
        /\ Sent("check", FolderOf(page), {}, None).kind = "check"
        /\ Sent("check", FolderOf(page), {}, None).mine
    BY <1>2
  <2> QED
    BY <1>t, <1>1, <2>1, <2>2, SendingAct
<1>4. CASE DelayedReload
  <2>1. Send(Sent("reload", FolderOf(page), {}, None))
    BY <1>4 DEF DelayedReload
  <2>2. /\ Sent("reload", FolderOf(page), {}, None) \in Call
        /\ Sent("reload", FolderOf(page), {}, None).kind = "reload"
        /\ Sent("reload", FolderOf(page), {}, None).mine
    BY <1>2
  <2> QED
    BY <1>t, <1>1, <2>1, <2>2, SendingAct
<1> QED
  BY <1>3, <1>4 DEF Watching

\* The server changes no flag.
LEMMA ServeFlags ==
    ASSUME PageInv, NEW n \in DOMAIN calls, Serve(n)
    PROVE  PageInv'
<1>t. TypeOK /\ TypeOK' /\ page' = page /\ lone' = lone
  BY ServeType DEF PageInv, Serve, ServeList, ServeRead, ServeDelete, ServeRename
<1>1. \E state \in {"ok", "error"}, answer \in Listing : Served(n, state, answer)
  <2>1. calls[n].answer \in Listing /\ calls[n].query \in Query
    BY <1>t, CallFields DEF TypeOK
  <2>2. Answers(calls[n].query) \subseteq Listing
    BY <1>t, <2>1, Listings
  <2> QED
    BY <2>1, <2>2 DEF Serve, ServeList, ServeRead, ServeDelete, ServeRename
<1>2. /\ DOMAIN calls' = DOMAIN calls
      /\ \A m \in DOMAIN calls : /\ calls'[m].kind = calls[m].kind
                                 /\ calls'[m].mine = calls[m].mine
                                 /\ calls'[m].name = calls[m].name
  <2>1. PICK state \in {"ok", "error"}, answer \in Listing : Served(n, state, answer)
    BY <1>1
  <2> QED
    BY <1>t, <2>1, Answered
<1>3. \A kinds : Flying(calls', kinds) = Flying(calls, kinds)
  BY <1>2, SameFlies
<1>4. GoneIsSilent' /\ RenamesNamed'
  BY <1>t, <1>2 DEF PageInv, GoneIsSilent, RenamesNamed
<1>5. Flags' /\ LoneList' /\ LoadingUnticked' /\ TickedAreShown'
  BY <1>t, <1>3 DEF PageInv, Flags, LoneList, LoadingUnticked, TickedAreShown
<1> QED
  BY <1>t, <1>4, <1>5 DEF PageInv

\* A handler that ends takes its flag down, if it has one.
LEMMA EndingCall ==
    ASSUME PageInv, TypeOK', NEW n \in DOMAIN calls, calls' = RemoveAt(calls, n),
           lone' => lone, page'.mounted = page.mounted,
           IF calls[n].mine
           THEN /\ page'.loading = (page.loading /\ calls[n].kind # "load")
                /\ page'.deleting = (page.deleting /\ calls[n].kind # "batch")
                /\ page'.submitting = (page.submitting /\ calls[n].kind # "rename")
                /\ page'.selected \subseteq page.selected
           ELSE page' = page,
           TickedAreShown'
    PROVE  PageInv'
<1>t. /\ TypeOK /\ calls \in Seq(Call) /\ calls[n] \in Call
      /\ page.loading \in BOOLEAN /\ page.deleting \in BOOLEAN
      /\ page.submitting \in BOOLEAN
  BY DEF PageInv, TypeOK, Page
<1>1. GoneIsSilent' /\ RenamesNamed'
  <2>1. \A m \in DOMAIN calls' :
            Before(m, n) \in DOMAIN calls /\ calls'[m] = calls[Before(m, n)]
    BY <1>t, Settled
  <2> QED
    BY <2>1 DEF PageInv, GoneIsSilent, RenamesNamed
<1>2. \A kinds :
          /\ AtMostOne(Flying(calls, kinds)) => AtMostOne(Flying(calls', kinds))
          /\ Flying(calls, kinds) = {} => Flying(calls', kinds) = {}
          /\ n \notin Flying(calls, kinds) /\ Flying(calls, kinds) # {}
                 => Flying(calls', kinds) # {}
          /\ n \in Flying(calls, kinds) /\ AtMostOne(Flying(calls, kinds))
                 => Flying(calls', kinds) = {}
  BY <1>t, RemovedFlies
<1>3. \A kinds : n \in Flying(calls, kinds) <=> calls[n].kind \in kinds /\ calls[n].mine
  BY DEF Flying
<1>4. Flags'
  <2>1. AtMostOne(Flying(calls', {"batch"})) /\ AtMostOne(Flying(calls', {"rename"}))
    BY <1>2 DEF PageInv, Flags
  <2>2. ASSUME page'.mounted
        PROVE  page'.deleting <=> Flying(calls', {"batch"}) # {}
    <3>1. /\ page.deleting <=> Flying(calls, {"batch"}) # {}
          /\ AtMostOne(Flying(calls, {"batch"}))
      BY <2>2 DEF PageInv, Flags
    <3>2. CASE calls[n].mine /\ calls[n].kind = "batch"
      BY <1>2, <1>3, <3>1, <3>2
    <3>3. CASE ~(calls[n].mine /\ calls[n].kind = "batch")
      <4>1. n \notin Flying(calls, {"batch"}) /\ page'.deleting = page.deleting
        BY <1>t, <1>3, <3>3
      <4> QED
        BY <1>2, <3>1, <4>1
    <3> QED
      BY <3>2, <3>3
  <2>3. ASSUME page'.mounted
        PROVE  page'.submitting <=> Flying(calls', {"rename"}) # {}
    <3>1. /\ page.submitting <=> Flying(calls, {"rename"}) # {}
          /\ AtMostOne(Flying(calls, {"rename"}))
      BY <2>3 DEF PageInv, Flags
    <3>2. CASE calls[n].mine /\ calls[n].kind = "rename"
      BY <1>2, <1>3, <3>1, <3>2
    <3>3. CASE ~(calls[n].mine /\ calls[n].kind = "rename")
      <4>1. n \notin Flying(calls, {"rename"}) /\ page'.submitting = page.submitting
        BY <1>t, <1>3, <3>3
      <4> QED
        BY <1>2, <3>1, <4>1
    <3> QED
      BY <3>2, <3>3
  <2>4. ASSUME page'.mounted, page'.loading
        PROVE  Flying(calls', {"load"}) # {}
    <3>1. page.loading /\ ~(calls[n].mine /\ calls[n].kind = "load")
      <4>1. CASE calls[n].mine
        BY <1>t, <2>4, <4>1
      <4>2. CASE ~calls[n].mine
        BY <2>4, <4>2
      <4> QED
        BY <4>1, <4>2
    <3>2. n \notin Flying(calls, {"load"})
      BY <1>3, <3>1
    <3> QED
      BY <1>2, <2>4, <3>1, <3>2 DEF PageInv, Flags
  <2> QED
    BY <2>1, <2>2, <2>3, <2>4 DEF Flags
<1>5. LoadingUnticked'
  BY <1>t DEF PageInv, LoadingUnticked
<1>6. LoneList'
  <2> SUFFICES ASSUME page'.mounted, lone'
               PROVE  /\ AtMostOne(Flying(calls', Lists))
                      /\ Flying(calls', {"load"}) # {} => page'.loading
    BY DEF LoneList
  <2>1. /\ AtMostOne(Flying(calls, Lists))
        /\ Flying(calls, {"load"}) # {} => page.loading
    BY DEF PageInv, LoneList
  <2>2. AtMostOne(Flying(calls, {"load"}))
    BY <2>1 DEF AtMostOne, Flying, Lists
  <2>3. CASE n \in Flying(calls, {"load"})
    BY <1>2, <2>1, <2>2, <2>3
  <2>4. CASE n \notin Flying(calls, {"load"})
    <3>1. page'.loading = page.loading
      BY <1>t, <1>3, <2>4
    <3> QED
      BY <1>2, <2>1, <3>1
  <2> QED
    BY <2>3, <2>4
<1> QED
  BY <1>1, <1>4, <1>5, <1>6 DEF PageInv

\* The same for the handlers that do nothing more than Settle.
LEMMA SettlingCall ==
    ASSUME PageInv, TypeOK', NEW n \in DOMAIN calls, NEW p, Settle(n, p),
           p.mounted = page.mounted,
           p.loading = (page.loading /\ calls[n].kind # "load"),
           p.deleting = (page.deleting /\ calls[n].kind # "batch"),
           p.submitting = (page.submitting /\ calls[n].kind # "rename"),
           p.selected \subseteq page.selected,
           calls[n].mine /\ p.mounted /\ lone /\ ~p.loading
               => p.selected \subseteq There(p.files)
    PROVE  PageInv'
<1>1. /\ calls' = RemoveAt(calls, n) /\ lone' = lone
      /\ page' = IF calls[n].mine THEN p ELSE page
  BY DEF Settle
<1>2. TickedAreShown'
  <2>1. CASE calls[n].mine
    BY <1>1, <2>1 DEF TickedAreShown
  <2>2. CASE ~calls[n].mine
    BY <1>1, <2>2 DEF PageInv, TickedAreShown
  <2> QED
    BY <2>1, <2>2
<1>3. page'.mounted = page.mounted
  BY <1>1
<1>4. CASE calls[n].mine
  BY <1>1, <1>2, <1>3, <1>4, EndingCall
<1>5. CASE ~calls[n].mine
  BY <1>1, <1>2, <1>3, <1>5, EndingCall
<1> QED
  BY <1>4, <1>5

\* The second halves of the handlers take their flags down.
LEMMA DeliverFlags ==
    ASSUME PageInv, NEW n \in DOMAIN calls, Deliver(n)
    PROVE  PageInv'
<1>t. /\ TypeOK /\ TypeOK' /\ page \in Page /\ page.files \in Listing
      /\ calls \in Seq(Call) /\ calls[n] \in Call /\ calls[n].query \in Query
      /\ page.loading \in BOOLEAN /\ page.deleting \in BOOLEAN
      /\ page.submitting \in BOOLEAN /\ page.selected \in SUBSET Item
      /\ calls[n].mine \in BOOLEAN
  BY DeliverType, CallFields DEF PageInv, TypeOK, Page
<1>s. page.mounted /\ lone /\ ~page.loading => page.selected \subseteq There(page.files)
  BY DEF PageInv, TickedAreShown
<1>1. CASE Loaded(n)
  <2> DEFINE p == [page EXCEPT !.loading = FALSE,
                       !.files = IF Ok(n) THEN calls[n].answer ELSE @]
  <2>1. Settle(n, p) /\ calls[n].kind = "load"
    BY <1>1 DEF Loaded, Back
  <2>2. /\ p.mounted = page.mounted /\ p.loading = FALSE
        /\ p.deleting = page.deleting /\ p.submitting = page.submitting
        /\ p.selected = page.selected
    BY <1>t DEF Page
  <2>3. calls[n].mine /\ page.mounted /\ lone => page.selected = {}
    <3>1. calls[n].mine => n \in Flying(calls, {"load"})
      BY <2>1 DEF Flying
    <3> QED
      BY <3>1 DEF PageInv, LoneList, LoadingUnticked
  <2> HIDE DEF p
  <2> QED
    BY <1>t, <2>1, <2>2, <2>3, SettlingCall
<1>2. CASE Checked(n)
  <2>k. calls[n].kind = "check"
    BY <1>2 DEF Checked, Back
  <2>1. CASE Settle(n, page)
    BY <1>t, <1>s, <2>k, <2>1, SettlingCall
  <2>2. ASSUME calls' = Append(RemoveAt(calls, n),
                   [Sent("refresh", calls[n].query, {}, None)
                       EXCEPT !.mine = calls[n].mine]),
               UNCHANGED <<remote, page, acts>>,
               lone' = (lone /\ (calls[n].mine => ListsInFlight = {}))
        PROVE  PageInv'
    <3> DEFINE rest == RemoveAt(calls, n)
               c == [Sent("refresh", calls[n].query, {}, None)
                        EXCEPT !.mine = calls[n].mine]
    <3>1. c \in Call /\ c.kind = "refresh" /\ c.mine = calls[n].mine
      <4>1. /\ Sent("refresh", calls[n].query, {}, None) \in Call
            /\ Sent("refresh", calls[n].query, {}, None).kind = "refresh"
        BY <1>t, SentCall DEF Kinds
      <4> QED
        BY <1>t, <4>1 DEF Call
    <3>2. /\ rest \in Seq(Call)
          /\ \A m \in DOMAIN rest : Before(m, n) \in DOMAIN calls /\ rest[m] = calls[Before(m, n)]
      BY <1>t, Removed
    <3>3. \A kinds : Flying(calls', kinds) =
              IF c.kind \in kinds /\ c.mine THEN Flying(rest, kinds) \union {Len(rest) + 1}
              ELSE Flying(rest, kinds)
      BY <2>2, <3>1, <3>2, AppendedFlies
    <3>4. \A kinds :
              /\ AtMostOne(Flying(calls, kinds)) => AtMostOne(Flying(rest, kinds))
              /\ Flying(calls, kinds) = {} => Flying(rest, kinds) = {}
              /\ n \notin Flying(calls, kinds) /\ Flying(calls, kinds) # {}
                     => Flying(rest, kinds) # {}
      BY <1>t, RemovedFlies
    <3>5. /\ \A m \in DOMAIN rest : calls'[m] = rest[m]
          /\ DOMAIN calls' = DOMAIN rest \union {Len(rest) + 1}
          /\ calls'[Len(rest) + 1] = c
      BY <2>2, <3>1, <3>2, Appended
    <3> HIDE DEF rest, c
    <3>6. GoneIsSilent' /\ RenamesNamed'
      BY <2>2, <3>1, <3>2, <3>5, ZenonT(60) DEF PageInv, GoneIsSilent, RenamesNamed
    <3>7. ASSUME NEW kind \in {"load", "batch", "rename"}
          PROVE  /\ Flying(calls', {kind}) = {} <=> Flying(calls, {kind}) = {}
                 /\ AtMostOne(Flying(calls, {kind})) => AtMostOne(Flying(calls', {kind}))
      <4>1. n \notin Flying(calls, {kind}) /\ c.kind \notin {kind}
        BY <2>k, <3>1 DEF Flying
      <4>2. Flying(calls', {kind}) = Flying(rest, {kind})
        BY <3>3, <4>1
      <4> QED
        BY <3>4, <4>1, <4>2
    <3>8. Flags'
      BY <2>2, <3>7 DEF PageInv, Flags
    <3>9. LoadingUnticked' /\ TickedAreShown'
      BY <2>2 DEF PageInv, LoadingUnticked, TickedAreShown
    <3>10. LoneList'
      <4> SUFFICES ASSUME page'.mounted, lone'
                   PROVE  /\ AtMostOne(Flying(calls', Lists))
                          /\ Flying(calls', {"load"}) # {} => page'.loading
        BY DEF LoneList
      <4>1. lone /\ (calls[n].mine => Flying(calls, Lists) = {})
        BY <1>t, <2>2, FlyingNames DEF TypeOK
      <4>2. /\ AtMostOne(Flying(calls, Lists))
            /\ Flying(calls, {"load"}) # {} => page.loading
        BY <2>2, <4>1 DEF PageInv, LoneList
      <4>3. AtMostOne(Flying(calls', Lists))
        <5>1. CASE calls[n].mine
          <6>1. Flying(rest, Lists) = {}
            BY <3>4, <4>1, <5>1
          <6> QED
            BY <3>3, <6>1 DEF AtMostOne
        <5>2. CASE ~calls[n].mine
          BY <3>1, <3>3, <3>4, <4>2, <5>2
        <5> QED
          BY <5>1, <5>2
      <4> QED
        BY <2>2, <3>7, <4>2, <4>3
    <3> QED
      BY <1>t, <3>6, <3>8, <3>9, <3>10 DEF PageInv
  <2> QED
    BY <1>2, <2>1, <2>2 DEF Checked
<1>3. CASE Refreshed(n)
  <2>1. /\ calls[n].kind \in {"refresh", "reload"} /\ calls' = RemoveAt(calls, n)
        /\ page' = IF calls[n].mine /\ Ok(n)
                   THEN [page EXCEPT !.files = calls[n].answer] ELSE page
        /\ lone' = (lone /\ (calls[n].mine => page.selected = {}))
    BY <1>3 DEF Refreshed, Back
  <2>2. /\ page'.mounted = page.mounted /\ page'.loading = page.loading
        /\ page'.deleting = page.deleting /\ page'.submitting = page.submitting
        /\ page'.selected = page.selected
        /\ ~calls[n].mine => page' = page
    BY <1>t, <2>1 DEF Page
  <2>3. (lone' => lone) /\ (lone' /\ calls[n].mine => page.selected = {})
    BY <1>t, <2>1 DEF TypeOK
  <2>4. TickedAreShown'
    BY <1>s, <2>2, <2>3 DEF TickedAreShown
  <2>5. CASE calls[n].mine
    BY <1>t, <2>1, <2>2, <2>3, <2>4, <2>5, EndingCall
  <2>6. CASE ~calls[n].mine
    BY <1>t, <2>1, <2>2, <2>3, <2>4, <2>6, EndingCall
  <2> QED
    BY <2>5, <2>6
<1>4. CASE Deleted(n)
  <2> DEFINE p == IF Ok(n) THEN [page EXCEPT !.files = Unlisted(@, calls[n].items),
                                     !.selected = @ \ calls[n].items]
                  ELSE page
  <2>1. Settle(n, p) /\ calls[n].kind = "delete"
    BY <1>4 DEF Deleted, Back
  <2>2. /\ p.mounted = page.mounted /\ p.loading = page.loading
        /\ p.deleting = page.deleting /\ p.submitting = page.submitting
        /\ p.selected \subseteq page.selected
    BY <1>t DEF Page
  <2>3. page.selected \subseteq There(page.files) => p.selected \subseteq There(p.files)
    <3>1. CASE Ok(n)
      <4>1. /\ p.files = Unlisted(page.files, calls[n].items)
            /\ p.selected = page.selected \ calls[n].items
        BY <1>t, <3>1 DEF Page
      <4> QED
        BY <4>1 DEF There, Unlisted
    <3>2. CASE ~Ok(n)
      BY <3>2
    <3> QED
      BY <3>1, <3>2
  <2> HIDE DEF p
  <2> QED
    BY <1>t, <1>s, <2>1, <2>2, <2>3, SettlingCall
<1>5. CASE BatchDeleted(n)
  <2> DEFINE p == IF Ok(n)
                  THEN [page EXCEPT !.deleting = FALSE, !.selected = {},
                            !.files = Unlisted(@, calls[n].items)]
                  ELSE [page EXCEPT !.deleting = FALSE]
  <2>1. Settle(n, p) /\ calls[n].kind = "batch"
    BY <1>5 DEF BatchDeleted, Back
  <2>2. /\ p.mounted = page.mounted /\ p.loading = page.loading
        /\ p.deleting = FALSE /\ p.submitting = page.submitting
        /\ \/ p.selected = {}
           \/ p.selected = page.selected /\ p.files = page.files
    <3>1. CASE Ok(n)
      BY <1>t, <3>1 DEF Page
    <3>2. CASE ~Ok(n)
      BY <1>t, <3>2 DEF Page
    <3> QED
      BY <3>1, <3>2
  <2> HIDE DEF p
  <2> QED
    BY <1>t, <1>s, <2>1, <2>2, SettlingCall
<1>6. CASE Renamed(n)
  <2> DEFINE p == IF Ok(n)
                  THEN [page EXCEPT !.submitting = FALSE, !.renaming = None,
                            !.files = [i \in Item |->
                                IF i \in calls[n].items /\ @[i] # None
                                THEN calls[n].name ELSE @[i]]]
                  ELSE [page EXCEPT !.submitting = FALSE]
  <2>1. Settle(n, p) /\ calls[n].kind = "rename"
    BY <1>6 DEF Renamed, Back
  <2>2. /\ p.mounted = page.mounted /\ p.loading = page.loading
        /\ p.deleting = page.deleting /\ p.submitting = FALSE
        /\ p.selected = page.selected
    BY <1>t DEF Page
  <2>3. page.selected \subseteq There(page.files) => p.selected \subseteq There(p.files)
    <3>1. calls[n].name # None
      BY <2>1, FilesPageAssumption DEF PageInv, RenamesNamed
    <3>2. CASE Ok(n)
      <4>1. p.files = [i \in Item |-> IF i \in calls[n].items /\ page.files[i] # None
                                      THEN calls[n].name ELSE page.files[i]]
        BY <1>t, <3>2 DEF Page
      <4> QED
        BY <2>2, <3>1, <4>1 DEF There
    <3>3. CASE ~Ok(n)
      <4>1. p.files = page.files
        BY <1>t, <3>3 DEF Page
      <4> QED
        BY <2>2, <4>1
    <3> QED
      BY <3>2, <3>3
  <2> HIDE DEF p
  <2> QED
    BY <1>t, <1>s, <2>1, <2>2, <2>3, SettlingCall
<1>7. CASE Previewed(n)
  <2>1. PICK i : Settle(n, page) \/ Settle(n, [page EXCEPT !.image = i])
    BY <1>7 DEF Previewed
  <2>2. calls[n].kind = "info"
    BY <1>7 DEF Previewed, Back
  <2>3. CASE Settle(n, page)
    BY <1>t, <1>s, <2>2, <2>3, SettlingCall
  <2>4. CASE Settle(n, [page EXCEPT !.image = i])
    <3> DEFINE p == [page EXCEPT !.image = i]
    <3>1. /\ p.mounted = page.mounted /\ p.loading = page.loading
          /\ p.deleting = page.deleting /\ p.submitting = page.submitting
          /\ p.selected = page.selected /\ p.files = page.files
      BY <1>t DEF Page
    <3>2. Settle(n, p)
      BY <2>4
    <3> HIDE DEF p
    <3> QED
      BY <1>t, <1>s, <2>2, <3>1, <3>2, SettlingCall
  <2> QED
    BY <2>1, <2>3, <2>4
<1> QED
  BY <1>1, <1>2, <1>3, <1>4, <1>5, <1>6, <1>7 DEF Deliver

\* PageInv is inductive.
LEMMA PageStep ==
    ASSUME PageInv, [Next]_vars
    PROVE  PageInv'
<1>1. CASE UNCHANGED vars
  <2>1. TypeOK'
    BY TypeStep DEF PageInv
  <2> QED
    BY <1>1, <2>1, QuietAct DEF vars
<1>2. CASE Serving
  BY <1>2, ServeFlags DEF Serving
<1>3. CASE Delivering
  BY <1>3, DeliverFlags DEF Delivering
<1>4. ASSUME NEW i \in Item, Arrive(i)
      PROVE  PageInv'
  <2>1. TypeOK'
    BY <1>4, ArriveType DEF PageInv
  <2> QED
    BY <1>4, <2>1, QuietAct DEF Arrive
<1> QED
  BY <1>1, <1>2, <1>3, <1>4, NavigatingFlags, EditingFlags, WatchingFlags DEF Next

\* PageInv holds at the start, when the first listing has been sent.
LEMMA PageStart ==
    ASSUME Init
    PROVE  PageInv
<1>1. /\ TypeOK /\ calls \in Seq(Call) /\ DOMAIN calls = {1}
      /\ calls[1].kind = "load" /\ calls[1].mine
  BY TypeStart
<1>2. /\ page.mounted /\ page.loading /\ page.selected = {}
      /\ ~page.deleting /\ ~page.submitting
  BY StartValues DEF Init
<1>3. /\ Flying(calls, {"load"}) = {1} /\ Flying(calls, Lists) = {1}
      /\ Flying(calls, {"batch"}) = {} /\ Flying(calls, {"rename"}) = {}
  BY <1>1 DEF Flying, Lists
<1>4. GoneIsSilent /\ RenamesNamed /\ LoadingUnticked /\ TickedAreShown
  BY <1>1, <1>2 DEF GoneIsSilent, RenamesNamed, LoadingUnticked, TickedAreShown
<1>5. Flags /\ LoneList
  BY <1>2, <1>3 DEF Flags, LoneList, AtMostOne
<1> QED
  BY <1>1, <1>4, <1>5 DEF PageInv

\* The spinner, the delete button and the rename dialog of FilesPage.tsx
\* wait for exactly the calls of this page that are out, and there is at
\* most one batch and one rename.
THEOREM FlagsStandForCalls == Spec => []FlagsMatchCalls
<1>1. Init => PageInv
  BY PageStart
<1>2. PageInv /\ [Next]_vars => PageInv'
  BY PageStep
<1>3. PageInv => FlagsMatchCalls
  BY FlagsParts DEF PageInv
<1> QED
  BY <1>1, <1>2, <1>3, PTL DEF Spec

\* What handleBatchDelete would delete is on the screen, while no two
\* listings met and no refresh met a selection.
THEOREM TicksAreOnTheScreen == Spec => []TickedAreShown
<1>1. Init => PageInv
  BY PageStart
<1>2. PageInv /\ [Next]_vars => PageInv'
  BY PageStep
<1>3. PageInv => TickedAreShown
  BY DEF PageInv
<1> QED
  BY <1>1, <1>2, <1>3, PTL DEF Spec

-----------------------------------------------------------------------------
(***************************************************************************)
(* The files that are shown.  While calls are served and answered in order *)
(* the page is behind the drive by the calls that are still in flight: the *)
(* newest listing that is on its way, or the files on the screen if none   *)
(* is, and then the edits that the server has executed since, lead to what *)
(* the server would answer now.                                            *)
(***************************************************************************)

Edits == {"delete", "batch", "rename"}

\* What a call that was executed makes of a listing.
Edited(listing, call) ==
    IF call.kind \in {"delete", "batch"} THEN Unlisted(listing, call.items)
    ELSE IF call.kind = "rename"
    THEN [i \in Item |-> IF i \in call.items /\ listing[i] # None
                         THEN call.name ELSE listing[i]]
    ELSE listing

ListAt(s, n) == s[n].kind \in Lists /\ s[n].mine

\* k is the newest listing under way, 0 if there is none.
Newest(s, k) ==
    /\ k \in 0 .. Len(s)
    /\ k > 0 => ListAt(s, k)
    /\ \A n \in DOMAIN s : ListAt(s, n) => n <= k

\* The server has executed the calls from the first one on, without failure.
InTurn(s) ==
    /\ \A n \in DOMAIN s : s[n].state # "error"
    /\ \A m, n \in DOMAIN s : m < n /\ s[n].state # "sent" => s[m].state # "sent"

\* An edit of an earlier page comes before a listing of this one.
OwnEdits(s) ==
    \A n \in DOMAIN s : s[n].kind \in Edits /\ ~s[n].mine
        => \E m \in DOMAIN s : m > n /\ ListAt(s, m)

ServedTo(s, r) == \A n \in DOMAIN s : n <= r <=> s[n].state # "sent"

\* From base, the edits executed after the k-th call lead to target.
LeadsTo(s, k, base, target) ==
    \E V \in [Nat -> Listing] :
        /\ V[k] = base
        /\ \A n \in DOMAIN s :
               n > k /\ s[n].state # "sent" => V[n] = Edited(V[n - 1], s[n])
        /\ \A r \in k .. Len(s) : ServedTo(s, r) => V[r] = target

Base(s, k, files) == IF k = 0 THEN files ELSE s[k].answer

\* What a drive holds in a folder.
AnswerOf(drive, folder) ==
    [i \in Item |-> IF Home[i] = folder THEN drive[i] ELSE None]

\* The page shows a folder that is there.
InPlace(p, drive) ==
    p.keyword = None /\ (FolderOf(p) = Root \/ drive[FolderOf(p)] # None)

\* The calls s bring the page p to what the drive holds.
Follows(s, p, drive) ==
    /\ OwnEdits(s)
    /\ \A k \in 0 .. Len(s) : Newest(s, k) =>
           /\ k > 0 => s[k].query = QueryOf(p)
           /\ InPlace(p, drive)
                  => LeadsTo(s, k, Base(s, k, p.files), AnswerOf(drive, FolderOf(p)))

OrderInv ==
    /\ PageInv
    /\ orderly => InTurn(calls) /\ (page.mounted => Follows(calls, page, remote))

\* What the drive answers, now and after the step.
LEMMA AnswerIsAnswerOf ==
    /\ \A folder : Answer(folder) = AnswerOf(remote, folder)
    /\ \A folder : Answer(folder)' = AnswerOf(remote', folder)
  BY DEF Answer, AnswerOf

\* A listing that was not taken yet leads to anything.
LEMMA UntakenLeads ==
    ASSUME NEW s \in Seq(Call), InTurn(s), NEW k \in DOMAIN s, s[k].state = "sent",
           NEW base \in Listing, NEW target
    PROVE  LeadsTo(s, k, base, target)
<1> DEFINE V == [n \in Nat |-> base]
<1>1. V \in [Nat -> Listing] /\ V[k] = base
  OBVIOUS
<1>2. \A n \in DOMAIN s : n > k => s[n].state = "sent"
  BY DEF InTurn
<1>3. \A r \in k .. Len(s) : ~ServedTo(s, r)
  BY DEF ServedTo
<1> QED
  BY <1>1, <1>2, <1>3 DEF LeadsTo

\* A call that is sent comes after those that were executed.
LEMMA SentInTurn ==
    ASSUME NEW s \in Seq(Call), NEW c \in Call, c.state = "sent", InTurn(s)
    PROVE  InTurn(Append(s, c))
<1> DEFINE t == Append(s, c)
           last == Len(s) + 1
<1>1. /\ DOMAIN t = DOMAIN s \union {last} /\ t[last] = c
      /\ \A m \in DOMAIN s : t[m] = s[m] /\ m \in Nat /\ m < last
      /\ last \in Nat
  BY Appended
<1> HIDE DEF t, last
<1>2. InTurn(t)
  BY <1>1 DEF InTurn
<1> QED
  BY <1>2 DEF t

\* A call that lists nothing for this page, once sent, is one step more to
\* wait for.
LEMMA SentFollows ==
    ASSUME NEW s \in Seq(Call), NEW c \in Call, c.state = "sent", InTurn(s),
           NEW p, NEW drive, Follows(s, p, drive),
           c.kind \notin Lists \/ ~c.mine, c.mine \/ c.kind \notin Edits
    PROVE  Follows(Append(s, c), p, drive)
<1> DEFINE t == Append(s, c)
           last == Len(s) + 1
<1>1. /\ t \in Seq(Call) /\ Len(t) = last /\ last \in Nat
      /\ DOMAIN t = DOMAIN s \union {last} /\ t[last] = c
      /\ \A m \in DOMAIN s : t[m] = s[m] /\ m \in Nat /\ m < last
      /\ DOMAIN s = 1 .. Len(s) /\ Len(s) \in Nat /\ Len(s) = last - 1
  BY Appended
<1> HIDE DEF t, last
<1>2. OwnEdits(t)
  BY <1>1 DEF Follows, OwnEdits, ListAt
<1>3. ASSUME NEW k \in 0 .. Len(t), Newest(t, k)
      PROVE  k \in 0 .. Len(s) /\ Newest(s, k) /\ (k > 0 => t[k] = s[k])
  <2>1. ~ListAt(t, last)
    BY <1>1 DEF ListAt
  <2>2. k \in 0 .. Len(s)
    BY <1>1, <1>3, <2>1 DEF Newest
  <2>3. k > 0 => k \in DOMAIN s
    BY <1>1, <2>2
  <2> QED
    BY <1>1, <1>3, <2>2, <2>3 DEF Newest, ListAt
<1>4. ASSUME NEW k \in 0 .. Len(s), NEW base, NEW target, LeadsTo(s, k, base, target)
      PROVE  LeadsTo(t, k, base, target)
  <2>1. PICK V \in [Nat -> Listing] :
            /\ V[k] = base
            /\ \A n \in DOMAIN s :
                   n > k /\ s[n].state # "sent" => V[n] = Edited(V[n - 1], s[n])
            /\ \A r \in k .. Len(s) : ServedTo(s, r) => V[r] = target
    BY <1>4 DEF LeadsTo
  <2>2. ASSUME NEW r \in k .. Len(t), ServedTo(t, r)
        PROVE  r \in k .. Len(s) /\ ServedTo(s, r)
    BY <1>1, <2>2 DEF ServedTo
  <2>3. \A n \in DOMAIN t :
            n > k /\ t[n].state # "sent" => V[n] = Edited(V[n - 1], t[n])
    BY <1>1, <2>1
  <2> QED
    BY <2>1, <2>2, <2>3 DEF LeadsTo
<1>5. ASSUME NEW k \in 0 .. Len(t), Newest(t, k)
      PROVE  /\ k > 0 => t[k].query = QueryOf(p)
             /\ InPlace(p, drive)
                    => LeadsTo(t, k, Base(t, k, p.files), AnswerOf(drive, FolderOf(p)))
  <2>1. k \in 0 .. Len(s) /\ Newest(s, k) /\ (k > 0 => t[k] = s[k])
    BY <1>3, <1>5
  <2>2. Base(t, k, p.files) = Base(s, k, p.files)
    BY <2>1 DEF Base
  <2> QED
    BY <1>4, <2>1, <2>2 DEF Follows
<1>6. Follows(t, p, drive)
  BY <1>2, <1>5 DEF Follows
<1> QED
  BY <1>6 DEF t

\* A listing that is asked for will tell it all.
LEMMA AskedFollows ==
    ASSUME NEW s \in Seq(Call), NEW c \in Call, c.state = "sent", InTurn(s),
           NEW p, NEW drive, c.kind \in Lists, c.mine, c.query = QueryOf(p)
    PROVE  Follows(Append(s, c), p, drive)
<1> DEFINE t == Append(s, c)
           last == Len(s) + 1
<1>1. /\ t \in Seq(Call) /\ Len(t) = last /\ last \in Nat /\ last > 0
      /\ DOMAIN t = DOMAIN s \union {last} /\ t[last] = c
      /\ \A m \in DOMAIN s : t[m] = s[m] /\ m \in Nat /\ m < last
      /\ InTurn(t)
  BY Appended, SentInTurn
<1>2. c.answer \in Listing
  BY DEF Call
<1> HIDE DEF t, last
<1>3. ListAt(t, last)
  BY <1>1 DEF ListAt
<1>4. OwnEdits(t)
  BY <1>1, <1>3 DEF OwnEdits, Lists, Edits
<1>5. \A k \in 0 .. Len(t) : Newest(t, k) => k = last
  BY <1>1, <1>3 DEF Newest
<1>6. \A target : LeadsTo(t, last, Base(t, last, p.files), target)
  BY <1>1, <1>2, UntakenLeads DEF Base
<1>7. Follows(t, p, drive)
  BY <1>1, <1>4, <1>5, <1>6 DEF Follows
<1> QED
  BY <1>7 DEF t

\* The next call is executed.
LEMMA ServedUpTo ==
    ASSUME NEW s \in Seq(Call), NEW t \in Seq(Call), NEW n \in DOMAIN s, InTurn(s),
           DOMAIN t = DOMAIN s, Len(t) = Len(s),
           \A m \in DOMAIN s : m # n => t[m] = s[m],
           t[n].kind = s[n].kind, t[n].query = s[n].query, t[n].items = s[n].items,
           t[n].name = s[n].name, t[n].mine = s[n].mine,
           s[n].state = "sent", t[n].state = "ok",
           \A m \in 1 .. n - 1 : s[m].state # "sent"
    PROVE  /\ n \in Nat /\ n > 0 /\ n \in 1 .. Len(s) /\ Len(s) \in Nat
           /\ DOMAIN s = 1 .. Len(s) /\ DOMAIN s \subseteq Nat
           /\ \A m \in DOMAIN s : s[m].state # "sent" <=> m < n
           /\ \A m \in DOMAIN t : t[m].state # "sent" <=> m <= n
           /\ InTurn(t)
<1>n. /\ n \in Nat /\ n > 0 /\ n \in 1 .. Len(s) /\ Len(s) \in Nat
      /\ DOMAIN s = 1 .. Len(s) /\ DOMAIN s \subseteq Nat
  OBVIOUS
<1>u. \A m \in DOMAIN s : s[m].state # "sent" <=> m < n
  BY <1>n DEF InTurn
<1>v. \A m \in DOMAIN t : t[m].state # "sent" <=> m <= n
  BY <1>n, <1>u
<1>1. InTurn(t)
  BY <1>n, <1>v DEF InTurn
<1> QED
  BY <1>n, <1>u, <1>v, <1>1

\* The listing it took, or the edit it made, is what the drive now holds.
LEMMA ServedFollows ==
    ASSUME NEW s \in Seq(Call), NEW t \in Seq(Call), NEW n \in DOMAIN s, InTurn(s),
           DOMAIN t = DOMAIN s, Len(t) = Len(s),
           \A m \in DOMAIN s : m # n => t[m] = s[m],
           t[n].kind = s[n].kind, t[n].query = s[n].query, t[n].items = s[n].items,
           t[n].name = s[n].name, t[n].mine = s[n].mine,
           s[n].state = "sent", t[n].state = "ok",
           \A m \in 1 .. n - 1 : s[m].state # "sent",
           NEW p, NEW drive, NEW after, Follows(s, p, drive),
           p.files \in Listing,
           InPlace(p, after) => InPlace(p, drive),
           InPlace(p, after) =>
               AnswerOf(after, FolderOf(p))
                   = Edited(AnswerOf(drive, FolderOf(p)), s[n]),
           AnswerOf(after, FolderOf(p)) \in Listing,
           ListAt(s, n) /\ InPlace(p, after) /\ s[n].query = QueryOf(p)
               => t[n].answer = AnswerOf(after, FolderOf(p))
    PROVE  Follows(t, p, after)
<1>n. /\ n \in Nat /\ n > 0 /\ n \in 1 .. Len(s) /\ Len(s) \in Nat
      /\ DOMAIN s = 1 .. Len(s) /\ DOMAIN s \subseteq Nat
      /\ InTurn(t)
  BY ServedUpTo
<1>u. \A m \in DOMAIN s : s[m].state # "sent" <=> m < n
  BY ServedUpTo
<1>v. \A m \in DOMAIN t : t[m].state # "sent" <=> m <= n
  BY ServedUpTo
<1>1. \A m \in DOMAIN s : ListAt(t, m) <=> ListAt(s, m)
  BY DEF ListAt
<1>2. OwnEdits(t)
  BY <1>1 DEF Follows, OwnEdits
<1>3. ASSUME NEW k \in 0 .. Len(t), Newest(t, k)
      PROVE  /\ k > 0 => t[k].query = QueryOf(p)
             /\ InPlace(p, after)
                    => LeadsTo(t, k, Base(t, k, p.files), AnswerOf(after, FolderOf(p)))
  <2> DEFINE target == AnswerOf(after, FolderOf(p))
             base == Base(t, k, p.files)
  <2>1. /\ k \in 0 .. Len(s) /\ k \in Nat /\ (k > 0 => k \in DOMAIN s)
        /\ Newest(s, k)
    BY <1>n, <1>1, <1>3 DEF Newest
  <2>2. k > 0 => s[k].query = QueryOf(p)
    BY <2>1 DEF Follows
  <2>3. k > 0 => t[k].query = QueryOf(p)
    BY <2>1, <2>2
  <2>b. base \in Listing
    <3>1. k > 0 => t[k].answer \in Listing
      <4>1. k > 0 => t[k] \in Call
        BY <2>1
      <4> QED
        BY <4>1 DEF Call
    <3> QED
      BY <2>1, <3>1 DEF Base
  <2>4. ASSUME InPlace(p, after)
        PROVE  LeadsTo(t, k, base, target)
    <3>1. CASE n < k
      <4>1. k \in DOMAIN t /\ t[k].state = "sent"
        BY <1>n, <1>v, <2>1, <3>1
      <4> QED
        BY <1>n, <2>b, <4>1, UntakenLeads
    <3>2. CASE n = k
      <4>1. ListAt(s, n) /\ s[n].query = QueryOf(p)
        BY <1>n, <2>1, <2>2, <3>2 DEF Newest
      <4>2. base = target
        BY <1>n, <2>4, <3>2, <4>1 DEF Base
      <4> DEFINE V == [m \in Nat |-> base]
      <4>3. V \in [Nat -> Listing] /\ V[k] = base /\ \A r \in k .. Len(t) : V[r] = target
        BY <2>1, <2>b, <4>2
      <4>4. \A m \in DOMAIN t : m > k => t[m].state = "sent"
        BY <1>n, <1>v, <3>2
      <4> HIDE DEF V
      <4> QED
        BY <4>3, <4>4 DEF LeadsTo
    <3>3. CASE n > k
      <4>0. base = Base(s, k, p.files)
        BY <2>1, <3>3 DEF Base
      <4>1. PICK U \in [Nat -> Listing] :
                /\ U[k] = base
                /\ \A m \in DOMAIN s :
                       m > k /\ s[m].state # "sent" => U[m] = Edited(U[m - 1], s[m])
                /\ \A r \in k .. Len(s) :
                       ServedTo(s, r) => U[r] = AnswerOf(drive, FolderOf(p))
        <5>1. LeadsTo(s, k, base, AnswerOf(drive, FolderOf(p)))
          BY <2>1, <2>4, <4>0 DEF Follows
        <5> HIDE DEF base
        <5> QED
          BY <5>1 DEF LeadsTo
      <4>2. U[n - 1] = AnswerOf(drive, FolderOf(p))
        <5>1. n - 1 \in k .. Len(s) /\ ServedTo(s, n - 1)
          BY <1>n, <1>u, <2>1, <3>3 DEF ServedTo
        <5> QED
          BY <4>1, <5>1
      <4> DEFINE V == [U EXCEPT ![n] = target]
      <4>3. V \in [Nat -> Listing] /\ V[k] = base /\ V[n] = target
        BY <1>n, <2>1, <3>3, <4>1
      <4>4. \A m \in Nat : m # n => V[m] = U[m]
        BY <1>n
      <4> HIDE DEF V
      <4>5. ASSUME NEW m \in DOMAIN t, m > k, t[m].state # "sent"
            PROVE  V[m] = Edited(V[m - 1], t[m])
        <5>1. m <= n /\ m \in Nat /\ m - 1 \in Nat /\ m - 1 # n
          BY <1>n, <1>v, <2>1, <4>5
        <5>2. CASE m = n
          <6>1. V[m - 1] = AnswerOf(drive, FolderOf(p))
            BY <4>2, <4>4, <5>1, <5>2
          <6>2. Edited(V[m - 1], t[n]) = Edited(V[m - 1], s[n])
            BY DEF Edited
          <6>3. V[n] = Edited(AnswerOf(drive, FolderOf(p)), s[n])
            BY <2>4, <4>3
          <6> QED
            BY <5>2, <6>1, <6>2, <6>3
        <5>3. CASE m # n
          <6>1. s[m].state # "sent" /\ t[m] = s[m]
            BY <4>5, <5>3
          <6> QED
            BY <4>1, <4>4, <4>5, <5>1, <5>3, <6>1
        <5> QED
          BY <5>2, <5>3
      <4>6. ASSUME NEW r \in k .. Len(t), ServedTo(t, r)
            PROVE  V[r] = target
        <5>1. \A m \in DOMAIN t : m <= r <=> m <= n
          BY <1>v, <4>6 DEF ServedTo
        <5>2. r = n
          <6>1. r \in Nat /\ r <= Len(s) /\ n <= r
            BY <1>n, <2>1, <5>1
          <6>2. r \in DOMAIN t
            BY <1>n, <6>1
          <6> QED
            BY <1>n, <5>1, <6>1, <6>2
        <5> QED
          BY <4>3, <5>2
      <4> HIDE DEF base, target
      <4> QED
        BY <4>3, <4>5, <4>6 DEF LeadsTo
    <3> QED
      BY <1>n, <2>1, <3>1, <3>2, <3>3
  <2> QED
    BY <2>3, <2>4
<1> QED
  BY <1>2, <1>3 DEF Follows

\* The first call, which was executed, is settled: what is left is one step
\* shorter.
LEMMA FirstSettled ==
    ASSUME NEW s \in Seq(Call), 1 \in DOMAIN s, InTurn(s), s[1].state # "sent",
           NEW p, NEW drive, Follows(s, p, drive),
           NEW q, QueryOf(q) = QueryOf(p), FolderOf(q) = FolderOf(p),
           q.keyword = p.keyword,
           q.files = IF ListAt(s, 1) THEN s[1].answer
                     ELSE IF s[1].mine THEN Edited(p.files, s[1]) ELSE p.files
    PROVE  Follows(RemoveAt(s, 1), q, drive)
<1> DEFINE t == RemoveAt(s, 1)
<1>1. /\ t \in Seq(Call) /\ Len(t) = Len(s) - 1 /\ Len(s) \in Nat /\ Len(s) > 0
      /\ DOMAIN s = 1 .. Len(s) /\ DOMAIN t = 1 .. Len(t) /\ Len(t) \in Nat
      /\ \A m \in DOMAIN t : m + 1 \in DOMAIN s /\ t[m] = s[m + 1]
  <2>1. \A m \in DOMAIN t : m \in 1 .. Len(s) - 1 /\ t[m] = s[Before(m, 1)]
    BY Removed
  <2>2. \A m \in 1 .. Len(s) - 1 : Before(m, 1) = m + 1
    BY DEF Before
  <2>3. t \in Seq(Call) /\ Len(t) = Len(s) - 1
    BY Removed
  <2> HIDE DEF t
  <2> QED
    BY <2>1, <2>2, <2>3
<1> HIDE DEF t
<1>2. \A m \in DOMAIN t : ListAt(t, m) <=> ListAt(s, m + 1)
  BY <1>1 DEF ListAt
<1>3. \A m \in DOMAIN s : m = 1 \/ (m - 1 \in DOMAIN t /\ m = (m - 1) + 1)
  BY <1>1
<1>4. OwnEdits(t)
  <2> SUFFICES ASSUME NEW n \in DOMAIN t, t[n].kind \in Edits, ~t[n].mine
               PROVE  \E m \in DOMAIN t : m > n /\ ListAt(t, m)
    BY DEF OwnEdits
  <2>1. PICK m \in DOMAIN s : m > n + 1 /\ ListAt(s, m)
    BY <1>1 DEF Follows, OwnEdits
  <2>2. m - 1 \in DOMAIN t /\ m - 1 > n /\ ListAt(t, m - 1)
    BY <1>1, <1>2, <1>3, <2>1
  <2> QED
    BY <2>2
<1>5. ASSUME NEW j \in Nat, NEW base, NEW target, LeadsTo(s, j + 1, base, target)
      PROVE  LeadsTo(t, j, base, target)
  <2>1. PICK U \in [Nat -> Listing] :
            /\ U[j + 1] = base
            /\ \A n \in DOMAIN s :
                   n > j + 1 /\ s[n].state # "sent" => U[n] = Edited(U[n - 1], s[n])
            /\ \A r \in j + 1 .. Len(s) : ServedTo(s, r) => U[r] = target
    BY <1>5 DEF LeadsTo
  <2> DEFINE V == [n \in Nat |-> U[n + 1]]
  <2>2. V \in [Nat -> Listing] /\ V[j] = base /\ \A n \in Nat : V[n] = U[n + 1]
    BY <2>1
  <2> HIDE DEF V
  <2>3. ASSUME NEW n \in DOMAIN t, n > j, t[n].state # "sent"
        PROVE  V[n] = Edited(V[n - 1], t[n])
    <3>1. n \in Nat /\ n - 1 \in Nat /\ (n - 1) + 1 = n /\ (n + 1) - 1 = n
      BY <1>1
    <3>2. U[n + 1] = Edited(U[n], s[n + 1])
      BY <1>1, <2>1, <2>3, <3>1
    <3> QED
      BY <1>1, <2>2, <3>1, <3>2
  <2>4. ASSUME NEW r \in j .. Len(t), ServedTo(t, r)
        PROVE  V[r] = target
    <3>1. ServedTo(s, r + 1)
      <4> SUFFICES ASSUME NEW n \in DOMAIN s
                   PROVE  n <= r + 1 <=> s[n].state # "sent"
        BY DEF ServedTo
      <4>1. CASE n = 1
        BY <1>5, <4>1
      <4>2. CASE n # 1
        <5>1. n - 1 \in DOMAIN t /\ t[n - 1] = s[n]
          BY <1>1, <1>3, <4>2
        <5>2. n - 1 <= r <=> s[n].state # "sent"
          BY <2>4, <5>1 DEF ServedTo
        <5> QED
          BY <1>1, <1>5, <5>2
      <4> QED
        BY <4>1, <4>2
    <3>2. r \in Nat /\ r + 1 \in j + 1 .. Len(s)
      BY <1>1, <1>5
    <3> QED
      BY <2>1, <2>2, <3>1, <3>2
  <2> QED
    BY <2>2, <2>3, <2>4 DEF LeadsTo
<1>6. ASSUME NEW k \in 0 .. Len(t), Newest(t, k)
      PROVE  /\ k > 0 => t[k].query = QueryOf(q)
             /\ InPlace(q, drive)
                    => LeadsTo(t, k, Base(t, k, q.files), AnswerOf(drive, FolderOf(q)))
  <2> DEFINE target == AnswerOf(drive, FolderOf(p))
  <2>0. /\ k \in Nat /\ k + 1 \in 0 .. Len(s) /\ k + 1 > 0
        /\ AnswerOf(drive, FolderOf(q)) = target
        /\ InPlace(q, drive) => InPlace(p, drive)
    BY <1>1 DEF InPlace
  <2>1. CASE k > 0 \/ ListAt(s, 1)
    <3>1. Newest(s, k + 1)
      <4>1. ListAt(s, k + 1)
        BY <1>1, <1>2, <1>6, <2>1 DEF Newest
      <4>2. \A m \in DOMAIN s : ListAt(s, m) => m <= k + 1
        BY <1>1, <1>2, <1>3, <1>6 DEF Newest
      <4> QED
        BY <2>0, <4>1, <4>2 DEF Newest
    <3>2. /\ s[k + 1].query = QueryOf(p)
          /\ InPlace(p, drive) => LeadsTo(s, k + 1, s[k + 1].answer, target)
      BY <2>0, <3>1 DEF Follows, Base
    <3>3. Base(t, k, q.files) = s[k + 1].answer
      BY <1>1, <2>0, <2>1 DEF Base
    <3>4. k > 0 => t[k] = s[k + 1]
      BY <1>1
    <3> QED
      BY <1>5, <2>0, <3>2, <3>3, <3>4
  <2>2. CASE ~(k > 0 \/ ListAt(s, 1))
    <3>1. k = 0 /\ \A m \in DOMAIN s : ~ListAt(s, m)
      BY <1>1, <1>2, <1>3, <1>6, <2>0, <2>2 DEF Newest
    <3>2. Newest(s, 0)
      BY <1>1, <3>1 DEF Newest
    <3>3. q.files = Edited(p.files, s[1])
      <4>1. CASE s[1].mine
        BY <3>1, <4>1
      <4>2. CASE ~s[1].mine
        <5>1. s[1].kind \notin Edits
          BY <3>1, <4>2 DEF Follows, OwnEdits
        <5> QED
          BY <3>1, <4>2, <5>1 DEF Edited, Edits
      <4> QED
        BY <4>1, <4>2
    <3>4. ASSUME InPlace(p, drive)
          PROVE  LeadsTo(s, 1, q.files, target)
      <4>1. LeadsTo(s, 0, p.files, target)
        BY <1>1, <3>2, <3>4 DEF Follows, Base
      <4> HIDE DEF target
      <4>2. PICK V \in [Nat -> Listing] :
                /\ V[0] = p.files
                /\ \A n \in DOMAIN s :
                       n > 0 /\ s[n].state # "sent" => V[n] = Edited(V[n - 1], s[n])
                /\ \A r \in 0 .. Len(s) : ServedTo(s, r) => V[r] = target
        BY <4>1 DEF LeadsTo
      <4>3. V[1] = q.files
        <5>1. V[1] = Edited(V[1 - 1], s[1])
          BY <4>2
        <5> QED
          BY <3>3, <4>2, <5>1
      <4>4. \A n \in DOMAIN s :
                n > 1 /\ s[n].state # "sent" => V[n] = Edited(V[n - 1], s[n])
        BY <1>1, <4>2
      <4>5. \A r \in 1 .. Len(s) : ServedTo(s, r) => V[r] = target
        BY <4>2
      <4> QED
        BY <4>3, <4>4, <4>5 DEF LeadsTo
    <3>5. Base(t, k, q.files) = q.files /\ k + 1 = 1
      BY <3>1 DEF Base
    <3> HIDE DEF target
    <3> QED
      BY <1>5, <2>0, <3>1, <3>4, <3>5
  <2> QED
    BY <2>1, <2>2
<1>7. Follows(t, q, drive)
  BY <1>4, <1>6 DEF Follows
<1> QED
  BY <1>7 DEF t

\* The calls after the first one are in turn.
LEMMA FirstSettledInTurn ==
    ASSUME NEW s \in Seq(Call), 1 \in DOMAIN s, InTurn(s)
    PROVE  InTurn(RemoveAt(s, 1))
<1> DEFINE t == RemoveAt(s, 1)
<1>1. \A m \in DOMAIN t : m \in Nat /\ m + 1 \in DOMAIN s /\ t[m] = s[m + 1]
  <2>1. \A m \in DOMAIN t : m \in 1 .. Len(s) - 1 /\ t[m] = s[Before(m, 1)]
    BY Removed
  <2>2. \A m \in 1 .. Len(s) - 1 : Before(m, 1) = m + 1 /\ m + 1 \in DOMAIN s
    BY DEF Before
  <2> HIDE DEF t
  <2> QED
    BY <2>1, <2>2
<1> HIDE DEF t
<1>2. InTurn(t)
  BY <1>1 DEF InTurn
<1> QED
  BY <1>2 DEF t

-----------------------------------------------------------------------------
(***************************************************************************)
(* The steps.                                                              *)
(***************************************************************************)

\* An act that sends nothing.
LEMMA QuietFollows ==
    ASSUME OrderInv, PageInv', UNCHANGED <<remote, calls>>, orderly' => orderly,
           page'.mounted = page.mounted, page'.files = page.files,
           page'.keyword = page.keyword, FolderOf(page') = FolderOf(page)
    PROVE  OrderInv'
<1>1. QueryOf(page') = QueryOf(page)
  BY DEF QueryOf, FolderOf
<1>2. Follows(calls, page, remote) => Follows(calls, page', remote)
  BY <1>1 DEF Follows, InPlace
<1> QED
  BY <1>2 DEF OrderInv

\* An act that sends a call of the page, and asks for a listing whenever the
\* folder or the keyword is another one.
LEMMA SendingFollows ==
    ASSUME OrderInv, PageInv', UNCHANGED remote, orderly' => orderly,
           NEW call \in Call, Send(call), call.mine, call.state = "sent",
           \/ call.kind \in Lists /\ (orderly' => call.query = QueryOf(page'))
           \/ /\ call.kind \notin Lists /\ page.mounted
              /\ page'.files = page.files /\ page'.keyword = page.keyword
              /\ FolderOf(page') = FolderOf(page)
    PROVE  OrderInv'
<1> SUFFICES ASSUME orderly'
             PROVE  InTurn(calls') /\ (page'.mounted => Follows(calls', page', remote'))
  BY DEF OrderInv
<1>1. calls' = Append(calls, call) /\ calls \in Seq(Call) /\ InTurn(calls)
  BY DEF OrderInv, PageInv, TypeOK, Send
<1>2. InTurn(calls')
  BY <1>1, SentInTurn
<1>3. CASE call.kind \in Lists
  <2>1. Follows(Append(calls, call), page', remote)
    BY <1>1, <1>3, AskedFollows
  <2> QED
    BY <1>1, <1>2, <2>1
<1>4. CASE call.kind \notin Lists
  <2>1. Follows(calls, page, remote)
    BY <1>4 DEF OrderInv
  <2>2. Follows(Append(calls, call), page, remote)
    BY <1>1, <1>4, <2>1, SentFollows
  <2>3. QueryOf(page') = QueryOf(page)
    BY <1>4 DEF QueryOf, FolderOf
  <2>4. Follows(calls', page', remote)
    BY <1>1, <1>4, <2>2, <2>3 DEF Follows, InPlace
  <2> QED
    BY <1>2, <2>4
<1> QED
  BY <1>3, <1>4

\* A page that is shown anew.
LEMMA ShowingFollows ==
    ASSUME OrderInv, PageInv', UNCHANGED <<remote, orderly>>,
           NEW p \in Page, Len(p.path) > 0, Show(p),
           p.mounted = page.mounted, p.files = page.files
    PROVE  OrderInv'
<1>1. CASE Requeries(p)
  <2>1. page' = Cleared(p) /\ Send(Load(p))
    BY <1>1 DEF Show
  <2>2. /\ Load(p) \in Call /\ Load(p).kind = "load" /\ Load(p).mine
        /\ Load(p).query = QueryOf(p) /\ Load(p).state = "sent"
    BY LoadCall
  <2>3. Cleared(p).path = p.path /\ Cleared(p).keyword = p.keyword
    BY DEF Cleared, Page
  <2>4. QueryOf(page') = QueryOf(p)
    BY <2>1, <2>3 DEF QueryOf
  <2> QED
    BY <2>1, <2>2, <2>4, SendingFollows DEF Lists
<1>2. CASE ~Requeries(p)
  <2>1. page' = p /\ UNCHANGED calls
    BY <1>2 DEF Show
  <2>2. FolderOf(p) = FolderOf(page) /\ p.keyword = page.keyword
    BY <1>2 DEF Requeries
  <2> QED
    BY <2>1, <2>2, QuietFollows
<1> QED
  BY <1>1, <1>2

\* The user goes to another folder, or searches.
LEMMA NavigatingFollows ==
    ASSUME OrderInv, Navigating
    PROVE  OrderInv'
<1>t. /\ PageInv /\ PageInv' /\ TypeOK /\ page \in Page /\ Len(page.path) > 0
      /\ page.path \in Seq(Folder \union {Root}) /\ QueryOf(page) \in Query
  BY NavigatingFlags, QueryOfPage DEF OrderInv, PageInv, TypeOK, Page
<1>1. ASSUME NEW i \in Item, OpenFolder(i)
      PROVE  OrderInv'
  <2> DEFINE p == [page EXCEPT !.path = Append(@, i), !.keyword = None, !.menu = None]
  <2>1. i \in Folder /\ Show(p) /\ UNCHANGED <<remote, orderly>>
    BY <1>1 DEF OpenFolder
  <2>2. /\ Append(page.path, i) \in Seq(Folder \union {Root})
        /\ Len(Append(page.path, i)) > 0
    BY <1>t, <2>1
  <2>3. /\ p \in Page /\ Len(p.path) > 0 /\ p.mounted = page.mounted
        /\ p.files = page.files
    BY <1>t, <2>2 DEF Page
  <2> HIDE DEF p
  <2> QED
    BY <1>t, <2>1, <2>3, ShowingFollows
<1>2. ASSUME NEW n \in 1 .. Len(page.path), OpenBreadcrumb(n)
      PROVE  OrderInv'
  <2> DEFINE p == [page EXCEPT !.path = CrumbsTo(@, n), !.keyword = None, !.menu = None]
  <2>1. Show(p) /\ UNCHANGED <<remote, orderly>>
    BY <1>2 DEF OpenBreadcrumb
  <2>2. /\ CrumbsTo(page.path, n) \in Seq(Folder \union {Root})
        /\ Len(CrumbsTo(page.path, n)) > 0
    BY <1>t DEF CrumbsTo
  <2>3. /\ p \in Page /\ Len(p.path) > 0 /\ p.mounted = page.mounted
        /\ p.files = page.files
    BY <1>t, <2>2 DEF Page
  <2> HIDE DEF p
  <2> QED
    BY <1>t, <2>1, <2>3, ShowingFollows
<1>3. ASSUME NEW k \in Name \union {None}, Search(k)
      PROVE  OrderInv'
  <2> DEFINE p == [page EXCEPT !.keyword = k]
  <2>1. Show(p) /\ UNCHANGED <<remote, orderly>>
    BY <1>3 DEF Search
  <2>2. /\ p \in Page /\ Len(p.path) > 0 /\ p.mounted = page.mounted
        /\ p.files = page.files
    BY <1>t DEF Page
  <2> HIDE DEF p
  <2> QED
    BY <1>t, <2>1, <2>2, ShowingFollows
<1>4. ASSUME (\E i \in Item : OpenVideo(i)) \/ CloseViewer
      PROVE  OrderInv'
  <2>1. /\ page'.mounted = page.mounted /\ page'.files = page.files
        /\ page'.keyword = page.keyword /\ page'.path = page.path
        /\ UNCHANGED <<remote, calls, orderly>>
    BY <1>t, <1>4 DEF OpenVideo, CloseViewer, Page
  <2>2. FolderOf(page') = FolderOf(page)
    BY <2>1 DEF FolderOf
  <2> QED
    BY <1>t, <2>1, <2>2, QuietFollows
<1>5. ASSUME NEW i \in Item, Preview(i)
      PROVE  OrderInv'
  <2>1. /\ page.mounted /\ page'.files = page.files
        /\ page'.keyword = page.keyword /\ page'.path = page.path
        /\ UNCHANGED <<remote, orderly>>
    BY <1>t, <1>5 DEF Preview, Act, Page
  <2>2. /\ Sent("info", QueryOf(page), {i}, None) \in Call
        /\ Sent("info", QueryOf(page), {i}, None).kind = "info"
        /\ Sent("info", QueryOf(page), {i}, None).mine
        /\ Sent("info", QueryOf(page), {i}, None).state = "sent"
    BY <1>t, SentCall DEF Kinds
  <2>3. Send(Sent("info", QueryOf(page), {i}, None))
    BY <1>5 DEF Preview
  <2>4. FolderOf(page') = FolderOf(page)
    BY <2>1 DEF FolderOf
  <2> QED
    BY <1>t, <2>1, <2>2, <2>3, <2>4, SendingFollows DEF Lists
<1>6. ASSUME Leave
      PROVE  OrderInv'
  <2>1. /\ ~page'.mounted /\ orderly' = orderly /\ DOMAIN calls' = DOMAIN calls
        /\ \A n \in DOMAIN calls : calls'[n] = [calls[n] EXCEPT !.mine = FALSE]
    BY <1>t, <1>6, Orphaned DEF Leave, TypeOK, Page
  <2>2. \A n \in DOMAIN calls : calls'[n].state = calls[n].state
    BY <1>t, <2>1, CallFields DEF TypeOK, Call
  <2>3. InTurn(calls) => InTurn(calls')
    BY <2>1, <2>2 DEF InTurn
  <2> QED
    BY <1>t, <2>1, <2>3 DEF OrderInv
<1>7. ASSUME Return
      PROVE  OrderInv'
  <2>1. page' = FreshPage /\ Send(Load(FreshPage)) /\ UNCHANGED <<remote, orderly>>
    BY <1>7 DEF Return
  <2>2. /\ Load(FreshPage) \in Call /\ Load(FreshPage).kind = "load"
        /\ Load(FreshPage).mine /\ Load(FreshPage).state = "sent"
        /\ Load(FreshPage).query = QueryOf(FreshPage)
    BY StartValues, LoadCall
  <2> QED
    BY <1>t, <2>1, <2>2, SendingFollows DEF Lists
<1> QED
  BY <1>1, <1>2, <1>3, <1>4, <1>5, <1>6, <1>7 DEF Navigating

\* The user ticks, renames or deletes.
LEMMA EditingFollows ==
    ASSUME OrderInv, Editing
    PROVE  OrderInv'
<1>t. /\ PageInv /\ PageInv' /\ TypeOK /\ page \in Page /\ QueryOf(page) \in Query
      /\ page.selected \in SUBSET Item /\ page.renaming \in Item \union {None}
  BY EditingFlags, QueryOfPage DEF OrderInv, PageInv, TypeOK, Page
<1>1. ASSUME \/ \E i \in Item : ToggleSelect(i) \/ OpenMenu(i)
             \/ Unselect \/ CloseMenu \/ StartRename \/ CloseRename
      PROVE  OrderInv'
  <2>1. /\ page'.mounted = page.mounted /\ page'.files = page.files
        /\ page'.keyword = page.keyword /\ page'.path = page.path
        /\ UNCHANGED <<remote, calls, orderly>>
    BY <1>t, <1>1
       DEF ToggleSelect, OpenMenu, Unselect, CloseMenu, StartRename, CloseRename, Page
  <2>2. FolderOf(page') = FolderOf(page)
    BY <2>1 DEF FolderOf
  <2> QED
    BY <1>t, <2>1, <2>2, QuietFollows
<1>2. ASSUME NEW call \in Call, Send(call), call.mine, call.state = "sent",
             call.kind \in Edits, UNCHANGED <<remote, orderly>>, page.mounted,
             page'.files = page.files, page'.keyword = page.keyword,
             page'.path = page.path
      PROVE  OrderInv'
  <2>1. FolderOf(page') = FolderOf(page) /\ call.kind \notin Lists
    BY <1>2 DEF FolderOf, Edits, Lists
  <2> QED
    BY <1>t, <1>2, <2>1, SendingFollows
<1>3. ASSUME NEW i \in Item, DeleteSingle(i)
      PROVE  OrderInv'
  <2> DEFINE call == Sent("delete", QueryOf(page), {i}, None)
  <2>1. /\ page.mounted /\ page'.files = page.files /\ page'.keyword = page.keyword
        /\ page'.path = page.path /\ UNCHANGED <<remote, orderly>>
    BY <1>t, <1>3 DEF DeleteSingle, Act, Page
  <2>2. /\ call \in Call /\ call.kind \in Edits /\ call.mine /\ call.state = "sent"
    BY <1>t, SentCall DEF Kinds, Edits
  <2>3. Send(call)
    BY <1>3 DEF DeleteSingle
  <2> HIDE DEF call
  <2> QED
    BY <1>2, <2>1, <2>2, <2>3
<1>4. ASSUME BatchDelete
      PROVE  OrderInv'
  <2> DEFINE call == Sent("batch", QueryOf(page), page.selected, None)
  <2>1. /\ page.mounted /\ page'.files = page.files /\ page'.keyword = page.keyword
        /\ page'.path = page.path /\ UNCHANGED <<remote, orderly>>
    BY <1>t, <1>4 DEF BatchDelete, Act, Page
  <2>2. /\ call \in Call /\ call.kind \in Edits /\ call.mine /\ call.state = "sent"
    BY <1>t, SentCall DEF Kinds, Edits
  <2>3. Send(call)
    BY <1>4 DEF BatchDelete
  <2> HIDE DEF call
  <2> QED
    BY <1>2, <2>1, <2>2, <2>3
<1>5. ASSUME NEW name \in Name, ConfirmRename(name)
      PROVE  OrderInv'
  <2> DEFINE call == Sent("rename", QueryOf(page), {page.renaming}, name)
  <2>1. /\ page.mounted /\ page'.files = page.files /\ page'.keyword = page.keyword
        /\ page'.path = page.path /\ UNCHANGED <<remote, orderly>>
    BY <1>t, <1>5 DEF ConfirmRename, Act, Page
  <2>2. /\ call \in Call /\ call.kind \in Edits /\ call.mine /\ call.state = "sent"
    BY <1>t, <1>5, SentCall DEF Kinds, Edits, ConfirmRename
  <2>3. Send(call)
    BY <1>5 DEF ConfirmRename
  <2> HIDE DEF call
  <2> QED
    BY <1>2, <2>1, <2>2, <2>3
<1> QED
  BY <1>1, <1>3, <1>4, <1>5 DEF Editing

\* The watcher asks for the folder it knows.
LEMMA WatchingFollows ==
    ASSUME OrderInv, Watching
    PROVE  OrderInv'
<1>t. /\ PageInv /\ PageInv' /\ TypeOK /\ page \in Page /\ FolderOf(page) \in Query
      /\ page.keyword = None => QueryOf(page) = FolderOf(page)
      /\ orderly \in BOOLEAN
  BY WatchingFlags, QueryOfPage DEF OrderInv, PageInv, TypeOK, Query
<1>1. page.mounted /\ page' = page /\ UNCHANGED remote
  BY DEF Watching, Check, DelayedReload, Act
<1>2. CASE Check
  <2>1. Send(Sent("check", FolderOf(page), {}, None)) /\ UNCHANGED orderly
    BY <1>2 DEF Check
  <2>2. /\ Sent("check", FolderOf(page), {}, None) \in Call
        /\ Sent("check", FolderOf(page), {}, None).kind = "check"
        /\ Sent("check", FolderOf(page), {}, None).mine
        /\ Sent("check", FolderOf(page), {}, None).state = "sent"
    BY <1>t, SentCall DEF Kinds
  <2> QED
    BY <1>t, <1>1, <2>1, <2>2, SendingFollows DEF Lists
<1>3. CASE DelayedReload
  <2>1. /\ Send(Sent("reload", FolderOf(page), {}, None))
        /\ orderly' = (orderly /\ page.keyword = None)
    BY <1>3 DEF DelayedReload
  <2>2. /\ Sent("reload", FolderOf(page), {}, None) \in Call
        /\ Sent("reload", FolderOf(page), {}, None).kind = "reload"
        /\ Sent("reload", FolderOf(page), {}, None).mine
        /\ Sent("reload", FolderOf(page), {}, None).state = "sent"
        /\ Sent("reload", FolderOf(page), {}, None).query = FolderOf(page)
    BY <1>t, SentCall DEF Kinds
  <2> QED
    BY <1>t, <1>1, <2>1, <2>2, SendingFollows DEF Lists
<1> QED
  BY <1>2, <1>3 DEF Watching

\* A listing of a folder that is still there changes as its edit says: who
\* deletes the folder's own items, or renames some.
LEMMA EditedDrive ==
    ASSUME NEW drive \in Listing, NEW p \in Page, Len(p.path) > 0,
           NEW call \in Call, NEW after \in Listing, InPlace(p, after),
           \/ call.kind \in {"delete", "batch"} /\ after = Without(drive, call.items)
           \/ /\ call.kind = "rename"
              /\ after = [i \in Item |-> IF i \in call.items /\ drive[i] # None
                                         THEN call.name ELSE drive[i]]
           \/ call.kind \notin Edits /\ after = drive
    PROVE  /\ InPlace(p, drive)
           /\ AnswerOf(after, FolderOf(p)) = Edited(AnswerOf(drive, FolderOf(p)), call)
<1> DEFINE q == FolderOf(p)
<1>1. /\ q \in Folder \union {Root} /\ q \notin Name /\ p.keyword = None
      /\ q = Root \/ after[q] # None
      /\ q # Root => q \in Item
      /\ call.items \in SUBSET Item /\ Root \notin Item
  BY QueryOfPage, FilesPageAssumption DEF InPlace, Call
<1> HIDE DEF q
<1>2. /\ AnswerOf(drive, q) = [i \in Item |-> IF Home[i] = q THEN drive[i] ELSE None]
      /\ AnswerOf(after, q) = [i \in Item |-> IF Home[i] = q THEN after[i] ELSE None]
  BY <1>1 DEF AnswerOf
<1>3. CASE call.kind \in {"delete", "batch"}
  <2>1. after = [i \in Item |-> IF i \in call.items \/ Home[i] \in call.items
                                THEN None ELSE drive[i]]
    BY <1>3 DEF Without, Edits
  <2>2. q \notin call.items /\ (q = Root \/ drive[q] # None)
    BY <1>1, <2>1
  <2>3. Edited(AnswerOf(drive, q), call)
            = [i \in Item |-> IF i \in call.items THEN None ELSE AnswerOf(drive, q)[i]]
    BY <1>3 DEF Edited, Unlisted
  <2>4. ASSUME NEW i \in Item
        PROVE  AnswerOf(after, q)[i] = Edited(AnswerOf(drive, q), call)[i]
    <3>1. AnswerOf(after, q)[i] = IF Home[i] = q THEN after[i] ELSE None
      BY <1>2
    <3>2. Edited(AnswerOf(drive, q), call)[i]
              = IF i \in call.items THEN None ELSE IF Home[i] = q THEN drive[i] ELSE None
      BY <1>2, <2>3
    <3>3. after[i] = IF i \in call.items \/ Home[i] \in call.items THEN None ELSE drive[i]
      BY <2>1
    <3> QED
      BY <2>2, <3>1, <3>2, <3>3
  <2>5. AnswerOf(after, q) = Edited(AnswerOf(drive, q), call)
    BY <1>2, <2>3, <2>4
  <2> QED
    BY <1>1, <2>2, <2>5 DEF InPlace, q
<1>4. CASE call.kind = "rename"
  <2>1. after = [i \in Item |-> IF i \in call.items /\ drive[i] # None
                                THEN call.name ELSE drive[i]]
    BY <1>4 DEF Edits
  <2>2. q = Root \/ drive[q] # None
    BY <1>1, <2>1
  <2>3. Edited(AnswerOf(drive, q), call)
            = [i \in Item |-> IF i \in call.items /\ AnswerOf(drive, q)[i] # None
                              THEN call.name ELSE AnswerOf(drive, q)[i]]
    BY <1>4 DEF Edited
  <2>4. ASSUME NEW i \in Item
        PROVE  AnswerOf(after, q)[i] = Edited(AnswerOf(drive, q), call)[i]
    <3>1. AnswerOf(after, q)[i] = IF Home[i] = q THEN after[i] ELSE None
      BY <1>2
    <3>2. AnswerOf(drive, q)[i] = IF Home[i] = q THEN drive[i] ELSE None
      BY <1>2
    <3>3. Edited(AnswerOf(drive, q), call)[i]
              = IF i \in call.items /\ AnswerOf(drive, q)[i] # None
                THEN call.name ELSE AnswerOf(drive, q)[i]
      BY <2>3
    <3>4. after[i] = IF i \in call.items /\ drive[i] # None THEN call.name ELSE drive[i]
      BY <2>1
    <3> QED
      BY <3>1, <3>2, <3>3, <3>4
  <2>5. AnswerOf(after, q) = Edited(AnswerOf(drive, q), call)
    BY <1>2, <2>3, <2>4
  <2> QED
    BY <1>1, <2>2, <2>5 DEF InPlace, q
<1>5. CASE call.kind \notin Edits
  BY <1>1, <1>5 DEF InPlace, Edited, Edits, q
<1> QED
  BY <1>3, <1>4, <1>5 DEF Edits

\* The server executes a call.
LEMMA ServeFollows ==
    ASSUME OrderInv, NEW n \in DOMAIN calls, Serve(n)
    PROVE  OrderInv'
<1>t. /\ PageInv /\ PageInv' /\ TypeOK /\ TypeOK' /\ page' = page
      /\ page \in Page /\ Len(page.path) > 0 /\ page.files \in Listing
      /\ calls \in Seq(Call) /\ calls' \in Seq(Call) /\ calls[n] \in Call
      /\ calls[n].state = "sent" /\ calls[n].answer \in Listing
      /\ calls[n].query \in Query /\ calls[n].kind \in Kinds
      /\ remote \in Listing /\ remote' \in Listing /\ orderly \in BOOLEAN
  BY ServeFlags, CallFields
     DEF OrderInv, PageInv, TypeOK, Page, Serve, ServeList, ServeRead,
         ServeDelete, ServeRename
<1> SUFFICES ASSUME orderly'
             PROVE  InTurn(calls') /\ (page.mounted => Follows(calls', page, remote'))
  BY <1>t DEF OrderInv
<1>1. \E answer \in Listing :
          /\ Served(n, "ok", answer) /\ orderly /\ InOrder(n)
          /\ ListAt(calls, n) => calls[n].query \in Name \/ answer = Answer(calls[n].query)
          /\ \/ /\ calls[n].kind \in {"delete", "batch"}
                /\ remote' = Without(remote, calls[n].items)
             \/ /\ calls[n].kind = "rename"
                /\ remote' = [i \in Item |-> IF i \in calls[n].items /\ remote[i] # None
                                             THEN calls[n].name ELSE remote[i]]
             \/ calls[n].kind \notin Edits /\ remote' = remote
  <2>1. CASE ServeRead(n)
    <3>1. /\ Served(n, "ok", calls[n].answer) /\ orderly /\ InOrder(n)
          /\ calls[n].kind \in {"check", "info"} /\ remote' = remote
      BY <1>t, <2>1 DEF ServeRead
    <3> QED
      BY <1>t, <3>1 DEF ListAt, Lists, Edits
  <2>4. CASE ServeList(n)
    <3>1. PICK answer \in Answers(calls[n].query) :
              /\ Served(n, "ok", answer) /\ orderly /\ InOrder(n)
              /\ calls[n].query \in Name \/ answer = Answer(calls[n].query)
      BY <1>t, <2>4 DEF ServeList
    <3>2. calls[n].kind \notin Edits /\ remote' = remote
      BY <2>4 DEF ServeList, Lists, Edits
    <3>3. answer \in Listing
      BY <1>t, Listings
    <3> QED
      BY <3>1, <3>2, <3>3
  <2>2. CASE ServeDelete(n)
    <3>1. PICK state \in {"ok", "error"}, done \in SUBSET calls[n].items :
              /\ Served(n, state, calls[n].answer)
              /\ remote' = Without(remote, done)
              /\ orderly' = (orderly /\ InOrder(n) /\ state = "ok"
                                     /\ done = calls[n].items)
      BY <2>2 DEF ServeDelete
    <3>2. state = "ok" /\ orderly /\ InOrder(n) /\ done = calls[n].items
      BY <1>t, <3>1
    <3>3. calls[n].kind \in {"delete", "batch"} /\ ~ListAt(calls, n)
      BY <2>2 DEF ServeDelete, ListAt, Lists
    <3> QED
      BY <1>t, <3>1, <3>2, <3>3
  <2>3. CASE ServeRename(n)
    <3>1. PICK state \in {"ok", "error"}, done \in BOOLEAN :
              /\ state = "ok" => done
              /\ Served(n, state, calls[n].answer)
              /\ remote' = [i \in Item |->
                     IF done /\ i \in calls[n].items /\ remote[i] # None
                     THEN calls[n].name ELSE remote[i]]
              /\ orderly' = (orderly /\ InOrder(n) /\ state = "ok")
      BY <2>3 DEF ServeRename
    <3>2. state = "ok" /\ orderly /\ InOrder(n) /\ done
      BY <1>t, <3>1
    <3>3. calls[n].kind = "rename" /\ ~ListAt(calls, n)
      BY <2>3 DEF ServeRename, ListAt, Lists
    <3> QED
      BY <1>t, <3>1, <3>2, <3>3
  <2> QED
    BY <2>1, <2>2, <2>3, <2>4 DEF Serve
<1>2. PICK answer \in Listing :
          /\ Served(n, "ok", answer) /\ orderly /\ InOrder(n)
          /\ ListAt(calls, n) => calls[n].query \in Name \/ answer = Answer(calls[n].query)
          /\ \/ /\ calls[n].kind \in {"delete", "batch"}
                /\ remote' = Without(remote, calls[n].items)
             \/ /\ calls[n].kind = "rename"
                /\ remote' = [i \in Item |-> IF i \in calls[n].items /\ remote[i] # None
                                             THEN calls[n].name ELSE remote[i]]
             \/ calls[n].kind \notin Edits /\ remote' = remote
  BY <1>1
<1>3. /\ DOMAIN calls' = DOMAIN calls /\ Len(calls') = Len(calls)
      /\ \A m \in DOMAIN calls : m # n => calls'[m] = calls[m]
      /\ calls'[n].kind = calls[n].kind /\ calls'[n].query = calls[n].query
      /\ calls'[n].items = calls[n].items /\ calls'[n].name = calls[n].name
      /\ calls'[n].mine = calls[n].mine /\ calls'[n].state = "ok"
      /\ calls'[n].answer = answer
  BY <1>t, <1>2, Answered
<1>4. InTurn(calls) /\ \A m \in 1 .. n - 1 : calls[m].state # "sent"
  BY <1>2 DEF OrderInv, InOrder
<1>5. InTurn(calls')
  BY <1>t, <1>3, <1>4, ServedUpTo
<1>6. ASSUME page.mounted
      PROVE  Follows(calls', page, remote')
  <2>1. Follows(calls, page, remote)
    BY <1>2, <1>6 DEF OrderInv
  <2>2. InPlace(page, remote') =>
            /\ InPlace(page, remote)
            /\ AnswerOf(remote', FolderOf(page))
                   = Edited(AnswerOf(remote, FolderOf(page)), calls[n])
    BY <1>t, <1>2, EditedDrive
  <2>3. AnswerOf(remote', FolderOf(page)) \in Listing
    BY <1>t DEF AnswerOf, Listing
  <2>4. ASSUME ListAt(calls, n), InPlace(page, remote'), calls[n].query = QueryOf(page)
        PROVE  calls'[n].answer = AnswerOf(remote', FolderOf(page))
    <3>1. QueryOf(page) = FolderOf(page) /\ FolderOf(page) \in Folder \union {Root}
      BY <1>t, <2>4, QueryOfPage DEF InPlace
    <3>2. FolderOf(page) \notin Name
      BY <3>1, FilesPageAssumption
    <3>3. answer = AnswerOf(remote, FolderOf(page)) /\ remote' = remote
      BY <1>2, <2>4, <3>1, <3>2, AnswerIsAnswerOf DEF ListAt, Lists, Edits
    <3> QED
      BY <1>3, <3>3
  <2> QED
    BY <1>t, <1>3, <1>4, <2>1, <2>2, <2>3, <2>4, ServedFollows
<1> QED
  BY <1>5, <1>6

\* The handler of the first call goes on with it.
LEMMA FirstDelivered ==
    ASSUME OrderInv, PageInv', 1 \in DOMAIN calls, calls[1].state # "sent", orderly,
           calls' = RemoveAt(calls, 1), UNCHANGED remote,
           page'.mounted = page.mounted,
           page'.keyword = page.keyword, page'.path = page.path,
           page'.files = IF ListAt(calls, 1) THEN calls[1].answer
                         ELSE IF calls[1].mine THEN Edited(page.files, calls[1])
                         ELSE page.files
    PROVE  OrderInv'
<1>1. calls \in Seq(Call) /\ InTurn(calls)
  BY DEF OrderInv, PageInv, TypeOK
<1>2. FolderOf(page') = FolderOf(page) /\ QueryOf(page') = QueryOf(page)
  BY DEF FolderOf, QueryOf
<1>3. InTurn(calls')
  BY <1>1, FirstSettledInTurn
<1>4. ASSUME page.mounted
      PROVE  Follows(calls', page', remote')
  <2>1. Follows(calls, page, remote)
    BY <1>4 DEF OrderInv
  <2>2. Follows(RemoveAt(calls, 1), page', remote)
    BY <1>1, <1>2, <2>1, FirstSettled
  <2> QED
    BY <2>2
<1> QED
  BY <1>3, <1>4 DEF OrderInv

\* The same for the handlers that do nothing more than Settle.
LEMMA SettleFollows ==
    ASSUME OrderInv, PageInv', NEW n \in DOMAIN calls, calls[n].state # "sent",
           NEW p, Settle(n, p), p.mounted = page.mounted,
           p.keyword = page.keyword, p.path = page.path,
           calls[n].mine /\ calls[n].state = "ok" =>
               p.files = IF calls[n].kind \in Lists THEN calls[n].answer
                         ELSE Edited(page.files, calls[n])
    PROVE  OrderInv'
<1>1. /\ calls' = RemoveAt(calls, n) /\ UNCHANGED remote
      /\ page' = IF calls[n].mine THEN p ELSE page
      /\ orderly' => orderly /\ n = 1
  BY DEF Settle, OrderInv, PageInv, TypeOK
<1>2. CASE ~orderly'
  BY <1>2 DEF OrderInv
<1>3. CASE orderly'
  <2>1. orderly /\ n = 1 /\ 1 \in DOMAIN calls /\ calls[1].state = "ok"
    <3>1. /\ orderly /\ n = 1 /\ InTurn(calls)
          /\ calls[n].state \in {"sent", "ok", "error"}
      BY <1>1, <1>3, CallFields DEF OrderInv, PageInv, TypeOK
    <3> QED
      BY <3>1 DEF InTurn
  <2>2. /\ page'.mounted = page.mounted /\ page'.keyword = page.keyword
        /\ page'.path = page.path
    BY <1>1
  <2>3. page'.files = IF ListAt(calls, 1) THEN calls[1].answer
                      ELSE IF calls[1].mine THEN Edited(page.files, calls[1])
                      ELSE page.files
    BY <1>1, <2>1 DEF ListAt
  <2> QED
    BY <1>1, <2>1, <2>2, <2>3, FirstDelivered
<1> QED
  BY <1>2, <1>3

\* The second halves of the handlers.
LEMMA DeliverFollows ==
    ASSUME OrderInv, NEW n \in DOMAIN calls, Deliver(n)
    PROVE  OrderInv'
<1>t. /\ PageInv /\ PageInv' /\ TypeOK /\ page \in Page /\ page.files \in Listing
      /\ Len(page.path) > 0 /\ calls \in Seq(Call) /\ calls[n] \in Call
      /\ calls[n].query \in Query /\ calls[n].mine \in BOOLEAN
      /\ calls[n].state \in {"sent", "ok", "error"} /\ orderly \in BOOLEAN
  BY DeliverFlags, CallFields DEF OrderInv, PageInv, TypeOK, Page
<1>s. calls[n].state # "sent"
  BY DEF Deliver, Loaded, Checked, Refreshed, Deleted, BatchDeleted, Renamed,
         Previewed, Back
<1>1. CASE Loaded(n)
  <2> DEFINE p == [page EXCEPT !.loading = FALSE,
                       !.files = IF Ok(n) THEN calls[n].answer ELSE @]
  <2>1. Settle(n, p) /\ calls[n].kind \in Lists
    BY <1>1 DEF Loaded, Back, Lists
  <2>2. /\ p.mounted = page.mounted /\ p.keyword = page.keyword
        /\ p.path = page.path
        /\ p.files = IF Ok(n) THEN calls[n].answer ELSE page.files
    BY <1>t DEF Page
  <2> HIDE DEF p
  <2> QED
    BY <1>t, <1>s, <2>1, <2>2, SettleFollows DEF Ok
<1>2. CASE Checked(n)
  <2>k. /\ calls[n].kind = "check" /\ calls[n].kind \notin Lists
        /\ Edited(page.files, calls[n]) = page.files
    BY <1>2 DEF Checked, Back, Lists, Edited
  <2>1. CASE Settle(n, page)
    BY <1>t, <1>s, <2>k, <2>1, SettleFollows
  <2>2. ASSUME calls' = Append(RemoveAt(calls, n),
                   [Sent("refresh", calls[n].query, {}, None)
                       EXCEPT !.mine = calls[n].mine]),
               UNCHANGED <<remote, page, acts>>,
               orderly' = (orderly /\ n = 1 /\ calls[n].query = QueryOf(page))
        PROVE  OrderInv'
    <3> SUFFICES ASSUME orderly'
                 PROVE  /\ InTurn(calls')
                        /\ page.mounted => Follows(calls', page, remote)
      BY <1>t, <2>2 DEF OrderInv
    <3> DEFINE rest == RemoveAt(calls, 1)
               c == [Sent("refresh", calls[n].query, {}, None)
                        EXCEPT !.mine = calls[n].mine]
    <3>1. /\ c \in Call /\ c.kind = "refresh" /\ c.mine = calls[n].mine
          /\ c.state = "sent" /\ c.query = calls[n].query
      <4>1. /\ Sent("refresh", calls[n].query, {}, None) \in Call
            /\ Sent("refresh", calls[n].query, {}, None).kind = "refresh"
            /\ Sent("refresh", calls[n].query, {}, None).query = calls[n].query
            /\ Sent("refresh", calls[n].query, {}, None).state = "sent"
        BY <1>t, SentCall DEF Kinds
      <4> QED
        BY <1>t, <4>1 DEF Call
    <3>2. orderly /\ n = 1 /\ calls[n].query = QueryOf(page) /\ InTurn(calls)
      BY <1>t, <2>2 DEF OrderInv
    <3>3. calls' = Append(rest, c) /\ rest \in Seq(Call) /\ InTurn(rest)
      BY <1>t, <2>2, <3>2, Removed, FirstSettledInTurn
    <3>4. ASSUME page.mounted
          PROVE  Follows(rest, page, remote)
      <4>1. Follows(calls, page, remote)
        BY <3>2, <3>4 DEF OrderInv
      <4>2. ~ListAt(calls, 1)
        BY <2>k, <3>2 DEF ListAt
      <4>3. page.files = IF ListAt(calls, 1) THEN calls[1].answer
                         ELSE IF calls[1].mine THEN Edited(page.files, calls[1])
                         ELSE page.files
        BY <2>k, <3>2, <4>2
      <4> QED
        BY <1>t, <1>s, <3>2, <4>1, <4>3, FirstSettled
    <3> HIDE DEF rest, c
    <3>5. InTurn(calls')
      BY <3>1, <3>3, SentInTurn
    <3>6. ASSUME page.mounted
          PROVE  Follows(calls', page, remote)
      <4>1. CASE c.mine
        <5>1. c.kind \in Lists /\ c.query = QueryOf(page)
          BY <3>1, <3>2 DEF Lists
        <5> QED
          BY <3>1, <3>3, <4>1, <5>1, AskedFollows
      <4>2. CASE ~c.mine
        <5>1. c.kind \notin Edits
          BY <3>1 DEF Edits
        <5> QED
          BY <3>1, <3>3, <3>4, <3>6, <4>2, <5>1, SentFollows
      <4> QED
        BY <4>1, <4>2
    <3> QED
      BY <3>5, <3>6
  <2> QED
    BY <1>2, <2>1, <2>2 DEF Checked
<1>3. CASE Refreshed(n)
  <2>1. /\ calls[n].kind \in Lists /\ calls' = RemoveAt(calls, n)
        /\ page' = IF calls[n].mine /\ Ok(n)
                   THEN [page EXCEPT !.files = calls[n].answer] ELSE page
        /\ orderly' = (orderly /\ n = 1 /\ calls[n].query = QueryOf(page))
        /\ UNCHANGED remote
    BY <1>3 DEF Refreshed, Back, Lists
  <2>2. /\ page'.mounted = page.mounted /\ page'.keyword = page.keyword
        /\ page'.path = page.path
        /\ page'.files = IF calls[n].mine /\ Ok(n) THEN calls[n].answer ELSE page.files
    BY <1>t, <2>1 DEF Page
  <2>3. CASE ~orderly'
    BY <1>t, <2>3 DEF OrderInv
  <2>4. CASE orderly'
    <3>1. orderly /\ n = 1 /\ InTurn(calls)
      BY <1>t, <2>1, <2>4 DEF OrderInv
    <3>2. calls[1].state = "ok"
      BY <1>t, <1>s, <3>1 DEF InTurn
    <3>3. page'.files = IF ListAt(calls, 1) THEN calls[1].answer
                        ELSE IF calls[1].mine THEN Edited(page.files, calls[1])
                        ELSE page.files
      BY <2>1, <2>2, <3>1, <3>2 DEF ListAt, Ok
    <3> QED
      BY <1>t, <1>s, <2>1, <2>2, <3>1, <3>3, FirstDelivered
  <2> QED
    BY <2>3, <2>4
<1>4. CASE Deleted(n)
  <2> DEFINE p == IF Ok(n) THEN [page EXCEPT !.files = Unlisted(@, calls[n].items),
                                     !.selected = @ \ calls[n].items]
                  ELSE page
  <2>1. Settle(n, p) /\ calls[n].kind = "delete"
    BY <1>4 DEF Deleted, Back
  <2>2. /\ p.mounted = page.mounted /\ p.keyword = page.keyword /\ p.path = page.path
        /\ Ok(n) => p.files = Unlisted(page.files, calls[n].items)
    BY <1>t DEF Page
  <2>3. /\ calls[n].kind \notin Lists
        /\ Edited(page.files, calls[n]) = Unlisted(page.files, calls[n].items)
    BY <2>1 DEF Lists, Edited
  <2> HIDE DEF p
  <2> QED
    BY <1>t, <1>s, <2>1, <2>2, <2>3, SettleFollows DEF Ok
<1>5. CASE BatchDeleted(n)
  <2> DEFINE p == IF Ok(n)
                  THEN [page EXCEPT !.deleting = FALSE, !.selected = {},
                            !.files = Unlisted(@, calls[n].items)]
                  ELSE [page EXCEPT !.deleting = FALSE]
  <2>1. Settle(n, p) /\ calls[n].kind = "batch"
    BY <1>5 DEF BatchDeleted, Back
  <2>2. /\ p.mounted = page.mounted /\ p.keyword = page.keyword /\ p.path = page.path
        /\ Ok(n) => p.files = Unlisted(page.files, calls[n].items)
    BY <1>t DEF Page
  <2>3. /\ calls[n].kind \notin Lists
        /\ Edited(page.files, calls[n]) = Unlisted(page.files, calls[n].items)
    BY <2>1 DEF Lists, Edited
  <2> HIDE DEF p
  <2> QED
    BY <1>t, <1>s, <2>1, <2>2, <2>3, SettleFollows DEF Ok
<1>6. CASE Renamed(n)
  <2> DEFINE files == [i \in Item |-> IF i \in calls[n].items /\ page.files[i] # None
                                      THEN calls[n].name ELSE page.files[i]]
             p == IF Ok(n)
                  THEN [page EXCEPT !.submitting = FALSE, !.renaming = None,
                            !.files = [i \in Item |->
                                IF i \in calls[n].items /\ @[i] # None
                                THEN calls[n].name ELSE @[i]]]
                  ELSE [page EXCEPT !.submitting = FALSE]
  <2>1. Settle(n, p) /\ calls[n].kind = "rename"
    BY <1>6 DEF Renamed, Back
  <2>2. /\ p.mounted = page.mounted /\ p.keyword = page.keyword /\ p.path = page.path
        /\ Ok(n) => p.files = files
    BY <1>t DEF Page
  <2>3. calls[n].kind \notin Lists /\ Edited(page.files, calls[n]) = files
    BY <2>1 DEF Lists, Edited
  <2> HIDE DEF p, files
  <2> QED
    BY <1>t, <1>s, <2>1, <2>2, <2>3, SettleFollows DEF Ok
<1>7. CASE Previewed(n)
  <2>1. PICK i : Settle(n, page) \/ Settle(n, [page EXCEPT !.image = i])
    BY <1>7 DEF Previewed
  <2>2. calls[n].kind \notin Lists /\ Edited(page.files, calls[n]) = page.files
    BY <1>7 DEF Previewed, Back, Lists, Edited
  <2>3. CASE Settle(n, page)
    BY <1>t, <1>s, <2>2, <2>3, SettleFollows
  <2>4. CASE Settle(n, [page EXCEPT !.image = i])
    <3> DEFINE p == [page EXCEPT !.image = i]
    <3>1. /\ p.mounted = page.mounted /\ p.keyword = page.keyword
          /\ p.path = page.path /\ p.files = page.files
      BY <1>t DEF Page
    <3>2. Settle(n, p)
      BY <2>4
    <3> HIDE DEF p
    <3> QED
      BY <1>t, <1>s, <2>2, <3>1, <3>2, SettleFollows
  <2> QED
    BY <2>1, <2>3, <2>4
<1> QED
  BY <1>1, <1>2, <1>3, <1>4, <1>5, <1>6, <1>7 DEF Deliver

\* OrderInv is inductive.
LEMMA OrderStep ==
    ASSUME OrderInv, [Next]_vars
    PROVE  OrderInv'
<1>p. PageInv'
  BY PageStep DEF OrderInv
<1>1. CASE UNCHANGED vars
  BY <1>1, <1>p, QuietFollows DEF vars
<1>2. CASE Serving
  BY <1>2, ServeFollows DEF Serving
<1>3. CASE Delivering
  BY <1>3, DeliverFollows DEF Delivering
<1>4. ASSUME NEW i \in Item, Arrive(i)
      PROVE  OrderInv'
  BY <1>p, <1>4 DEF OrderInv, Arrive
<1> QED
  BY <1>1, <1>2, <1>3, <1>4, NavigatingFollows, EditingFollows, WatchingFollows
     DEF Next

\* OrderInv holds at the start.
LEMMA OrderStart ==
    ASSUME Init
    PROVE  OrderInv
<1>1. /\ PageInv /\ calls \in Seq(Call) /\ Len(calls) = 1 /\ DOMAIN calls = {1}
      /\ calls[1].kind = "load" /\ calls[1].mine /\ calls[1].state = "sent"
      /\ calls[1].query = QueryOf(page)
  BY PageStart, TypeStart, StartValues DEF Init
<1>2. InTurn(calls)
  BY <1>1 DEF InTurn
<1>3. OwnEdits(calls)
  BY <1>1 DEF OwnEdits, Edits
<1>4. \A k \in 0 .. Len(calls) : Newest(calls, k) => k = 1
  BY <1>1 DEF Newest, ListAt, Lists
<1>5. \A target : LeadsTo(calls, 1, Base(calls, 1, page.files), target)
  <2>1. calls[1].answer \in Listing
    BY <1>1, CallFields
  <2> QED
    BY <1>1, <1>2, <2>1, UntakenLeads DEF Base
<1>6. Follows(calls, page, remote)
  BY <1>1, <1>3, <1>4, <1>5 DEF Follows
<1> QED
  BY <1>1, <1>2, <1>6 DEF OrderInv

\* Nothing is left to wait for: the files are what the drive holds.
LEMMA NothingLeft ==
    ASSUME OrderInv
    PROVE  OrderlyViewExact
<1> SUFFICES ASSUME page.mounted, calls = <<>>, orderly, page.keyword = None,
                    \A n \in DOMAIN page.path :
                        page.path[n] # Root => remote[page.path[n]] # None
             PROVE  page.files = Answer(FolderOf(page))
  BY DEF OrderlyViewExact
<1>1. Len(calls) = 0 /\ DOMAIN calls = {} /\ Newest(calls, 0)
  BY DEF Newest
<1>2. InPlace(page, remote)
  <2>1. page.path \in Seq(Folder \union {Root}) /\ Len(page.path) > 0
    BY DEF OrderInv, PageInv, TypeOK, Page
  <2>2. Len(page.path) \in DOMAIN page.path
    BY <2>1
  <2> QED
    BY <2>2 DEF InPlace, FolderOf, Last
<1>3. LeadsTo(calls, 0, page.files, AnswerOf(remote, FolderOf(page)))
  BY <1>1, <1>2 DEF OrderInv, Follows, Base
<1>4. ServedTo(calls, 0)
  BY <1>1 DEF ServedTo
<1>5. page.files = AnswerOf(remote, FolderOf(page))
  BY <1>1, <1>3, <1>4 DEF LeadsTo
<1> QED
  BY <1>5, AnswerIsAnswerOf

\* After calls that were served and answered in order the local edits of
\* FilesPage.tsx agree with the drive: the page with no call in flight shows
\* exactly what the server would answer, whatever was opened, deleted and
\* renamed meanwhile.
THEOREM OrderlyViewIsExact == Spec => []OrderlyViewExact
<1>1. Init => OrderInv
  BY OrderStart
<1>2. OrderInv /\ [Next]_vars => OrderInv'
  BY OrderStep
<1>3. OrderInv => OrderlyViewExact
  BY NothingLeft
<1> QED
  BY <1>1, <1>2, <1>3, PTL DEF Spec
=============================================================================
