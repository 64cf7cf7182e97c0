----------------------------- MODULE ViewerPage -----------------------------
(***************************************************************************)
(* The page of a viewer (dslog/htmlviewer/dslog.js and index.html), with   *)
(* the log side of the server: the strings that LogClients hands to        *)
(* onDumpData reach the page in their order, from the moment it connects   *)
(* until the connection ends (WsServer implements Broadcast), and become   *)
(* rows of tables, one table for each name.                                *)
(*                                                                         *)
(* The page takes as the id of a tab the text before the first '|' and     *)
(* looks for it with $('#' + id).  What a text selects is jQuery's affair  *)
(* and a parameter here: it may be the tab, nothing at all (a name with    *)
(* dots), another element of the page, or no selector, so that it throws.  *)
(***************************************************************************)
EXTENDS LogClients

CONSTANTS
    Id(_, _),           \* of a client and a name: its text before the first '|'
    Cut(_, _),          \* and whether there is more of it behind a '|'
    Selects(_, _),      \* the elements (Elements) that $('#' + id) finds
    BadSelector(_),     \* jQuery throws a syntax error
    MaxClicks           \* bound: what the user does

ASSUME ViewerPageAssumption == MaxClicks \in Nat

VARIABLES
    ws,             \* the first WebSocket: "connecting", "open" or "closed"
    retries,        \* the WebSockets made by the user, not yet given up
    mask,           \* what covers the page: "none", the "field" for an address
                    \* or, with the field disabled, "waiting"
    joined,         \* the page is sent the strings behind this one
    read,           \* the strings onmessage has been called with
    clients_,       \* the tabs in the order of their buttons: id, the
                    \* strings in the rows of the table, "allow clear"
    template,       \* the strings in rows of the table in #client-template
    actived,        \* the tab that is visible, with the button bt-actived
    clicks          \* bound

linkVars == <<ws, retries, mask>>
tabVars == <<clients_, template, actived>>
pageVars == <<linkVars, joined, read, tabVars, clicks>>
dsVars == <<logVars, pageVars>>

-----------------------------------------------------------------------------
\* The id 'default', for a string without a name; '' stands for it too.
DefaultName == <<>>

IdOf(r) == IF r.name = <<>> THEN DefaultName ELSE Id(r.client, r.name)

\* The text behind the first '|' is a row unless it begins with '*'.  Before
\* the '*' of "closed" there may be the rest of a name.
MakesRow(r) ==
    \/ r.event \in {"normal", "empty"}
    \/ r.event = "closed" /\ r.name # <<>> /\ Cut(r.client, r.name)

\* What is on the page: for each tab its div, which holds a table, and elements
\* that hold none, as its button; the div of the buttons; the hidden template,
\* which holds a table.
Elements ==
    {<<"template">>, <<"buttons">>}
        \cup {<<kind, clients_[i].id>> : kind \in {"tab", "part"}, i \in DOMAIN clients_}

Finds(id, e) == IF id = DefaultName THEN e = <<"tab", id>> ELSE Selects(id, e)

Found(id) == {e \in Elements : Finds(id, e)}
FoundTabs(id) == {i \in DOMAIN clients_ : Finds(id, <<"tab", clients_[i].id>>)}

DsInit ==
    /\ Init
    /\ ws = "connecting" /\ retries = 0 /\ mask = "field"
    /\ joined = 0 /\ read = 0
    /\ clients_ = <<>> /\ template = <<>> /\ actived = 0
    /\ clicks = 0

-----------------------------------------------------------------------------
(* The connection. *)

\* onopen, when the session is listed: the mask is removed.
OnOpen ==
    /\ ws = "connecting"
    /\ ws' = "open"
    /\ mask' = "none"
    /\ joined' = Len(dumps) /\ read' = Len(dumps)
    /\ UNCHANGED <<retries, tabVars, clicks>>

\* onerror, which enables the field, and onclose, or onclose alone: both show
\* the mask, if it is not there.
OnClose ==
    /\ ws # "closed"
    /\ ws' = "closed"
    /\ mask' \in {"field", IF mask = "none" THEN "field" ELSE mask}
    /\ UNCHANGED <<retries, joined, read, tabVars, clicks>>

\* The user enters an address and leaves the field, which is there from the
\* beginning: a WebSocket to port 9080 is made.
Blur ==
    /\ mask = "field" /\ clicks < MaxClicks
    /\ mask' = "waiting"
    /\ retries' = retries + 1
    /\ clicks' = clicks + 1
    /\ UNCHANGED <<ws, joined, read, tabVars>>

RetryFailsQuietly ==    \* mutant: onWS is called for the first WebSocket only
    /\ retries > 0
    /\ retries' = retries - 1
    /\ UNCHANGED <<ws, mask, joined, read, tabVars, clicks>>

\* Its onerror: the server listens on port 9980 (threadWebSocketProc).
RetryFails ==
    /\ retries > 0
    /\ retries' = retries - 1
    /\ mask' = "field"
    /\ UNCHANGED <<ws, joined, read, tabVars, clicks>>

-----------------------------------------------------------------------------
(* Strings from the server. *)

\* getClientContent: with a copy of the template's children.
NewTab(id, k) ==
    clients_' = Append(clients_, [id |-> id, rows |-> Append(template, k), allowClear |-> TRUE])

InsertRowFirst(i, k) == \* mutant: insertRow(0)
    clients_' = [clients_ EXCEPT ![i].rows = <<k>> \o @]

InsertRow(i, k) == clients_' = [clients_ EXCEPT ![i].rows = Append(@, k)]

ShowNew(id, k) ==       \* mutant: a tab is made without a look at clt.length
    /\ NewTab(id, k)
    /\ actived' = IF clients_ = <<>> THEN 1 ELSE actived
    /\ UNCHANGED template

\* String k is a new row.  Of the elements found the first table is taken, and
\* the template comes first on the page.  With no table among them insertRow
\* throws; with no element a tab is made, of which the first is the visible one.
Show(id, k) ==
    \/ /\ BadSelector(id) \/ (Found(id) # {} /\ FoundTabs(id) = {} /\ <<"template">> \notin Found(id))
       /\ UNCHANGED tabVars
    \/ /\ ~BadSelector(id) /\ Found(id) = {}
       /\ NewTab(id, k)
       /\ actived' = IF clients_ = <<>> THEN 1 ELSE actived
       /\ UNCHANGED template
    \/ /\ ~BadSelector(id) /\ <<"template">> \in Found(id)
       /\ template' = Append(template, k)
       /\ UNCHANGED <<clients_, actived>>
    \/ /\ ~BadSelector(id) /\ <<"template">> \notin Found(id) /\ FoundTabs(id) # {}
       /\ InsertRow(Min(FoundTabs(id)), k)
       /\ UNCHANGED <<template, actived>>

\* The table is replaced by a copy of the template's.
ClearTable(i) == clients_' = [clients_ EXCEPT ![i].rows = template]

ClearVisible(id) ==     \* mutant: the tab the user sees
    IF actived # 0 THEN ClearTable(actived) ELSE UNCHANGED clients_

\* The command clear, for the tab found, if its box is checked.
ClearCommand(id) ==
    IF \E i \in FoundTabs(id) : clients_[i].allowClear
    THEN ClearTable(Min(FoundTabs(id)))
    ELSE UNCHANGED clients_

\* onmessage; an exception ends it, and the next string calls it again.  The
\* string of "clearAll" has no '|'.  The server's command is closed, and of the
\* commands clear and close the latter does nothing.
OnMessage ==
    /\ ws = "open" /\ read < Len(dumps)
    /\ read' = read + 1
    /\ LET r == dumps[read'] IN
       \/ MakesRow(r) /\ Show(IdOf(r), read')
       \/ /\ r.event = "clearAll"
          /\ ClearCommand(DefaultName)
          /\ UNCHANGED <<template, actived>>
       \/ r.event = "closed" /\ ~MakesRow(r) /\ UNCHANGED tabVars
    /\ UNCHANGED <<linkVars, joined, clicks>>

-----------------------------------------------------------------------------
(* The user. *)

ToggleClient(i) == actived # i /\ actived' = i /\ UNCHANGED clients_

\* The button "clear", on the tab it is on.
ClearClient(i) == ClearTable(i) /\ UNCHANGED actived

AllowClear(i) ==
    /\ clients_' = [clients_ EXCEPT ![i].allowClear = ~@]
    /\ UNCHANGED actived

\* Buttons and boxes of a tab: the buttons of all, the rest of the visible one.
Click(i) ==
    /\ clicks < MaxClicks
    /\ clicks' = clicks + 1
    /\ ToggleClient(i) \/ (i = actived /\ (ClearClient(i) \/ AllowClear(i)))
    /\ UNCHANGED <<linkVars, joined, read, template>>

-----------------------------------------------------------------------------
PageNext ==
    \/ OnOpen \/ OnClose \/ Blur \/ RetryFails \/ OnMessage
    \/ \E i \in DOMAIN clients_ : Click(i)

DsNext ==
    \/ LogNext /\ UNCHANGED pageVars
    \/ PageNext /\ UNCHANGED logVars

DsSpec == DsInit /\ [][DsNext]_dsVars

-----------------------------------------------------------------------------
(* Properties. *)

Shown(i) == Range(clients_[i].rows)

\* What a tab shows is the end of what its name was sent while the page was
\* connected: rows in the order of the strings, whatever was renamed, cleared or
\* hidden in between, each of a string whose id is that of the tab, or selects
\* the tab or the template it was copied from.  If the tab's id selects the tab,
\* none of its strings is missing between two rows, or behind the last, but for
\* rows that came with the template (dslog.js, onmessage and getClientContent,
\* behind socksvr.cpp, onReadBody).
RowsAreTheEndOfTheLog ==
    \A i \in DOMAIN clients_ :
        LET rows == clients_[i].rows
            id   == clients_[i].id
        IN  /\ \A j, k \in DOMAIN rows : j < k => rows[j] < rows[k]
            /\ \A k \in Shown(i) :
                  /\ k <= read /\ MakesRow(dumps[k])
                  /\ LET of == IdOf(dumps[k]) IN
                     of = id \/ Finds(of, <<"tab", id>>) \/ Finds(of, <<"template">>)
            /\ Finds(id, <<"tab", id>>) =>
                  \A k \in Shown(i) \ Range(template), m \in joined + 1..read :
                     k < m /\ MakesRow(dumps[m]) /\ IdOf(dumps[m]) = id => m \in Shown(i)

\* Every string that makes a row has a tab of its id, or an element its id
\* selects, unless jQuery throws.  Every tab is of the id of such a string, and
\* was made when the id selected nothing, neither an earlier tab nor a button of
\* one.  One tab is visible as soon as there are any (dslog.js, getClientContent
\* and toggleClient).
TabsOfNames ==
    /\ \A k \in joined + 1..read :
          LET id == IdOf(dumps[k]) IN
          MakesRow(dumps[k]) /\ ~BadSelector(id)
            => Found(id) # {} \/ \E i \in DOMAIN clients_ : clients_[i].id = id
    /\ \A i \in DOMAIN clients_ :
          LET id == clients_[i].id IN
          /\ \E k \in joined + 1..read : MakesRow(dumps[k]) /\ IdOf(dumps[k]) = id
          /\ ~BadSelector(id) /\ ~Finds(id, <<"template">>) /\ ~Finds(id, <<"buttons">>)
          /\ \A j \in DOMAIN clients_, kind \in {"tab", "part"} :
                j < i => ~Finds(id, <<kind, clients_[j].id>>)
    /\ IF clients_ = <<>> THEN actived = 0 ELSE actived \in DOMAIN clients_

\* A row of a client with a name disappears only when the user clears its tab:
\* the command clear of that client, or of another one, never reaches it, since
\* onFormatData gives it no name (configs.cpp, kEventClearAll; dslog.js, clear).
NamedRowsStay ==
    [][\A i \in DOMAIN clients_ :
          clients_[i].id # DefaultName /\ clicks' = clicks
              => IsPrefix(clients_[i].rows, clients_'[i].rows)]_dsVars

\* A page without its connection always leaves the user the field for another
\* address, or gives it back when the attempt fails; it is not covered only
\* while it is connected (dslog.js, onerror, onclose and showMask).
UserMayRetry ==
    /\ mask = "none" => ws = "open"
    /\ mask = "waiting" => retries > 0

=============================================================================
