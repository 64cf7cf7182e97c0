-------------------------- MODULE ViewerPageProofs --------------------------
(***************************************************************************)
(* Proofs about ViewerPage, for every set of Client objects, every way of  *)
(* naming them, whatever their names select on the page, and every bound.  *)
(*                                                                         *)
(* The page is given the strings one by one (read), and what was handed on *)
(* is never taken back, so that a row stays about the string it was made   *)
(* for.  A tab is only added when its id selects nothing, so that an id    *)
(* that selects its own tab selects no earlier one: each string of that id *)
(* then goes to that tab, behind those it has, and none is lost.           *)
(***************************************************************************)
EXTENDS ViewerPage, LogClientsProofs

-----------------------------------------------------------------------------
(* The inductive invariant. *)

Ids == {IdOf(r) : r \in Records}
Rows == Seq(Nat \ {0})
Tabs == [id : Ids, rows : Rows, allowClear : BOOLEAN]

Increasing(rows) == \A i, k \in DOMAIN rows : i < k => rows[i] < rows[k]

OwnTab(id) == <<"tab", id>>
Template == <<"template">>

PageTypes ==
    /\ joined \in Nat
    /\ read \in Nat
    /\ joined <= read
    /\ read <= Len(dumps)
    /\ clients_ \in Seq(Tabs)
    /\ clicks \in Nat

\* The rows of the template, when the page was given the strings d up to n.
TmplInv(tmpl, d, n) ==
    /\ tmpl \in Rows
    /\ Increasing(tmpl)
    /\ \A k \in Range(tmpl) : k <= n /\ MakesRow(d[k]) /\ Finds(IdOf(d[k]), Template)

\* Nothing is shown before the connection is open.
LinkInv ==
    /\ retries \in Nat
    /\ mask \in {"none", "field", "waiting"}
    /\ UserMayRetry
    /\ ws = "connecting" => clients_ = <<>> /\ template = <<>>

PageInv ==
    PageTypes /\ TmplInv(template, dumps, read) /\ RowsAreTheEndOfTheLog /\ TabsOfNames

\* A row that may stand in the tab of id.
RowOf(r, id) ==
    MakesRow(r) /\ (IdOf(r) = id \/ Finds(IdOf(r), OwnTab(id)) \/ Finds(IdOf(r), Template))

\* What RowsAreTheEndOfTheLog says of one tab, when the strings d were handed on
\* and the page was given those behind j up to n.
TabInv(t, tmpl, d, n, j) ==
    /\ Increasing(t.rows)
    /\ \A k \in Range(t.rows) : k <= n /\ RowOf(d[k], t.id)
    /\ Finds(t.id, OwnTab(t.id)) =>
         \A k \in Range(t.rows) \ Range(tmpl), m \in j + 1..n :
            k < m /\ MakesRow(d[m]) /\ IdOf(d[m]) = t.id => m \in Range(t.rows)

\* What is on the page with these tabs.
Here(tabs) ==
    {<<"template">>, <<"buttons">>}
        \cup {<<kind, tabs[i].id>> : kind \in {"tab", "part"}, i \in DOMAIN tabs}

Placed(tabs, id) == (\E e \in Here(tabs) : Finds(id, e)) \/ \E i \in DOMAIN tabs : tabs[i].id = id

\* Nothing was selected when tab i was made.
Fresh(tabs, i) ==
    /\ ~BadSelector(tabs[i].id)
    /\ ~Finds(tabs[i].id, Template) /\ ~Finds(tabs[i].id, <<"buttons">>)
    /\ \A j \in DOMAIN tabs, kind \in {"tab", "part"} :
          j < i => ~Finds(tabs[i].id, <<kind, tabs[j].id>>)

\* And TabsOfNames of the tabs and the visible one of them.
NamesInv(tabs, d, n, j, v) ==
    /\ \A k \in j + 1..n : MakesRow(d[k]) /\ ~BadSelector(IdOf(d[k])) => Placed(tabs, IdOf(d[k]))
    /\ \A i \in DOMAIN tabs :
          /\ \E k \in j + 1..n : MakesRow(d[k]) /\ IdOf(d[k]) = tabs[i].id
          /\ Fresh(tabs, i)
    /\ IF tabs = <<>> THEN v = 0 ELSE v \in DOMAIN tabs

LEMMA TabByTab ==
    /\ RowsAreTheEndOfTheLog
         <=> \A i \in DOMAIN clients_ : TabInv(clients_[i], template, dumps, read, joined)
    /\ RowsAreTheEndOfTheLog'
         <=> \A i \in DOMAIN clients_' : TabInv(clients_'[i], template', dumps', read', joined')
  BY DEF RowsAreTheEndOfTheLog, TabInv, RowOf, Shown, Increasing, OwnTab, Template

LEMMA NameByName ==
    /\ TabsOfNames <=> NamesInv(clients_, dumps, read, joined, actived)
    /\ TabsOfNames' <=> NamesInv(clients_', dumps', read', joined', actived')
    /\ \A id : Found(id) # {} <=> \E e \in Here(clients_) : Finds(id, e)
  BY DEF TabsOfNames, NamesInv, Found, Elements, Here, Placed, Fresh, Template

-----------------------------------------------------------------------------
(* Strings and tabs. *)

\* A step of the log side adds at most one string behind the others.
LEMMA DumpsGrow ==
    ASSUME IndInv, [LogNext]_logVars
    PROVE  /\ Len(dumps) \in Nat /\ Len(dumps') \in Nat /\ Len(dumps) <= Len(dumps')
           /\ \A i \in 1..Len(dumps) : dumps'[i] = dumps[i]
  <1>1. dumps \in Seq(Records) /\ dumps' \in Seq(Records)
    BY StepInv DEF IndInv, Types
  <1>2. dumps' = dumps \/ \E e : dumps' = Append(dumps, e)
    BY DEF LogNext, ServerThreadEnds, PeerCloses, ClientHandler, OnAccept, OnAcceptError,
           ReadShortPacket, ReadHeader, ReadBody, BodyOverruns, Relay, ReadStrings, ReadFails, OnDisconnected,
           logVars
  <1>3. ASSUME NEW e, dumps' = Append(dumps, e)
        PROVE  Len(dumps') = Len(dumps) + 1 /\ \A i \in 1..Len(dumps) : dumps'[i] = dumps[i]
    BY <1>1, <1>3
  <1> QED
    BY <1>1, <1>2, <1>3, LenProperties

\* What a row added behind the others leaves as it was.
LEMMA RowBehind ==
    ASSUME NEW rows \in Rows, NEW k \in Nat \ {0}
    PROVE  /\ Append(rows, k) \in Rows
           /\ Range(Append(rows, k)) = Range(rows) \cup {k}
           /\ IsPrefix(rows, Append(rows, k))
           /\ \A i \in DOMAIN rows : Append(rows, k)[i] = rows[i]
           /\ DOMAIN Append(rows, k) = DOMAIN rows \cup {Len(rows) + 1}
           /\ Append(rows, k)[Len(rows) + 1] = k
           /\ \A i \in DOMAIN rows : i < Len(rows) + 1
  <1> DEFINE n == Len(rows)
             s == Append(rows, k)
  <1>1. /\ n \in Nat /\ DOMAIN rows = 1..n /\ s \in Rows
        /\ Len(s) = n + 1 /\ DOMAIN s = 1..n + 1
        /\ \A i \in 1..n : s[i] = rows[i]
        /\ s[n + 1] = k
    BY AppendProperties, LenProperties DEF Rows
  <1>2. IsPrefix(rows, s)
    BY DEF IsPrefix
  <1> HIDE DEF s, n
  <1>3. DOMAIN s = DOMAIN rows \cup {n + 1}
    BY <1>1
  <1>4. Range(s) = Range(rows) \cup {k}
    BY <1>1, <1>3 DEF Range
  <1>5. \A i \in DOMAIN rows : i < n + 1
    BY <1>1
  <1> QED
    BY <1>1, <1>2, <1>3, <1>4, <1>5 DEF s, n

\* Another tab in place of one.
LEMMA TabOfOne ==
    ASSUME clients_ \in Seq(Tabs), NEW x \in DOMAIN clients_, NEW u \in Tabs,
           clients_' = [clients_ EXCEPT ![x] = u]
    PROVE  /\ clients_' \in Seq(Tabs)
           /\ clients_ # <<>> /\ clients_' # <<>>
           /\ DOMAIN clients_' = DOMAIN clients_
           /\ \A i \in DOMAIN clients_ : i # x => clients_'[i] = clients_[i]
           /\ clients_'[x] = u
  <1>1. DOMAIN clients_' = DOMAIN clients_ /\ clients_'[x] = u
        /\ \A i \in DOMAIN clients_ : i # x => clients_'[i] = clients_[i]
    OBVIOUS
  <1>2. x \in 1..Len(clients_) /\ Len(clients_) \in Nat
    BY LenProperties
  <1>3. clients_' \in Seq(Tabs)
    BY <1>2, ExceptSeq
  <1>4. clients_ # <<>> /\ clients_' # <<>>
    BY <1>1
  <1> QED
    BY <1>1, <1>3, <1>4

\* Other rows in one tab.
LEMMA RowsOfOne ==
    ASSUME clients_ \in Seq(Tabs), NEW x \in DOMAIN clients_, NEW r \in Rows,
           clients_' = [clients_ EXCEPT ![x].rows = r]
    PROVE  /\ clients_' \in Seq(Tabs)
           /\ clients_ # <<>> /\ clients_' # <<>>
           /\ DOMAIN clients_' = DOMAIN clients_
           /\ \A i \in DOMAIN clients_ : clients_'[i].id = clients_[i].id
           /\ \A i \in DOMAIN clients_ : i # x => clients_'[i].rows = clients_[i].rows
           /\ clients_'[x].rows = r
  <1> DEFINE t == clients_[x]
             u == [t EXCEPT !.rows = r]
  <1>1. t \in Tabs
    BY ElementOfSeq, LenProperties
  <1>2. u \in Tabs /\ u.id = t.id /\ u.rows = r
    BY <1>1 DEF Tabs, Rows
  <1>3. clients_' = [clients_ EXCEPT ![x] = u]
    OBVIOUS
  <1> HIDE DEF u
  <1> QED
    BY <1>2, <1>3, TabOfOne

\* The box "allow clear" is of no concern.
LEMMA BoxOfOne ==
    ASSUME clients_ \in Seq(Tabs), NEW x \in DOMAIN clients_, NEW b \in BOOLEAN,
           clients_' = [clients_ EXCEPT ![x].allowClear = b]
    PROVE  /\ clients_' \in Seq(Tabs)
           /\ clients_ # <<>> /\ clients_' # <<>>
           /\ DOMAIN clients_' = DOMAIN clients_
           /\ \A i \in DOMAIN clients_ : clients_'[i].id = clients_[i].id
           /\ \A i \in DOMAIN clients_ : clients_'[i].rows = clients_[i].rows
  <1> DEFINE t == clients_[x]
             u == [t EXCEPT !.allowClear = b]
  <1>1. t \in Tabs
    BY ElementOfSeq, LenProperties
  <1>2. u \in Tabs /\ u.id = t.id /\ u.rows = t.rows
    BY <1>1 DEF Tabs, Rows
  <1>3. clients_' = [clients_ EXCEPT ![x] = u]
    OBVIOUS
  <1> HIDE DEF u
  <1> QED
    BY <1>2, <1>3, TabOfOne

\* A new tab.
LEMMA TabAppended ==
    ASSUME clients_ \in Seq(Tabs), NEW t \in Tabs, clients_' = Append(clients_, t)
    PROVE  /\ clients_' \in Seq(Tabs)
           /\ clients_' # <<>>
           /\ Len(clients_) + 1 \notin DOMAIN clients_
           /\ DOMAIN clients_' = DOMAIN clients_ \cup {Len(clients_) + 1}
           /\ \A i \in DOMAIN clients_ : clients_'[i] = clients_[i]
           /\ clients_'[Len(clients_) + 1] = t
           /\ clients_ = <<>> => Len(clients_) + 1 = 1
  <1>1. /\ Len(clients_) \in Nat /\ DOMAIN clients_ = 1..Len(clients_)
        /\ clients_' \in Seq(Tabs) /\ Len(clients_') = Len(clients_) + 1
        /\ DOMAIN clients_' = 1..Len(clients_) + 1
        /\ \A i \in 1..Len(clients_) : clients_'[i] = clients_[i]
        /\ clients_'[Len(clients_) + 1] = t
    BY AppendProperties, LenProperties
  <1>2. DOMAIN clients_' = DOMAIN clients_ \cup {Len(clients_) + 1}
    BY <1>1
  <1>3. clients_' # <<>>
    BY <1>1
  <1> QED
    BY <1>1, <1>2, <1>3

\* The rows stay in order when the next string is put behind them.
LEMMA NextRow ==
    ASSUME NEW rows \in Rows, NEW n \in Nat, Increasing(rows), \A k \in Range(rows) : k <= n
    PROVE  /\ Append(rows, n + 1) \in Rows
           /\ Increasing(Append(rows, n + 1))
           /\ Range(Append(rows, n + 1)) = Range(rows) \cup {n + 1}
           /\ IsPrefix(rows, Append(rows, n + 1))
  <1> DEFINE k == n + 1
             s == Append(rows, k)
  <1>0. \A x \in Range(rows) : x \in Nat
    BY LenProperties, ElementOfSeq DEF Range, Rows
  <1>1. k \in Nat \ {0} /\ \A x \in Range(rows) : x \in Nat /\ x < k
    BY <1>0
  <1> HIDE DEF k
  <1>2. /\ s \in Rows /\ Range(s) = Range(rows) \cup {k} /\ IsPrefix(rows, s)
        /\ \A i \in DOMAIN rows : s[i] = rows[i]
        /\ DOMAIN s = DOMAIN rows \cup {Len(rows) + 1}
        /\ s[Len(rows) + 1] = k
        /\ \A i \in DOMAIN rows : i < Len(rows) + 1 /\ i \in Nat
        /\ Len(rows) \in Nat
    BY <1>1, RowBehind, LenProperties DEF Rows
  <1> HIDE DEF s
  <1>3. \A i \in DOMAIN rows : rows[i] < k
    BY <1>1 DEF Range
  <1>4. ASSUME NEW i \in DOMAIN s, NEW j \in DOMAIN s, i < j PROVE s[i] < s[j]
    <2>1. i \in DOMAIN rows
      BY <1>2, <1>4
    <2>2. CASE j \in DOMAIN rows
      BY <1>2, <1>4, <2>1, <2>2 DEF Increasing
    <2>3. CASE j = Len(rows) + 1
      BY <1>2, <1>3, <2>1, <2>3
    <2> QED
      BY <1>2, <2>2, <2>3
  <1>5. Increasing(s)
    BY <1>4 DEF Increasing
  <1> QED
    BY <1>2, <1>5 DEF s, k

\* With the same ids in the same places more is on the page, or the same.
LEMMA StillPlaced ==
    ASSUME NEW tabs, NEW more, DOMAIN tabs \subseteq DOMAIN more,
           \A i \in DOMAIN tabs : more[i].id = tabs[i].id, NEW id, Placed(tabs, id)
    PROVE  Placed(more, id)
  <1>1. Here(tabs) \subseteq Here(more)
    BY DEF Here
  <1> QED
    BY <1>1 DEF Placed

LEMMA SamePlaces ==
    ASSUME NEW tabs, NEW same, DOMAIN same = DOMAIN tabs,
           \A i \in DOMAIN tabs : same[i].id = tabs[i].id
    PROVE  \A i \in DOMAIN tabs : Fresh(tabs, i) => Fresh(same, i)
  BY DEF Fresh

\* The first tab found is there, and of two that an id selects the one of that
\* id is not the later one.
LEMMA FindsFirst ==
    ASSUME PageInv, NEW id, FoundTabs(id) # {}
    PROVE  /\ Min(FoundTabs(id)) \in DOMAIN clients_
           /\ Finds(id, OwnTab(clients_[Min(FoundTabs(id))].id))
           /\ \A i \in DOMAIN clients_ :
                 clients_[i].id = id /\ Finds(id, OwnTab(id)) => i = Min(FoundTabs(id))
  <1> DEFINE S == FoundTabs(id)
             x == Min(S)
  <1>1. DOMAIN clients_ \subseteq Nat
    BY LenProperties DEF PageInv, PageTypes
  <1>2. S \in SUBSET Nat /\ S # {}
    BY <1>1 DEF FoundTabs
  <1>3. x \in S /\ \A y \in S : x <= y
    <2> HIDE DEF S
    <2>1. \E y \in S : \A z \in S : y <= z
      BY <1>2, NatMin
    <2> QED
      BY <2>1 DEF Min
  <1> HIDE DEF x
  <1>4. x \in DOMAIN clients_ /\ Finds(id, OwnTab(clients_[x].id))
    BY <1>3 DEF FoundTabs, OwnTab
  <1>5. ASSUME NEW i \in DOMAIN clients_, clients_[i].id = id, Finds(id, OwnTab(id))
        PROVE  i = x
    <2>1. i \in S
      BY <1>5 DEF FoundTabs, OwnTab
    <2>2. x <= i
      BY <1>3, <2>1
    <2>3. ~(x < i)
      BY <1>4, <1>5 DEF PageInv, TabsOfNames, OwnTab
    <2> QED
      BY <1>1, <1>4, <2>2, <2>3
  <1> QED
    BY <1>4, <1>5 DEF x

-----------------------------------------------------------------------------
(* Steps. *)

\* What is said of the rows does not depend on strings the page was not given.
LEMMA TabKept ==
    ASSUME NEW t \in Tabs, NEW tmpl, NEW d, NEW e, NEW n \in Nat, NEW j \in Nat,
           TabInv(t, tmpl, d, n, j), \A i \in 1..n : e[i] = d[i]
    PROVE  TabInv(t, tmpl, e, n, j)
  <1>1. Range(t.rows) \subseteq Nat \ {0}
    BY LenProperties, ElementOfSeq DEF Tabs, Rows, Range
  <1>2. \A k \in Nat \ {0} : k <= n => e[k] = d[k]
    OBVIOUS
  <1>3. \A m \in j + 1..n : m \in Nat \ {0} /\ m <= n
    OBVIOUS
  <1> QED
    BY <1>1, <1>2, <1>3 DEF TabInv

LEMMA TmplKept ==
    ASSUME NEW tmpl, NEW d, NEW e, NEW n \in Nat, TmplInv(tmpl, d, n),
           \A i \in 1..n : e[i] = d[i]
    PROVE  TmplInv(tmpl, e, n)
  <1>1. Range(tmpl) \subseteq Nat \ {0}
    BY LenProperties, ElementOfSeq DEF TmplInv, Rows, Range
  <1>2. \A k \in Nat \ {0} : k <= n => e[k] = d[k]
    OBVIOUS
  <1> QED
    BY <1>1, <1>2 DEF TmplInv

\* While the page is idle more strings are handed on.
LEMMA LogStepKeeps ==
    ASSUME IndInv, PageInv, [LogNext]_logVars, UNCHANGED pageVars
    PROVE  PageInv'
  <1>1. /\ Len(dumps) \in Nat /\ Len(dumps') \in Nat /\ Len(dumps) <= Len(dumps')
        /\ \A i \in 1..Len(dumps) : dumps'[i] = dumps[i]
    BY DumpsGrow
  <1>2. UNCHANGED <<joined, read, clients_, template, actived, clicks>>
    BY DEF pageVars, tabVars
  <1>3. PageTypes'
    BY <1>1, <1>2 DEF PageInv, PageTypes
  <1>4. read \in Nat /\ joined \in Nat /\ \A i \in 1..read : dumps'[i] = dumps[i]
    BY <1>1 DEF PageInv, PageTypes
  <1>5. ASSUME NEW i \in DOMAIN clients_
        PROVE  TabInv(clients_[i], template, dumps', read, joined)
    <2>1. clients_[i] \in Tabs
      BY ElementOfSeq, LenProperties DEF PageInv, PageTypes
    <2>2. TabInv(clients_[i], template, dumps, read, joined)
      BY TabByTab DEF PageInv
    <2> QED
      BY <1>4, <2>1, <2>2, TabKept
  <1>6. RowsAreTheEndOfTheLog'
    BY <1>2, <1>5, TabByTab
  <1>7. NamesInv(clients_, dumps', read, joined, actived)
    <2>1. \A k \in joined + 1..read : dumps'[k] = dumps[k]
      BY <1>4
    <2> QED
      BY <2>1, NameByName DEF PageInv, NamesInv
  <1>8. TabsOfNames'
    BY <1>2, <1>7, NameByName
  <1>9. TmplInv(template', dumps', read')
    BY <1>2, <1>4, TmplKept DEF PageInv
  <1> QED
    BY <1>3, <1>6, <1>8, <1>9 DEF PageInv

\* A string that adds no row to a tab: it makes none, or what its id selects has
\* no table of a tab.
NoTabFor(r) ==
    MakesRow(r) =>
        /\ BadSelector(IdOf(r)) \/ Found(IdOf(r)) # {}
        /\ BadSelector(IdOf(r)) \/ FoundTabs(IdOf(r)) = {} \/ Finds(IdOf(r), Template)

\* No row is added to a tab: it has the rows it had or those of the template.
LEMMA NoRowAdded ==
    ASSUME PageInv, Len(dumps) \in Nat, dumps' = dumps, joined' = joined,
           read' = read \/ (read' = read + 1 /\ read' <= Len(dumps) /\ NoTabFor(dumps[read'])),
           TmplInv(template', dumps, read'), Range(template) \subseteq Range(template'),
           clients_' \in Seq(Tabs),
           DOMAIN clients_' = DOMAIN clients_,
           clients_' = <<>> <=> clients_ = <<>>,
           \A i \in DOMAIN clients_ : clients_'[i].id = clients_[i].id,
           \A i \in DOMAIN clients_ : clients_'[i].rows \in {clients_[i].rows, template'},
           actived' = actived \/ (clients_ # <<>> /\ actived' \in DOMAIN clients_),
           clicks' \in Nat
    PROVE  PageInv'
  <1>1. read \in Nat /\ read' \in Nat /\ joined \in Nat /\ read' <= Len(dumps) /\ read <= read'
        /\ joined + 1..read \subseteq joined + 1..read'
        /\ \A m \in joined + 1..read' : m \in joined + 1..read \/ (m = read' /\ NoTabFor(dumps[m]))
    BY DEF PageInv, PageTypes
  <1>2. PageTypes'
    BY <1>1 DEF PageInv, PageTypes
  <1>3. NamesInv(clients_, dumps, read, joined, actived)
    BY NameByName DEF PageInv
  <1>4. ASSUME NEW i \in DOMAIN clients_, Finds(clients_[i].id, OwnTab(clients_[i].id)),
               NEW m \in joined + 1..read', MakesRow(dumps[m]), IdOf(dumps[m]) = clients_[i].id
        PROVE  m \in joined + 1..read
    <2> SUFFICES ASSUME NoTabFor(dumps[m]) PROVE FALSE
      BY <1>1
    <2>1. ~BadSelector(clients_[i].id) /\ ~Finds(clients_[i].id, Template)
      BY <1>3 DEF NamesInv, Fresh
    <2>2. i \in FoundTabs(clients_[i].id)
      BY <1>4 DEF FoundTabs, OwnTab
    <2> QED
      BY <1>4, <2>1, <2>2 DEF NoTabFor
  <1>5. ASSUME NEW i \in DOMAIN clients_ PROVE TabInv(clients_'[i], template', dumps, read', joined)
    <2> DEFINE t == clients_[i]
               u == clients_'[i]
    <2>1. t \in Tabs /\ u \in Tabs /\ u.id = t.id /\ u.rows \in {t.rows, template'}
      BY ElementOfSeq, LenProperties DEF PageInv, PageTypes
    <2>2. TabInv(t, template, dumps, read, joined)
      BY TabByTab DEF PageInv
    <2>3. Finds(t.id, OwnTab(t.id)) =>
             \A m \in joined + 1..read' :
                MakesRow(dumps[m]) /\ IdOf(dumps[m]) = t.id => m \in joined + 1..read
      BY <1>4
    <2> HIDE DEF t, u
    <2>4. CASE u.rows = t.rows
      <3>1. \A k \in Range(t.rows) : k \in Nat
        BY <2>1, LenProperties, ElementOfSeq DEF Tabs, Rows, Range
      <3>2. Increasing(u.rows) /\ \A k \in Range(u.rows) : k <= read' /\ RowOf(dumps[k], u.id)
        BY <1>1, <2>1, <2>2, <2>4, <3>1 DEF TabInv
      <3>3. ASSUME Finds(u.id, OwnTab(u.id)), NEW k \in Range(u.rows) \ Range(template'),
                   NEW m \in joined + 1..read', k < m, MakesRow(dumps[m]), IdOf(dumps[m]) = u.id
            PROVE  m \in Range(u.rows)
        <4>1. k \in Range(t.rows) \ Range(template)
          BY <2>4, <3>3
        <4>2. u.id = t.id
          BY <2>1
        <4>3. m \in joined + 1..read
          BY <2>3, <3>3, <4>2
        <4> QED
          BY <2>2, <2>4, <3>3, <4>1, <4>2, <4>3 DEF TabInv
      <3> QED
        BY <3>2, <3>3 DEF TabInv, u
    <2>5. CASE u.rows = template'
      <3>1. \A k \in Range(u.rows) : k <= read' /\ RowOf(dumps[k], u.id)
        BY <2>5 DEF TmplInv, RowOf
      <3>2. Increasing(u.rows)
        BY <2>5 DEF TmplInv
      <3>3. Range(u.rows) \ Range(template') = {}
        BY <2>5
      <3> QED
        BY <3>1, <3>2, <3>3 DEF TabInv, u
    <2> QED
      BY <2>1, <2>4, <2>5 DEF u, t
  <1>6. RowsAreTheEndOfTheLog'
    BY <1>5, TabByTab
  <1>7. \A i \in DOMAIN clients_' :
           /\ \E k \in joined + 1..read' : MakesRow(dumps[k]) /\ IdOf(dumps[k]) = clients_'[i].id
           /\ Fresh(clients_', i)
    <2>1. \A i \in DOMAIN clients_ : Fresh(clients_', i)
      BY <1>3, SamePlaces DEF NamesInv
    <2> QED
      BY <1>1, <1>3, <2>1 DEF NamesInv
  <1>8. ASSUME NEW k \in joined + 1..read', MakesRow(dumps[k]), ~BadSelector(IdOf(dumps[k]))
        PROVE  Placed(clients_', IdOf(dumps[k]))
    <2>1. Placed(clients_, IdOf(dumps[k]))
      <3>1. CASE k \in joined + 1..read
        BY <1>3, <1>8, <3>1 DEF NamesInv
      <3>2. CASE NoTabFor(dumps[k])
        <4>1. Found(IdOf(dumps[k])) # {}
          BY <1>8, <3>2 DEF NoTabFor
        <4> QED
          BY <4>1, NameByName DEF Placed
      <3> QED
        BY <1>1, <3>1, <3>2
    <2> QED
      BY <2>1, StillPlaced
  <1>9. IF clients_' = <<>> THEN actived' = 0 ELSE actived' \in DOMAIN clients_'
    BY <1>3 DEF NamesInv
  <1>10. TabsOfNames'
    <2>1. NamesInv(clients_', dumps, read', joined, actived')
      BY <1>7, <1>8, <1>9 DEF NamesInv
    <2> QED
      BY <2>1, NameByName
  <1> QED
    BY <1>2, <1>6, <1>10 DEF PageInv

\* The connection is opened when nothing has been shown.
LEMMA OnOpenKeeps ==
    ASSUME PageInv, LinkInv, Len(dumps) \in Nat, dumps' = dumps, OnOpen
    PROVE  PageInv'
  <1>1. /\ joined' = Len(dumps) /\ read' = Len(dumps)
        /\ UNCHANGED <<clients_, template, actived, clicks>>
        /\ clients_ = <<>> /\ template = <<>>
    BY DEF OnOpen, LinkInv, tabVars
  <1>2. PageTypes'
    BY <1>1 DEF PageInv, PageTypes
  <1>3. DOMAIN clients_' = {} /\ joined' + 1..read' = {} /\ Range(template') = {}
        /\ DOMAIN template' = {}
    BY <1>1 DEF Range
  <1>4. RowsAreTheEndOfTheLog' /\ TmplInv(template', dumps', read')
    BY <1>1, <1>3 DEF RowsAreTheEndOfTheLog, TmplInv, Rows, Increasing
  <1>5. actived' = 0
    BY <1>1 DEF PageInv, TabsOfNames
  <1>6. TabsOfNames'
    BY <1>1, <1>3, <1>5 DEF TabsOfNames
  <1> QED
    BY <1>2, <1>4, <1>6 DEF PageInv

\* The tabs that are not concerned when string read + 1 is shown.
LEMMA OtherTab ==
    ASSUME PageTypes, NEW t \in Tabs, TabInv(t, template, dumps, read, joined),
           ~(Finds(t.id, OwnTab(t.id)) /\ t.id = IdOf(dumps[read + 1]))
    PROVE  TabInv(t, template, dumps, read + 1, joined)
  <1>1. read \in Nat /\ joined \in Nat
        /\ \A m \in joined + 1..read + 1 : m \in joined + 1..read \/ m = read + 1
    BY DEF PageTypes
  <1>2. \A j \in Range(t.rows) : j \in Nat
    BY LenProperties, ElementOfSeq DEF Tabs, Rows, Range
  <1>3. \A j \in Range(t.rows) : j <= read + 1 /\ RowOf(dumps[j], t.id)
    BY <1>1, <1>2 DEF TabInv
  <1>4. ASSUME Finds(t.id, OwnTab(t.id)), NEW j \in Range(t.rows) \ Range(template),
               NEW m \in joined + 1..read + 1,
               j < m, MakesRow(dumps[m]), IdOf(dumps[m]) = t.id
        PROVE  m \in Range(t.rows)
    <2>1. m # read + 1
      BY <1>4
    <2> QED
      BY <1>1, <1>4, <2>1 DEF TabInv
  <1> QED
    BY <1>3, <1>4 DEF TabInv

\* The tab whose table has one row more.
LEMMA TabWithRow ==
    ASSUME PageTypes, NEW t \in Tabs, TabInv(t, template, dumps, read, joined),
           RowOf(dumps[read + 1], t.id),
           NEW u, u.id = t.id, u.rows = Append(t.rows, read + 1)
    PROVE  TabInv(u, template, dumps, read + 1, joined)
  <1> DEFINE k == read + 1
             rows == t.rows
  <1>1. /\ read \in Nat /\ joined \in Nat /\ k \in Nat \ {0} /\ read < k
        /\ \A m \in joined + 1..k : m \in joined + 1..read \/ m = k
        /\ \A m \in joined + 1..k : m \in Int /\ m <= k
    BY DEF PageTypes
  <1>2. rows \in Rows /\ Increasing(rows) /\ \A j \in Range(rows) : j <= read
    BY DEF Tabs, TabInv
  <1>3. \A j \in Range(rows) : j \in Nat
    BY <1>2, LenProperties, ElementOfSeq DEF Rows, Range
  <1>4. Increasing(u.rows) /\ Range(u.rows) = Range(rows) \cup {k}
    BY <1>1, <1>2, NextRow
  <1>5. RowOf(dumps[k], u.id)
    OBVIOUS
  <1>6. /\ \A j \in Range(rows) : RowOf(dumps[j], u.id)
        /\ Finds(u.id, OwnTab(u.id)) =>
              \A j \in Range(rows) \ Range(template), m \in joined + 1..read :
                 j < m /\ MakesRow(dumps[m]) /\ IdOf(dumps[m]) = u.id => m \in Range(rows)
    BY DEF TabInv
  <1> HIDE DEF k, rows
  <1>7. \A j \in Range(u.rows) : j <= k /\ RowOf(dumps[j], u.id)
    BY <1>1, <1>2, <1>3, <1>4, <1>5, <1>6
  <1>8. ASSUME Finds(u.id, OwnTab(u.id)), NEW j \in Range(u.rows) \ Range(template),
               NEW m \in joined + 1..k, j < m, MakesRow(dumps[m]), IdOf(dumps[m]) = u.id
        PROVE  m \in Range(u.rows)
    <2>1. CASE m = k
      BY <1>4, <2>1
    <2>2. CASE m # k
      <3>1. m \in joined + 1..read
        BY <1>1, <2>2
      <3>2. j # k
        BY <1>1, <1>8
      <3> QED
        BY <1>4, <1>6, <1>8, <3>1, <3>2
    <2> QED
      BY <2>1, <2>2
  <1>9. TabInv(u, template, dumps, k, joined)
    BY <1>4, <1>7, <1>8 DEF TabInv
  <1> QED
    BY <1>9 DEF k

\* A tab is made: a copy of the template, and behind it the row.
LEMMA TabMade ==
    ASSUME PageInv, Len(dumps) \in Nat, dumps' = dumps, joined' = joined, template' = template,
           read < Len(dumps), read' = read + 1, clicks' = clicks,
           MakesRow(dumps[read + 1]), NEW id \in Ids, id = IdOf(dumps[read + 1]),
           ~BadSelector(id), Found(id) = {}, NewTab(id, read + 1),
           actived' = IF clients_ = <<>> THEN 1 ELSE actived
    PROVE  PageInv'
  <1> DEFINE k == read + 1
             n == Len(clients_) + 1
             t == [id |-> id, rows |-> Append(template, k), allowClear |-> TRUE]
  <1>1. /\ read \in Nat /\ joined \in Nat /\ k \in Nat \ {0} /\ read' = k /\ k <= Len(dumps)
        /\ \A m \in joined + 1..k : m \in joined + 1..read \/ m = k
        /\ \A m \in joined + 1..read : m \in joined + 1..k
        /\ clients_ \in Seq(Tabs) /\ PageTypes
    BY DEF PageInv, PageTypes
  <1>2. /\ template \in Rows /\ Increasing(template)
        /\ \A j \in Range(template) : j <= read /\ MakesRow(dumps[j]) /\ Finds(IdOf(dumps[j]), Template)
    BY DEF PageInv, TmplInv
  <1>3. /\ t.rows \in Rows /\ Increasing(t.rows)
        /\ Range(t.rows) = Range(template) \cup {k}
    BY <1>1, <1>2, NextRow
  <1>4. t \in Tabs /\ t.id = id
    BY <1>3 DEF Tabs
  <1>5. clients_' = Append(clients_, t)
    BY DEF NewTab
  <1>6. dumps[k] = dumps[read + 1] /\ IdOf(dumps[k]) = id /\ MakesRow(dumps[k])
    OBVIOUS
  <1> HIDE DEF t
  <1>7. /\ clients_' \in Seq(Tabs)
        /\ clients_' # <<>>
        /\ n \notin DOMAIN clients_
        /\ DOMAIN clients_' = DOMAIN clients_ \cup {n}
        /\ \A i \in DOMAIN clients_ : clients_'[i] = clients_[i]
        /\ clients_'[n] = t
        /\ clients_ = <<>> => n = 1
    BY <1>1, <1>4, <1>5, TabAppended
  <1>8. DOMAIN clients_ \subseteq 1..Len(clients_) /\ n = Len(clients_) + 1 /\ Len(clients_) \in Nat
    BY <1>1, LenProperties
  <1> HIDE DEF n
  <1>9. NamesInv(clients_, dumps, read, joined, actived)
    BY NameByName DEF PageInv
  <1>10. PageTypes'
    BY <1>1, <1>7 DEF PageTypes
  <1>11. TmplInv(template', dumps', read')
    <2>1. \A j \in Range(template) : j \in Nat
      BY <1>2, LenProperties, ElementOfSeq DEF Rows, Range
    <2>2. \A j \in Range(template) : j <= k
      BY <1>1, <1>2, <2>1
    <2> QED
      BY <1>1, <1>2, <2>2 DEF TmplInv
  <1>12. \A e \in Here(clients_) : ~Finds(id, e)
    BY NameByName
  <1>13. TabInv(t, template, dumps, k, joined)
    <2>1. \A j \in Range(t.rows) : j <= k /\ RowOf(dumps[j], t.id)
      <3>1. \A j \in Range(template) : j <= k /\ RowOf(dumps[j], t.id)
        BY <1>1, <1>2, <1>11 DEF TmplInv, RowOf
      <3>2. k <= k /\ RowOf(dumps[k], t.id)
        BY <1>1, <1>4, <1>6 DEF RowOf
      <3> HIDE DEF k
      <3> QED
        BY <1>3, <3>1, <3>2
    <2>2. ASSUME NEW j \in Range(t.rows) \ Range(template), NEW m \in joined + 1..k
          PROVE  ~(j < m)
      BY <1>1, <1>3
    <2> QED
      BY <1>3, <2>1, <2>2 DEF TabInv
  <1>14. ASSUME NEW i \in DOMAIN clients_
         PROVE  TabInv(clients_[i], template, dumps, k, joined)
    <2>1. clients_[i] \in Tabs /\ TabInv(clients_[i], template, dumps, read, joined)
      BY <1>1, TabByTab, ElementOfSeq, LenProperties DEF PageInv
    <2>2. OwnTab(clients_[i].id) \in Here(clients_)
      BY DEF OwnTab, Here
    <2>3. ~(Finds(clients_[i].id, OwnTab(clients_[i].id)) /\ clients_[i].id = IdOf(dumps[read + 1]))
      BY <1>12, <2>2
    <2> QED
      BY <1>1, <2>1, <2>3, OtherTab
  <1>15. RowsAreTheEndOfTheLog'
    <2>1. \A i \in DOMAIN clients_' : TabInv(clients_'[i], template', dumps', read', joined')
      BY <1>1, <1>7, <1>13, <1>14
    <2> QED
      BY <2>1, TabByTab
  <1>16. \A m \in joined + 1..k :
            MakesRow(dumps[m]) /\ ~BadSelector(IdOf(dumps[m])) => Placed(clients_', IdOf(dumps[m]))
    <2>1. \A m \in joined + 1..read :
             MakesRow(dumps[m]) /\ ~BadSelector(IdOf(dumps[m])) => Placed(clients_, IdOf(dumps[m]))
      BY <1>9 DEF NamesInv
    <2>2. \A x : Placed(clients_, x) => Placed(clients_', x)
      BY <1>7, StillPlaced
    <2>3. Placed(clients_', IdOf(dumps[k]))
      BY <1>4, <1>6, <1>7 DEF Placed
    <2> QED
      BY <1>1, <2>1, <2>2, <2>3
  <1>17. ASSUME NEW i \in DOMAIN clients_
         PROVE  /\ \E m \in joined + 1..k : MakesRow(dumps[m]) /\ IdOf(dumps[m]) = clients_'[i].id
                /\ Fresh(clients_', i)
    <2>1. clients_'[i] = clients_[i]
      BY <1>7
    <2>2. \A j \in DOMAIN clients_' : j < i => j \in DOMAIN clients_ /\ clients_'[j] = clients_[j]
      BY <1>7, <1>8
    <2>3. Fresh(clients_, i)
      BY <1>9 DEF NamesInv
    <2>4. Fresh(clients_', i)
      BY <2>1, <2>2, <2>3 DEF Fresh
    <2> QED
      BY <1>1, <1>9, <2>1, <2>4 DEF NamesInv
  <1>18. /\ \E m \in joined + 1..k : MakesRow(dumps[m]) /\ IdOf(dumps[m]) = clients_'[n].id
         /\ Fresh(clients_', n)
    <2>1. clients_'[n].id = id
      BY <1>4, <1>7
    <2>2. k \in joined + 1..k
      BY <1>1 DEF PageTypes
    <2>3. \A j \in DOMAIN clients_' : j < n => j \in DOMAIN clients_ /\ clients_'[j] = clients_[j]
      BY <1>7, <1>8
    <2>4. \A kind \in {"tab", "part"} : \A j \in DOMAIN clients_ : <<kind, clients_[j].id>> \in Here(clients_)
      BY DEF Here
    <2>5. Template \in Here(clients_) /\ <<"buttons">> \in Here(clients_)
      BY DEF Here, Template
    <2>6. Fresh(clients_', n)
      BY <1>12, <2>1, <2>3, <2>4, <2>5 DEF Fresh
    <2> QED
      BY <1>6, <2>1, <2>2, <2>6
  <1>19. actived' \in DOMAIN clients_'
    BY <1>7, <1>9 DEF NamesInv
  <1>20. TabsOfNames'
    <2>1. NamesInv(clients_', dumps, k, joined, actived')
      BY <1>7, <1>16, <1>17, <1>18, <1>19 DEF NamesInv
    <2> QED
      BY <1>1, <2>1, NameByName
  <1> QED
    BY <1>10, <1>11, <1>15, <1>20 DEF PageInv

\* A row is put behind those of the first tab found.
LEMMA RowMade ==
    ASSUME PageInv, Len(dumps) \in Nat, dumps' = dumps, joined' = joined,
           read < Len(dumps), read' = read + 1, clicks' = clicks,
           MakesRow(dumps[read + 1]), NEW id, id = IdOf(dumps[read + 1]),
           FoundTabs(id) # {}, InsertRow(Min(FoundTabs(id)), read + 1),
           UNCHANGED <<template, actived>>
    PROVE  PageInv'
  <1> DEFINE k == read + 1
             x == Min(FoundTabs(id))
             t == clients_[x]
             rows == Append(t.rows, k)
  <1>1. /\ read \in Nat /\ joined \in Nat /\ k \in Nat \ {0} /\ read' = k /\ k <= Len(dumps)
        /\ joined <= k
        /\ \A m \in joined + 1..k : m \in joined + 1..read \/ m = k
        /\ \A m \in joined + 1..read : m \in joined + 1..k
        /\ clients_ \in Seq(Tabs) /\ PageTypes
    BY DEF PageInv, PageTypes
  <1>2. /\ x \in DOMAIN clients_
        /\ Finds(id, OwnTab(t.id))
        /\ \A i \in DOMAIN clients_ : clients_[i].id = id /\ Finds(id, OwnTab(id)) => i = x
    BY FindsFirst
  <1>3. clients_' = [clients_ EXCEPT ![x].rows = rows]
    BY <1>2 DEF InsertRow
  <1> HIDE DEF x
  <1>4. ASSUME NEW i \in DOMAIN clients_
        PROVE  clients_[i] \in Tabs /\ TabInv(clients_[i], template, dumps, read, joined)
    BY <1>1, TabByTab, ElementOfSeq, LenProperties DEF PageInv
  <1>5. t \in Tabs /\ t.rows \in Rows
    BY <1>2, <1>4 DEF Tabs
  <1>6. rows \in Rows
    BY <1>1, <1>5, RowBehind
  <1> HIDE DEF rows
  <1>7. /\ clients_' \in Seq(Tabs)
        /\ clients_ # <<>> /\ clients_' # <<>>
        /\ DOMAIN clients_' = DOMAIN clients_
        /\ \A i \in DOMAIN clients_ : clients_'[i].id = clients_[i].id
        /\ \A i \in DOMAIN clients_ : i # x => clients_'[i].rows = clients_[i].rows
        /\ clients_'[x].rows = rows
    BY <1>1, <1>2, <1>3, <1>6, RowsOfOne
  <1>8. NamesInv(clients_, dumps, read, joined, actived)
    BY NameByName DEF PageInv
  <1>9. PageTypes'
    BY <1>1, <1>7 DEF PageTypes
  <1>10. TmplInv(template', dumps', read')
    <2>1. template \in Rows /\ TmplInv(template, dumps, read)
      BY DEF PageInv, TmplInv
    <2>2. \A j \in Range(template) : j \in Nat
      BY <2>1, LenProperties, ElementOfSeq DEF Rows, Range
    <2>3. \A j \in Range(template) : j <= read => j <= k
      BY <1>1, <2>2
    <2> QED
      BY <1>1, <2>1, <2>3 DEF TmplInv
  <1>11. ASSUME NEW i \in DOMAIN clients_ PROVE TabInv(clients_'[i], template, dumps, k, joined)
    <2>1. CASE i = x
      <3>1. RowOf(dumps[read + 1], t.id)
        BY <1>2 DEF RowOf
      <3>2. clients_'[i].id = t.id /\ clients_'[i].rows = Append(t.rows, read + 1)
        BY <1>2, <1>7, <2>1 DEF rows
      <3>3. TabInv(t, template, dumps, read, joined)
        BY <1>2, <1>4
      <3> HIDE DEF t
      <3> QED
        BY <1>1, <1>5, <3>1, <3>2, <3>3, TabWithRow
    <2>2. CASE i # x
      <3>1. ~(Finds(clients_[i].id, OwnTab(clients_[i].id)) /\ clients_[i].id = IdOf(dumps[read + 1]))
        BY <1>2, <2>2
      <3>2. TabInv(clients_[i], template, dumps, k, joined)
        BY <1>1, <1>4, <3>1, OtherTab
      <3>3. clients_'[i].id = clients_[i].id /\ clients_'[i].rows = clients_[i].rows
        BY <1>7, <2>2
      <3> QED
        BY <3>2, <3>3 DEF TabInv
    <2> QED
      BY <2>1, <2>2
  <1>12. RowsAreTheEndOfTheLog'
    <2>1. \A i \in DOMAIN clients_' : TabInv(clients_'[i], template', dumps', read', joined')
      BY <1>1, <1>7, <1>11
    <2> QED
      BY <2>1, TabByTab
  <1>13. \A m \in joined + 1..k :
            MakesRow(dumps[m]) /\ ~BadSelector(IdOf(dumps[m])) => Placed(clients_', IdOf(dumps[m]))
    <2>1. \A m \in joined + 1..read :
             MakesRow(dumps[m]) /\ ~BadSelector(IdOf(dumps[m])) => Placed(clients_, IdOf(dumps[m]))
      BY <1>8 DEF NamesInv
    <2>2. \A y : Placed(clients_, y) => Placed(clients_', y)
      BY <1>7, StillPlaced
    <2>3. OwnTab(t.id) \in Here(clients_)
      BY <1>2 DEF OwnTab, Here
    <2>4. Placed(clients_, IdOf(dumps[k]))
      BY <1>2, <2>3 DEF Placed
    <2> QED
      BY <1>1, <2>1, <2>2, <2>4
  <1>14. ASSUME NEW i \in DOMAIN clients_
         PROVE  /\ \E m \in joined + 1..k : MakesRow(dumps[m]) /\ IdOf(dumps[m]) = clients_'[i].id
                /\ Fresh(clients_', i)
    <2>1. Fresh(clients_', i)
      BY <1>7, <1>8, SamePlaces DEF NamesInv
    <2> QED
      BY <1>1, <1>7, <1>8, <2>1 DEF NamesInv
  <1>15. actived' \in DOMAIN clients_'
    BY <1>7, <1>8 DEF NamesInv
  <1>16. TabsOfNames'
    <2>1. NamesInv(clients_', dumps, k, joined, actived')
      BY <1>7, <1>13, <1>14, <1>15 DEF NamesInv
    <2> QED
      BY <1>1, <2>1, NameByName
  <1> QED
    BY <1>9, <1>10, <1>12, <1>16 DEF PageInv

\* The string is shown, or its row goes to the template, or onmessage throws.
LEMMA ShowKeeps ==
    ASSUME PageInv, Len(dumps) \in Nat, dumps' = dumps, joined' = joined,
           read < Len(dumps), read' = read + 1, clicks' = clicks,
           MakesRow(dumps[read + 1]), NEW id \in Ids, id = IdOf(dumps[read + 1]),
           Show(id, read + 1)
    PROVE  PageInv'
  <1>1. /\ clients_ \in Seq(Tabs) /\ clicks \in Nat /\ read \in Nat /\ read' <= Len(dumps)
        /\ TmplInv(template, dumps, read) /\ template \in Rows
    BY DEF PageInv, PageTypes, TmplInv
  <1>2. \A j \in Range(template) : j \in Nat
    BY <1>1, LenProperties, ElementOfSeq DEF Rows, Range
  <1>3. \A j \in Range(template) : j <= read /\ j <= read + 1
    BY <1>1, <1>2 DEF TmplInv
  <1>4. CASE /\ BadSelector(id) \/ (Found(id) # {} /\ FoundTabs(id) = {})
             /\ UNCHANGED tabVars
    <2>1. NoTabFor(dumps[read'])
      BY <1>4 DEF NoTabFor
    <2>2. TmplInv(template', dumps, read')
      BY <1>1, <1>3, <1>4 DEF TmplInv, tabVars
    <2> QED
      BY <1>1, <1>4, <2>1, <2>2, NoRowAdded DEF tabVars
  <1>5. CASE <<"template">> \in Found(id) /\ template' = Append(template, read + 1)
             /\ UNCHANGED <<clients_, actived>>
    <2>1. Finds(id, Template) /\ Found(id) # {}
      BY <1>5 DEF Found, Template
    <2>2. NoTabFor(dumps[read'])
      BY <2>1 DEF NoTabFor
    <2>3. /\ template' \in Rows /\ Increasing(template')
          /\ Range(template') = Range(template) \cup {read + 1}
      BY <1>1, <1>3, <1>5, NextRow DEF TmplInv
    <2>4. TmplInv(template', dumps, read')
      <3> DEFINE k == read + 1
      <3>1. k <= k /\ MakesRow(dumps[k]) /\ Finds(IdOf(dumps[k]), Template)
        BY <1>1, <2>1
      <3> HIDE DEF k
      <3>2. read' = k
        BY DEF k
      <3>3. \A j \in Range(template) : j <= k /\ MakesRow(dumps[j]) /\ Finds(IdOf(dumps[j]), Template)
        BY <1>1, <1>3 DEF TmplInv, k
      <3>4. \A j \in Range(template') : j <= k /\ MakesRow(dumps[j]) /\ Finds(IdOf(dumps[j]), Template)
        BY <2>3, <3>1, <3>3 DEF k
      <3> QED
        BY <2>3, <3>2, <3>4 DEF TmplInv
    <2>5. Range(template) \subseteq Range(template')
      BY <2>3
    <2> QED
      BY <1>1, <1>5, <2>2, <2>4, <2>5, NoRowAdded
  <1>6. CASE /\ ~BadSelector(id) /\ Found(id) = {}
             /\ NewTab(id, read + 1)
             /\ actived' = IF clients_ = <<>> THEN 1 ELSE actived
             /\ UNCHANGED template
    BY <1>6, TabMade
  <1>7. CASE /\ FoundTabs(id) # {}
             /\ InsertRow(Min(FoundTabs(id)), read + 1)
             /\ UNCHANGED <<template, actived>>
    BY <1>7, RowMade
  <1> QED
    BY <1>4, <1>5, <1>6, <1>7 DEF Show

\* A table is cleared: it has the rows of the template.
LEMMA TableCleared ==
    ASSUME PageInv, Len(dumps) \in Nat, dumps' = dumps, joined' = joined,
           read' = read \/ (read' = read + 1 /\ read' <= Len(dumps) /\ NoTabFor(dumps[read'])),
           NEW x \in DOMAIN clients_, ClearTable(x), UNCHANGED <<template, actived>>,
           clicks' \in Nat
    PROVE  PageInv'
  <1>1. /\ clients_ \in Seq(Tabs) /\ template \in Rows /\ read \in Nat
        /\ TmplInv(template, dumps, read)
    BY DEF PageInv, PageTypes, TmplInv
  <1>2. /\ clients_' \in Seq(Tabs)
        /\ clients_ # <<>> /\ clients_' # <<>>
        /\ DOMAIN clients_' = DOMAIN clients_
        /\ \A i \in DOMAIN clients_ : clients_'[i].id = clients_[i].id
        /\ \A i \in DOMAIN clients_ : i # x => clients_'[i].rows = clients_[i].rows
        /\ clients_'[x].rows = template
    BY <1>1, RowsOfOne DEF ClearTable
  <1>3. \A i \in DOMAIN clients_ : clients_'[i].rows \in {clients_[i].rows, template'}
    BY <1>2
  <1>4. TmplInv(template', dumps, read')
    <2>1. \A j \in Range(template) : j \in Nat
      BY <1>1, LenProperties, ElementOfSeq DEF Rows, Range
    <2>2. \A j \in Range(template) : j <= read => j <= read'
      BY <1>1, <2>1
    <2> QED
      BY <1>1, <2>2 DEF TmplInv
  <1> QED
    BY <1>2, <1>3, <1>4, NoRowAdded

\* Nothing on the page changes but what NoRowAdded allows to.
LEMMA TabsStay ==
    ASSUME PageInv, Len(dumps) \in Nat, dumps' = dumps, joined' = joined,
           read' = read \/ (read' = read + 1 /\ read' <= Len(dumps) /\ NoTabFor(dumps[read'])),
           clients_' = clients_, template' = template,
           actived' = actived \/ (clients_ # <<>> /\ actived' \in DOMAIN clients_),
           clicks' \in Nat
    PROVE  PageInv'
  <1>1. /\ clients_ \in Seq(Tabs) /\ template \in Rows /\ read \in Nat
        /\ TmplInv(template, dumps, read)
    BY DEF PageInv, PageTypes, TmplInv
  <1>2. TmplInv(template', dumps, read')
    <2>1. \A j \in Range(template) : j \in Nat
      BY <1>1, LenProperties, ElementOfSeq DEF Rows, Range
    <2>2. \A j \in Range(template) : j <= read => j <= read'
      BY <1>1, <2>1
    <2> QED
      BY <1>1, <2>2 DEF TmplInv
  <1> QED
    BY <1>1, <1>2, NoRowAdded

\* The steps of the page.
LEMMA OnMessageKeeps ==
    ASSUME IndInv, PageInv, UNCHANGED logVars, OnMessage
    PROVE  PageInv'
  <1> DEFINE k == read + 1
  <1>1. dumps \in Seq(Records) /\ Len(dumps) \in Nat /\ dumps' = dumps
    BY LenProperties DEF IndInv, Types, logVars
  <1>2. read < Len(dumps) /\ read' = k /\ joined' = joined /\ clicks' = clicks
    BY DEF OnMessage
  <1>3. read \in Nat /\ k \in 1..Len(dumps) /\ read' <= Len(dumps) /\ clicks \in Nat
    BY <1>1, <1>2 DEF PageInv, PageTypes
  <1>4. dumps[k] \in Records
    BY <1>1, <1>3, ElementOfSeq
  <1>5. CASE MakesRow(dumps[k]) /\ Show(IdOf(dumps[k]), k)
    <2> DEFINE id == IdOf(dumps[k])
    <2>1. id \in Ids /\ id = IdOf(dumps[read + 1]) /\ MakesRow(dumps[read + 1]) /\ Show(id, read + 1)
      BY <1>4, <1>5 DEF Ids
    <2> HIDE DEF id
    <2> QED
      BY <1>1, <1>2, <2>1, ShowKeeps
  <1>6. CASE /\ dumps[k].event = "clearAll"
             /\ ClearCommand(DefaultName)
             /\ UNCHANGED <<template, actived>>
    <2>1. NoTabFor(dumps[read'])
      BY <1>2, <1>6 DEF NoTabFor, MakesRow
    <2>2. CASE UNCHANGED clients_
      BY <1>1, <1>2, <1>3, <1>6, <2>1, <2>2, TabsStay
    <2>3. CASE FoundTabs(DefaultName) # {} /\ ClearTable(Min(FoundTabs(DefaultName)))
      <3>1. Min(FoundTabs(DefaultName)) \in DOMAIN clients_
        BY <2>3, FindsFirst
      <3> QED
        BY <1>1, <1>2, <1>3, <1>6, <2>1, <2>3, <3>1, TableCleared
    <2> QED
      BY <1>6, <2>2, <2>3 DEF ClearCommand
  <1>7. CASE ~MakesRow(dumps[k]) /\ UNCHANGED tabVars
    <2>1. NoTabFor(dumps[read'])
      BY <1>2, <1>7 DEF NoTabFor
    <2> QED
      BY <1>1, <1>2, <1>3, <1>7, <2>1, TabsStay DEF tabVars
  <1> QED
    BY <1>2, <1>5, <1>6, <1>7 DEF OnMessage

LEMMA ClickKeeps ==
    ASSUME IndInv, PageInv, UNCHANGED logVars, NEW x \in DOMAIN clients_, Click(x)
    PROVE  PageInv'
  <1>1. Len(dumps) \in Nat /\ dumps' = dumps
    BY LenProperties DEF IndInv, Types, logVars
  <1>2. /\ read' = read /\ joined' = joined /\ template' = template /\ clicks' \in Nat
        /\ clients_ \in Seq(Tabs) /\ clients_ # <<>>
    BY DEF Click, PageInv, PageTypes
  <1>3. CASE ToggleClient(x)
    <2>1. actived' = x /\ clients_' = clients_
      BY <1>3 DEF ToggleClient
    <2> QED
      BY <1>1, <1>2, <2>1, TabsStay
  <1>4. CASE ClearClient(x)
    BY <1>1, <1>2, <1>4, TableCleared DEF ClearClient
  <1>5. CASE AllowClear(x)
    <2> DEFINE b == ~clients_[x].allowClear
    <2>1. clients_' = [clients_ EXCEPT ![x].allowClear = b] /\ actived' = actived
      BY <1>5 DEF AllowClear
    <2>2. b \in BOOLEAN
      OBVIOUS
    <2> HIDE DEF b
    <2>3. /\ clients_' \in Seq(Tabs)
          /\ clients_' # <<>>
          /\ DOMAIN clients_' = DOMAIN clients_
          /\ \A i \in DOMAIN clients_ : clients_'[i].id = clients_[i].id
          /\ \A i \in DOMAIN clients_ : clients_'[i].rows = clients_[i].rows
      BY <1>2, <2>1, <2>2, BoxOfOne
    <2>4. TmplInv(template', dumps, read')
      BY <1>2 DEF PageInv
    <2> QED
      BY <1>1, <1>2, <2>1, <2>3, <2>4, NoRowAdded
  <1> QED
    BY <1>3, <1>4, <1>5 DEF Click

\* The mask, and the connection that opens while nothing is shown.
LEMMA LinkStepKeeps ==
    ASSUME PageInv, LinkInv, PageNext
    PROVE  LinkInv'
  <1>1. CASE OnOpen
    BY <1>1 DEF LinkInv, UserMayRetry, OnOpen
  <1>2. CASE OnClose
    BY <1>2 DEF LinkInv, UserMayRetry, OnClose
  <1>3. CASE Blur
    BY <1>3 DEF LinkInv, UserMayRetry, Blur, tabVars
  <1>4. CASE RetryFails
    BY <1>4 DEF LinkInv, UserMayRetry, RetryFails, tabVars
  <1>5. CASE OnMessage
    BY <1>5 DEF LinkInv, UserMayRetry, OnMessage, linkVars
  <1>6. ASSUME NEW x \in DOMAIN clients_, Click(x) PROVE LinkInv'
    BY <1>6 DEF LinkInv, UserMayRetry, Click, linkVars
  <1> QED
    BY <1>1, <1>2, <1>3, <1>4, <1>5, <1>6 DEF PageNext

LEMMA PageStepKeeps ==
    ASSUME IndInv, PageInv, LinkInv, UNCHANGED logVars, PageNext
    PROVE  PageInv' /\ LinkInv'
  <1>1. Len(dumps) \in Nat /\ dumps' = dumps
    BY LenProperties DEF IndInv, Types, logVars
  <1>2. clicks \in Nat /\ clicks + 1 \in Nat
    BY DEF PageInv, PageTypes
  <1>0. LinkInv'
    BY LinkStepKeeps
  <1>3. CASE OnOpen
    BY <1>0, <1>1, <1>3, OnOpenKeeps
  <1>4. CASE OnClose
    BY <1>0, <1>1, <1>2, <1>4, TabsStay DEF OnClose, tabVars
  <1>5. CASE Blur
    BY <1>0, <1>1, <1>2, <1>5, TabsStay DEF Blur, tabVars
  <1>6. CASE RetryFails
    BY <1>0, <1>1, <1>2, <1>6, TabsStay DEF RetryFails, tabVars
  <1>7. CASE OnMessage
    BY <1>0, <1>7, OnMessageKeeps
  <1>8. CASE \E i \in DOMAIN clients_ : Click(i)
    BY <1>0, <1>8, ClickKeeps
  <1> QED
    BY <1>3, <1>4, <1>5, <1>6, <1>7, <1>8 DEF PageNext

LEMMA PageInit ==
    ASSUME DsInit
    PROVE  PageInv /\ LinkInv
  <1>1. /\ dumps = <<>> /\ joined = 0 /\ read = 0 /\ clients_ = <<>> /\ template = <<>>
        /\ actived = 0 /\ clicks = 0
    BY DEF DsInit, Init
  <1>2. DOMAIN clients_ = {} /\ DOMAIN template = {} /\ Range(template) = {}
        /\ joined + 1..read = {} /\ Len(dumps) = 0
    BY <1>1 DEF Range
  <1>3. PageTypes
    BY <1>1, <1>2 DEF PageTypes
  <1>4. RowsAreTheEndOfTheLog /\ TabsOfNames
    BY <1>1, <1>2 DEF RowsAreTheEndOfTheLog, TabsOfNames
  <1>5. TmplInv(template, dumps, read)
    BY <1>1, <1>2 DEF TmplInv, Rows, Increasing
  <1>6. LinkInv
    BY DEF DsInit, LinkInv, UserMayRetry
  <1> QED
    BY <1>3, <1>4, <1>5, <1>6 DEF PageInv

LEMMA DsInvAlways == DsSpec => [](IndInv /\ PageInv /\ LinkInv)
  <1>1. DsInit => IndInv /\ PageInv /\ LinkInv
    BY InitInv, PageInit DEF DsInit
  <1>2. IndInv /\ PageInv /\ LinkInv /\ [DsNext]_dsVars => IndInv' /\ PageInv' /\ LinkInv'
    <2> SUFFICES ASSUME IndInv, PageInv, LinkInv, [DsNext]_dsVars
                 PROVE  IndInv' /\ PageInv' /\ LinkInv'
      OBVIOUS
    <2>1. ASSUME UNCHANGED pageVars PROVE LinkInv'
      BY <2>1 DEF LinkInv, UserMayRetry, pageVars, linkVars, tabVars
    <2>2. CASE LogNext /\ UNCHANGED pageVars
      BY <2>1, <2>2, StepInv, LogStepKeeps
    <2>3. CASE PageNext /\ UNCHANGED logVars
      BY <2>3, StepInv, PageStepKeeps
    <2>4. CASE UNCHANGED dsVars
      BY <2>1, <2>4, StepInv, LogStepKeeps DEF dsVars
    <2> QED
      BY <2>2, <2>3, <2>4 DEF DsNext
  <1> QED
    BY <1>1, <1>2, PTL DEF DsSpec

-----------------------------------------------------------------------------
(* What the user of a viewer relies on. *)

\* A tab shows the end of what its name was sent, in order, with nothing
\* missing and nothing of another name but what its id selects, whatever the
\* clients and the user do (dslog.js, onmessage and getClientContent).
THEOREM RowsAlwaysTheEnd == DsSpec => []RowsAreTheEndOfTheLog
  BY DsInvAlways, PTL DEF PageInv

\* Every string that makes a row has a tab of its id or an element that the id
\* selects, unless jQuery throws, and every tab is of the id of such a string,
\* which selected nothing then (dslog.js, getClientContent, toggleClient).
THEOREM TabsAlwaysOfNames == DsSpec => []TabsOfNames
  BY DsInvAlways, PTL DEF PageInv

\* A page that is not connected leaves or gives the user the field for another
\* address (dslog.js, onerror, onclose, showMask).
THEOREM UserMayAlwaysRetry == DsSpec => []UserMayRetry
  BY DsInvAlways, PTL DEF LinkInv

\* Only the user removes rows of a client that has a name: no string of any
\* client does (dslog.js, clear; configs.cpp, kEventClearAll).
THEOREM NamedRowsAlwaysStay == DsSpec => NamedRowsStay
  <1> DEFINE Stays(i) == IsPrefix(clients_[i].rows, clients_'[i].rows)
             Asked(i) == clients_[i].id # DefaultName /\ clicks' = clicks
  <1>1. ASSUME PageInv, [DsNext]_dsVars, NEW i \in DOMAIN clients_, Asked(i)
        PROVE  Stays(i)
    <2>1. clients_ \in Seq(Tabs) /\ clicks \in Nat /\ read \in Nat /\ template \in Rows
      BY <1>1 DEF PageInv, PageTypes, TmplInv
    <2>2. ASSUME NEW j \in DOMAIN clients_ PROVE clients_[j].rows \in Rows
      <3>1. clients_[j] \in Tabs
        BY <2>1, ElementOfSeq, LenProperties
      <3> QED
        BY <3>1 DEF Tabs
    <2>3. ASSUME clients_'[i].rows = clients_[i].rows PROVE Stays(i)
      BY <1>1, <2>2, <2>3, LenProperties DEF IsPrefix, Rows
    <2>4. CASE UNCHANGED clients_
      BY <2>3, <2>4
    <2>5. ASSUME OnMessage PROVE Stays(i)
      <3> DEFINE k == read + 1
      <3>1. k \in Nat \ {0} /\ read' = k
        BY <2>1, <2>5 DEF OnMessage
      <3>2. ASSUME NEW id, FoundTabs(id) # {}, InsertRow(Min(FoundTabs(id)), k) PROVE Stays(i)
        <4> DEFINE x == Min(FoundTabs(id))
                   r == Append(clients_[x].rows, k)
        <4>1. x \in DOMAIN clients_
          BY <1>1, <3>2, FindsFirst
        <4>2. clients_' = [clients_ EXCEPT ![x].rows = r]
          BY <3>2, <4>1 DEF InsertRow
        <4> HIDE DEF x
        <4>3. r \in Rows /\ IsPrefix(clients_[x].rows, r)
          BY <2>2, <3>1, <4>1, RowBehind
        <4> HIDE DEF r
        <4>4. /\ \A j \in DOMAIN clients_ : j # x => clients_'[j].rows = clients_[j].rows
              /\ clients_'[x].rows = r
          BY <2>1, <4>1, <4>2, <4>3, RowsOfOne
        <4> QED
          BY <2>3, <4>3, <4>4
      <3>3. ASSUME NEW id, NewTab(id, k) PROVE Stays(i)
        <4> DEFINE t == [id |-> id, rows |-> Append(template, k), allowClear |-> TRUE]
        <4>1. clients_' = Append(clients_, t)
          BY <3>3 DEF NewTab
        <4> HIDE DEF t
        <4>2. clients_'[i] = clients_[i]
          BY <2>1, <4>1, LenProperties
        <4> QED
          BY <2>3, <4>2
      <3>4. CASE ClearCommand(DefaultName)
        <4>1. CASE FoundTabs(DefaultName) # {} /\ ClearTable(Min(FoundTabs(DefaultName)))
          <5> DEFINE x == Min(FoundTabs(DefaultName))
          <5>1. x \in DOMAIN clients_ /\ clients_[x].id = DefaultName
            BY <1>1, <4>1, FindsFirst DEF Finds, OwnTab
          <5>2. clients_' = [clients_ EXCEPT ![x].rows = template] /\ i # x
            BY <1>1, <4>1, <5>1 DEF ClearTable
          <5> HIDE DEF x
          <5>3. clients_'[i].rows = clients_[i].rows
            BY <2>1, <5>1, <5>2, RowsOfOne
          <5> QED
            BY <2>3, <5>3
        <4> QED
          BY <2>4, <3>4, <4>1 DEF ClearCommand
      <3> QED
        BY <2>4, <2>5, <3>1, <3>2, <3>3, <3>4 DEF OnMessage, Show, tabVars
    <2>6. ~(\E j \in DOMAIN clients_ : Click(j)) /\ ~Blur
      BY <1>1, <2>1 DEF Click, Blur
    <2> QED
      BY <1>1, <2>4, <2>5, <2>6
      DEF DsNext, PageNext, OnOpen, OnClose, RetryFails, dsVars, pageVars, tabVars
  <1>2. PageInv /\ [DsNext]_dsVars
          => [\A i \in DOMAIN clients_ :
                clients_[i].id # DefaultName /\ clicks' = clicks
                  => IsPrefix(clients_[i].rows, clients_'[i].rows)]_dsVars
    BY <1>1
  <1> QED
    BY <1>2, DsInvAlways, PTL DEF DsSpec, NamedRowsStay
=============================================================================
