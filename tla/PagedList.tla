----------------------------- MODULE PagedList -----------------------------
(***************************************************************************)
(* The list of alerts, page by page: the number of the page, the filters   *)
(* and the delayed search of the page, the answer it shows, the pager that *)
(* brings a page that ran past the end back in range, the answers kept of   *)
(* the pages visited before, and the rows of the server, which shrink as    *)
(* alerts are read and grow as alerts come.                                 *)
(***************************************************************************)
EXTENDS Domain, Naturals, FiniteSets

CONSTANTS
    Notice,         \* alerts of the user, naturals in the order they come
    Sought,         \* those that match the search
    PageLimit,      \* limit, 10 in the code
    MaxInputs       \* bound on what the person does

ASSUME PagedAssumption ==
    /\ Notice \subseteq Nat /\ IsFiniteSet(Notice) /\ Sought \subseteq Notice
    /\ PageLimit \in Nat \ {0} /\ MaxInputs \in Nat

VARIABLES
    inbox,       \* user_alert rows of the user
    unreadRows,  \* those with is_read false
    listPage,    \* page
    readFilter,  \* all, unread or read
    searchBox,   \* whether searchInput holds the search
    searched,    \* whether search, the delayed copy, does
    debounce,    \* whether the timer of the effect runs
    listShown,   \* data of the query of the present key, Nil while it loads
    refetch,     \* whether the present key is to be loaded (again)
    kept,        \* the query cache of the keys left: data, and whether it is invalid
    marks,       \* read marks the server has stored and not answered
    inputs       \* history: what the person has done

pagedVars == <<inbox, unreadRows, listPage, readFilter, searchBox, searched, debounce,
               listShown, refetch, kept, marks, inputs>>

ListAnswers == {Nil} \cup [rows : SUBSET Notice, total : Nat]

PagedTypeOK ==
    /\ inbox \subseteq Notice /\ unreadRows \subseteq inbox
    /\ listPage \in Nat \ {0} /\ readFilter \in {"all", "unread", "read"}
    /\ searchBox \in BOOLEAN /\ searched \in BOOLEAN /\ debounce \in BOOLEAN /\ refetch \in BOOLEAN
    /\ listShown \in ListAnswers
    /\ \A k \in DOMAIN kept : kept[k] \in [data : ListAnswers, invalid : BOOLEAN]
    /\ inputs \in 0..MaxInputs /\ marks \in 0..inputs

\* The effect that delays the search starts its timer when the page opens, too.
PagedInit ==
    /\ inbox \in SUBSET Notice /\ unreadRows = inbox
    /\ listPage = 1 /\ readFilter = "all"
    /\ searchBox = FALSE /\ searched = FALSE /\ debounce = TRUE
    /\ listShown = Nil /\ refetch = TRUE /\ kept = << >>
    /\ marks = 0 /\ inputs = 0
----------------------------------------------------------------------------
\* getUserAlerts: the rows of a page, newest first, and how many match.
Matching ==
    {a \in inbox : /\ readFilter = "unread" => a \in unreadRows
                   /\ readFilter = "read" => a \notin unreadRows
                   /\ searched => a \in Sought}

RowsOfPage ==
    {a \in Matching : Cardinality({b \in Matching : b > a}) \div PageLimit = listPage - 1}

PagesFor(total) == (total + PageLimit - 1) \div PageLimit

\* The query of the present key is answered.
AnswerList ==
    /\ refetch
    /\ listShown' = [rows |-> RowsOfPage, total |-> Cardinality(Matching)]
    /\ refetch' = FALSE
    /\ UNCHANGED <<inbox, unreadRows, listPage, readFilter, searchBox, searched, debounce, kept, marks, inputs>>

\* A key whose answer is kept shows it, and loads again if it was invalidated; the
\* others show nothing until they have loaded.
Rekey(old, new) ==
    /\ IF new \in DOMAIN kept
       THEN listShown' = kept[new].data /\ refetch' = kept[new].invalid
       ELSE listShown' = Nil /\ refetch' = TRUE
    /\ kept' = [k \in (DOMAIN kept \cup {old}) \ {new} |->
                   IF k = old THEN [data |-> listShown, invalid |-> refetch] ELSE kept[k]]

\* A new page or filter is a new key of the query.
Turn(p, filter, s) ==
    /\ listPage' = p /\ readFilter' = filter /\ searched' = s
    /\ LET old == <<listPage, readFilter, searched>>
           new == <<p, filter, s>>
       IN IF new = old THEN UNCHANGED <<listShown, refetch, kept>> ELSE Rekey(old, new)

\* invalidateQueries of ['alerts']
InvalidateLists ==
    /\ refetch' = TRUE
    /\ kept' = [k \in DOMAIN kept |-> [kept[k] EXCEPT !.invalid = TRUE]]

\* The pager is drawn only for an answer of more than one page.
PagerDrawn == listShown # Nil /\ PagesFor(listShown.total) > 1

\* Mutant: the page just past the last is left alone.
LateClampPage ==
    /\ PagerDrawn /\ listPage > PagesFor(listShown.total) + 1
    /\ Turn(PagesFor(listShown.total), readFilter, searched)
    /\ UNCHANGED <<inbox, unreadRows, searchBox, debounce, marks, inputs>>

\* The effect of the pager: a page past the last becomes the last.
ClampPage ==
    /\ PagerDrawn /\ listPage > PagesFor(listShown.total)
    /\ Turn(PagesFor(listShown.total), readFilter, searched)
    /\ UNCHANGED <<inbox, unreadRows, searchBox, debounce, marks, inputs>>

\* 350 ms after the last key stroke, or after the page opened.
DebounceFires ==
    /\ debounce
    /\ debounce' = FALSE
    /\ Turn(1, readFilter, searchBox)
    /\ UNCHANGED <<inbox, unreadRows, searchBox, marks, inputs>>
----------------------------------------------------------------------------
Input == inputs < MaxInputs /\ inputs' = inputs + 1

\* A click in the pager, whose buttons go no further than the last page.
GoToPage(p) ==
    /\ Input
    /\ PagerDrawn /\ p \in 1..PagesFor(listShown.total)
    /\ Turn(p, readFilter, searched)
    /\ UNCHANGED <<inbox, unreadRows, searchBox, debounce, marks>>

SetRead(filter) ==
    /\ Input
    /\ Turn(1, filter, searched)
    /\ UNCHANGED <<inbox, unreadRows, searchBox, debounce, marks>>

TypeSearch(s) ==
    /\ Input
    /\ s # searchBox
    /\ searchBox' = s /\ debounce' = TRUE
    /\ UNCHANGED <<inbox, unreadRows, listPage, readFilter, searched, listShown, refetch, kept, marks>>

ClearFilters ==
    /\ Input
    /\ searchBox' = FALSE /\ debounce' = (debounce \/ searchBox)
    /\ Turn(1, "all", FALSE)
    /\ UNCHANGED <<inbox, unreadRows, marks>>

\* Marking an alert of the list, or all of them, as read; the list of the page is
\* reloaded when the answer comes.
MarkListed(S) ==
    /\ Input
    /\ unreadRows' = unreadRows \ S
    /\ marks' = marks + 1
    /\ UNCHANGED <<inbox, listPage, readFilter, searchBox, searched, debounce, listShown, refetch, kept>>

MarkOne == listShown # Nil /\ \E a \in listShown.rows \cap unreadRows : MarkListed({a})
MarkAll == unreadRows # {} /\ MarkListed(unreadRows)

MarkAnswered ==
    /\ marks > 0
    /\ marks' = marks - 1 /\ InvalidateLists
    /\ UNCHANGED <<inbox, unreadRows, listPage, readFilter, searchBox, searched, debounce, listShown, inputs>>

\* A new alert; alert:new reaches the tab, or does not.
NoticeComes ==
    /\ \E a \in Notice \ inbox :
          /\ \A b \in inbox : b < a
          /\ inbox' = inbox \cup {a} /\ unreadRows' = unreadRows \cup {a}
    /\ InvalidateLists \/ UNCHANGED <<refetch, kept>>
    /\ UNCHANGED <<listPage, readFilter, searchBox, searched, debounce, listShown, marks, inputs>>

PagedNext ==
    \/ AnswerList \/ ClampPage \/ DebounceFires
    \/ \E p \in 1..Cardinality(Notice) : GoToPage(p)
    \/ \E f \in {"all", "unread", "read"} : SetRead(f)
    \/ \E s \in BOOLEAN : TypeSearch(s)
    \/ ClearFilters \/ MarkOne \/ MarkAll \/ MarkAnswered \/ NoticeComes

\* The server answers, effects run and timers fire; nothing is assumed of the person.
PagedFairness ==
    /\ WF_pagedVars(AnswerList) /\ WF_pagedVars(ClampPage)
    /\ WF_pagedVars(DebounceFires) /\ WF_pagedVars(MarkAnswered)

PagedSpec == PagedInit /\ [][PagedNext]_pagedVars /\ PagedFairness
----------------------------------------------------------------------------
\* A list that comes back empty although its rows fill several pages is not
\* left so: the pager brings the page back in range.
StrandedPasses ==
    (listShown # Nil /\ listShown.rows = {} /\ PagesFor(listShown.total) > 1)
        ~> (listShown # Nil /\ (listShown.rows # {} \/ PagesFor(listShown.total) <= 1))
=============================================================================
