--------------------------- MODULE BrowserProofs ---------------------------
(***************************************************************************)
(* What holds of the browser's side for any numbers of hooks, legs, page   *)
(* requests, socket refreshes and alerts: RoadRoutes, ClientSession and    *)
(* PagedList.                                                              *)
(***************************************************************************)
EXTENDS RoadRoutes, ClientSession, PagedList, FiniteSetTheorems, TLAPS

-----------------------------------------------------------------------------
(* The list of alerts                                                      *)

LEMMA PagesAreCounted ==
    ASSUME NEW total \in Nat
    PROVE  PagesFor(total) \in Nat
BY PagedAssumption, SMT DEF PagesFor

LEMMA MatchingIsCounted ==
    ASSUME inbox \subseteq Notice
    PROVE  Matching \subseteq Notice /\ Cardinality(Matching) \in Nat
<1>1. Matching \subseteq Notice
  BY DEF Matching
<1>2. IsFiniteSet(Matching)
  BY <1>1, PagedAssumption, FS_Subset
<1> QED
  BY <1>1, <1>2, FS_CardinalityType

KeptTyped == \A k \in DOMAIN kept : kept[k] \in [data : ListAnswers, invalid : BOOLEAN]

\* Invalidating marks answers, and changes none.
LEMMA InvalidatingListsKeepsType ==
    ASSUME PagedTypeOK, InvalidateLists
    PROVE  refetch' \in BOOLEAN /\ KeptTyped'
BY DEF PagedTypeOK, KeptTyped, InvalidateLists

LEMMA TurnKeepsType ==
    ASSUME PagedTypeOK,
           NEW p \in Nat \ {0}, NEW f \in {"all", "unread", "read"}, NEW s \in BOOLEAN,
           Turn(p, f, s)
    PROVE  /\ listPage' \in Nat \ {0} /\ readFilter' \in {"all", "unread", "read"}
           /\ searched' \in BOOLEAN /\ refetch' \in BOOLEAN
           /\ listShown' \in ListAnswers /\ KeptTyped'
<1>1. /\ listPage' \in Nat \ {0} /\ readFilter' \in {"all", "unread", "read"} /\ searched' \in BOOLEAN
  BY DEF Turn
<1> DEFINE old == <<listPage, readFilter, searched>>
<1>2. CASE UNCHANGED <<listShown, refetch, kept>>
  BY <1>1, <1>2 DEF PagedTypeOK, KeptTyped
<1>3. ASSUME NEW new, Rekey(old, new)
      PROVE  refetch' \in BOOLEAN /\ listShown' \in ListAnswers /\ KeptTyped'
  <2>1. refetch' \in BOOLEAN /\ listShown' \in ListAnswers
    <3>1. CASE new \in DOMAIN kept
      <4>1. kept[new] \in [data : ListAnswers, invalid : BOOLEAN]
        BY <3>1 DEF PagedTypeOK
      <4>2. kept[new].data \in ListAnswers /\ kept[new].invalid \in BOOLEAN
        BY <4>1, Zenon
      <4> QED
        BY <1>3, <3>1, <4>2, Zenon DEF Rekey
    <3>2. CASE new \notin DOMAIN kept
      BY <1>3, <3>2 DEF Rekey, ListAnswers
    <3> QED
      BY <3>1, <3>2
  <2> DEFINE entry == [data |-> listShown, invalid |-> refetch]
             keys == (DOMAIN kept \cup {old}) \ {new}
  <2>2. entry \in [data : ListAnswers, invalid : BOOLEAN]
    BY DEF PagedTypeOK
  <2>3. kept' = [k \in keys |-> IF k = old THEN entry ELSE kept[k]]
    BY <1>3 DEF Rekey
  <2> HIDE DEF entry
  <2>4. \A k \in keys : kept'[k] \in [data : ListAnswers, invalid : BOOLEAN]
    BY <2>2, <2>3 DEF PagedTypeOK
  <2> QED
    BY <2>1, <2>3, <2>4 DEF KeptTyped
<1> QED
  BY <1>1, <1>2, <1>3 DEF Turn

\* The pages, filters, marks and the answer of the list keep their types: its rows
\* are alerts of the user, its page a page.
THEOREM PagedTypeCorrect == PagedSpec => []PagedTypeOK
<1>1. PagedInit => PagedTypeOK
  <2> SUFFICES ASSUME PagedInit PROVE PagedTypeOK
    OBVIOUS
  <2>1. /\ inbox \subseteq Notice /\ unreadRows \subseteq inbox
        /\ searchBox \in BOOLEAN /\ searched \in BOOLEAN /\ debounce \in BOOLEAN /\ refetch \in BOOLEAN
        /\ listShown = Nil /\ kept = << >>
    BY DEF PagedInit
  <2>2. /\ listPage \in Nat \ {0} /\ readFilter \in {"all", "unread", "read"}
        /\ inputs \in 0..MaxInputs /\ marks \in 0..inputs
    BY PagedAssumption DEF PagedInit
  <2> QED
    BY <2>1, <2>2 DEF PagedTypeOK, ListAnswers, KeptTyped
<1>2. PagedTypeOK /\ [PagedNext]_pagedVars => PagedTypeOK'
  <2> SUFFICES ASSUME PagedTypeOK, [PagedNext]_pagedVars
               PROVE  PagedTypeOK'
    OBVIOUS
  <2> USE PagedAssumption
  <2> DEFINE last == PagesFor(listShown.total)
  <2>0. PagerDrawn => last \in Nat \ {0}
    BY PagesAreCounted DEF PagerDrawn, PagedTypeOK, ListAnswers
  <2>1. CASE AnswerList
    BY <2>1, MatchingIsCounted DEF AnswerList, RowsOfPage, PagedTypeOK, ListAnswers
  <2>2. CASE ClampPage
    BY <2>0, <2>2, TurnKeepsType DEF ClampPage, PagedTypeOK, KeptTyped
  <2>3. CASE DebounceFires
    <3>1. searchBox \in BOOLEAN /\ readFilter \in {"all", "unread", "read"} /\ 1 \in Nat \ {0}
      BY DEF PagedTypeOK
    <3>2. Turn(1, readFilter, searchBox)
      BY <2>3 DEF DebounceFires
    <3> QED
      BY <2>3, <3>1, <3>2, TurnKeepsType DEF DebounceFires, PagedTypeOK, KeptTyped
  <2>4. ASSUME NEW p \in 1..Cardinality(Notice), GoToPage(p)
        PROVE  PagedTypeOK'
    <3>1. p \in Nat \ {0}
      BY <2>0, <2>4 DEF GoToPage
    <3> QED
      BY <2>4, <3>1, TurnKeepsType DEF GoToPage, Input, PagedTypeOK, KeptTyped
  <2>5. ASSUME NEW f \in {"all", "unread", "read"}, SetRead(f)
        PROVE  PagedTypeOK'
    BY <2>5, TurnKeepsType DEF SetRead, Input, PagedTypeOK, KeptTyped
  <2>6. ASSUME NEW s \in BOOLEAN, TypeSearch(s)
        PROVE  PagedTypeOK'
    BY <2>6 DEF TypeSearch, Input, PagedTypeOK
  <2>7. CASE ClearFilters
    <3>1. FALSE \in BOOLEAN /\ "all" \in {"all", "unread", "read"} /\ 1 \in Nat \ {0}
      OBVIOUS
    <3>2. Turn(1, "all", FALSE)
      BY <2>7 DEF ClearFilters
    <3>3. searchBox' \in BOOLEAN /\ debounce' \in BOOLEAN
      BY <2>7 DEF ClearFilters
    <3>4. inputs' \in 0..MaxInputs /\ marks' \in 0..inputs'
      BY <2>7 DEF ClearFilters, Input, PagedTypeOK
    <3>5. inbox' \subseteq Notice /\ unreadRows' \subseteq inbox'
      BY <2>7 DEF ClearFilters, PagedTypeOK
    <3>6. /\ listPage' \in Nat \ {0} /\ readFilter' \in {"all", "unread", "read"}
          /\ searched' \in BOOLEAN /\ refetch' \in BOOLEAN
          /\ listShown' \in ListAnswers /\ KeptTyped'
      BY <3>1, <3>2, TurnKeepsType
    <3> QED
      BY <3>3, <3>4, <3>5, <3>6 DEF PagedTypeOK, KeptTyped
  <2>8. CASE MarkOne \/ MarkAll
    <3>1. PICK S \in SUBSET inbox : MarkListed(S)
      BY <2>8 DEF MarkOne, MarkAll, PagedTypeOK
    <3> QED
      BY <3>1 DEF MarkListed, Input, PagedTypeOK
  <2>9. CASE MarkAnswered
    BY <2>9, InvalidatingListsKeepsType DEF MarkAnswered, PagedTypeOK, KeptTyped
  <2>10. CASE NoticeComes
    BY <2>10, InvalidatingListsKeepsType DEF NoticeComes, PagedTypeOK, KeptTyped
  <2>11. CASE UNCHANGED pagedVars
    BY <2>11 DEF pagedVars, PagedTypeOK
  <2> QED
    BY <2>1, <2>2, <2>3, <2>4, <2>5, <2>6, <2>7, <2>8, <2>9, <2>10, <2>11 DEF PagedNext
<1> QED
  BY <1>1, <1>2, PTL DEF PagedSpec

-----------------------------------------------------------------------------
(* The road routes of the map                                              *)

\* What a commit does to one hook, and to the calls of all.
LEMMA EffectsPerHook ==
    ASSUME NEW rerun \in SUBSET Hook, NEW wanted \in [Hook -> Leg \cup {Nil}],
           NEW cached, NEW pending \in SUBSET Leg, NEW calls \in [Hook -> Leg \cup {Nil}],
           gaveWay \subseteq Hook,
           Effects(rerun, wanted, cached, pending, calls)
    PROVE  /\ call' \in [Hook -> Leg \cup {Nil}]
           /\ pendingRoutes' \subseteq Leg /\ dying' \subseteq Leg /\ gaveWay' \subseteq Hook
           /\ \A h \in rerun :
                 /\ call'[h] \in {wanted[h], Nil}
                 /\ wanted[h] # Nil /\ wanted[h] \notin cached
                       => call'[h] = wanted[h] \/ h \in gaveWay'
           /\ \A h \in Hook \ rerun : call'[h] = calls[h] /\ (h \in gaveWay' <=> h \in gaveWay)
<1> DEFINE aborted == {calls[h] : h \in rerun} \ {Nil}
           lacking == {h \in rerun : wanted[h] # Nil /\ wanted[h] \notin cached}
           free    == {h \in lacking : wanted[h] \notin pending}
<1>1. PICK first \in SUBSET free :
         /\ call' = [h \in Hook |-> IF h \in first THEN wanted[h]
                                    ELSE IF h \in rerun THEN Nil ELSE calls[h]]
         /\ pendingRoutes' = pending \cup {wanted[h] : h \in first}
         /\ dying' = aborted
         /\ gaveWay' = (gaveWay \ rerun) \cup (lacking \ first)
  BY DEF Effects
<1>2. first \subseteq rerun /\ lacking \subseteq rerun /\ \A h \in first : wanted[h] \in Leg
  OBVIOUS
<1>3. call' \in [Hook -> Leg \cup {Nil}]
  BY <1>1
<1>4. pendingRoutes' \subseteq Leg /\ dying' \subseteq Leg /\ gaveWay' \subseteq Hook
  BY <1>1, <1>2
<1>5. \A h \in rerun :
         /\ call'[h] \in {wanted[h], Nil}
         /\ wanted[h] # Nil /\ wanted[h] \notin cached => call'[h] = wanted[h] \/ h \in gaveWay'
  BY <1>1
<1>6. \A h \in Hook \ rerun : call'[h] = calls[h] /\ (h \in gaveWay' <=> h \in gaveWay)
  BY <1>1, <1>2
<1> QED
  BY <1>3, <1>4, <1>5, <1>6

LEMMA OneMeansSame ==
    ASSUME NEW S, IsFiniteSet(S), Cardinality(S) = 1, NEW g \in S, NEW h \in S
    PROVE  g = h
<1>1. PICK x : S = {x}
  BY FS_Singleton
<1> QED
  BY <1>1

\* A commit that starts with every leg of a call pending, and nothing else, and
\* one call per leg at most, ends so.
LEMMA EffectsShareCalls ==
    ASSUME NEW rerun \in SUBSET Hook, NEW wanted \in [Hook -> Leg \cup {Nil}],
           NEW cached, NEW pending, NEW calls \in [Hook -> Leg \cup {Nil}],
           pending = {calls[h] : h \in Hook} \ {Nil},
           \A g, h \in Hook : calls[g] # Nil /\ calls[g] = calls[h] => g = h,
           Effects(rerun, wanted, cached, pending, calls)
    PROVE  OneCallPerLeg'
<1> DEFINE aborted == {calls[h] : h \in rerun} \ {Nil}
           lacking == {h \in rerun : wanted[h] # Nil /\ wanted[h] \notin cached}
           free    == {h \in lacking : wanted[h] \notin pending}
<1>1. PICK first \in SUBSET free :
         /\ \A k \in {wanted[h] : h \in free} : Cardinality({h \in first : wanted[h] = k}) = 1
         /\ call' = [h \in Hook |-> IF h \in first THEN wanted[h]
                                    ELSE IF h \in rerun THEN Nil ELSE calls[h]]
         /\ pendingRoutes' = pending \cup {wanted[h] : h \in first}
         /\ dying' = aborted
  BY DEF Effects
<1>2. /\ first \subseteq rerun
      /\ \A h \in first : wanted[h] # Nil /\ wanted[h] \notin pending
  OBVIOUS
<1>3. \A g, h \in first : wanted[g] = wanted[h] => g = h
  <2> SUFFICES ASSUME NEW g \in first, NEW h \in first, wanted[g] = wanted[h]
               PROVE  g = h
    OBVIOUS
  <2> DEFINE S == {x \in first : wanted[x] = wanted[h]}
  <2>1. IsFiniteSet(S)
    BY RoadRoutesAssumption, FS_Subset
  <2>2. Cardinality(S) = 1
    BY <1>1
  <2> QED
    BY <2>1, <2>2, OneMeansSame
<1>4. \A h \in Hook : /\ h \in first => call'[h] = wanted[h]
                      /\ h \in rerun \ first => call'[h] = Nil
                      /\ h \notin rerun => call'[h] = calls[h]
  BY <1>1, <1>2
<1>5. \A h \in Hook : calls[h] # Nil => calls[h] \in pending
  OBVIOUS
<1>6. \A g, h \in Hook : call'[g] # Nil /\ call'[g] = call'[h] => g = h
  <2> SUFFICES ASSUME NEW g \in Hook, NEW h \in Hook, call'[g] # Nil, call'[g] = call'[h]
               PROVE  g = h
    OBVIOUS
  <2>1. (g \in first \/ g \notin rerun) /\ (h \in first \/ h \notin rerun)
    BY <1>4
  <2> QED
    BY <2>1, <1>2, <1>3, <1>4, <1>5
<1>7. \A h \in Hook : call'[h] # Nil => call'[h] \in pendingRoutes' \ dying'
  <2> SUFFICES ASSUME NEW h \in Hook, call'[h] # Nil
               PROVE  call'[h] \in pendingRoutes' /\ call'[h] \notin dying'
    OBVIOUS
  <2>1. CASE h \in first
    BY <2>1, <1>1, <1>2, <1>4
  <2>2. CASE h \notin rerun
    BY <2>2, <1>1, <1>4, <1>5
  <2> QED
    BY <2>1, <2>2, <1>4
<1>8. pendingRoutes' = dying' \cup ({call'[h] : h \in Hook} \ {Nil})
  <2>1. ASSUME NEW k \in pendingRoutes' PROVE k \in dying' \cup ({call'[h] : h \in Hook} \ {Nil})
    <3>1. CASE \E h \in first : k = wanted[h]
      BY <3>1, <1>2, <1>4
    <3>2. CASE k \in pending
      <4>1. PICK h \in Hook : k = calls[h] /\ k # Nil
        BY <3>2
      <4>2. CASE h \in rerun
        BY <4>1, <4>2, <1>1
      <4>3. CASE h \notin rerun
        BY <4>1, <4>3, <1>4
      <4> QED
        BY <4>2, <4>3
    <3> QED
      BY <2>1, <3>1, <3>2, <1>1
  <2>2. dying' \subseteq pendingRoutes'
    BY <1>1, <1>5
  <2>3. {call'[h] : h \in Hook} \ {Nil} \subseteq pendingRoutes'
    BY <1>7
  <2> QED
    BY <2>1, <2>2, <2>3
<1> QED
  BY <1>6, <1>7, <1>8 DEF OneCallPerLeg

\* cacheRoute keeps to its budget.
LEMMA StoredKeepsBudget ==
    ASSUME RoadTypeOK, NEW k \in Leg
    PROVE  Stored(k) \in Seq(Leg) /\ Len(Stored(k)) <= MaxRoutes
BY RoadRoutesAssumption DEF Stored, RoadTypeOK

\* What keeps a hook that loads from waiting for nobody: its call is for what it
\* wants, and "loading" is only returned without a route and without an answer.
LoadingInv ==
    \A h \in Hook :
        /\ call[h] # Nil => call[h] = want[h]
        /\ want[h] # Nil /\ ~ hadRoute[h] /\ resolved[h].key # want[h]
               => call[h] = want[h] \/ h \in gaveWay
        /\ shown[h] = "loading"
               => want[h] # Nil /\ ~ hadRoute[h] /\ resolved[h].key # want[h]

RoadInv == RoadTypeOK /\ OneCallPerLeg /\ LoadingInv

\* A render of some views, with the wishes and answers of the next state; the
\* hooks that did not render wish what they did.
LEMMA RenderKeeps ==
    ASSUME RoadTypeOK,
           NEW views \in SUBSET Hook, NEW changed \in SUBSET Hook,
           NEW wanted \in [Hook -> Leg \cup {Nil}], NEW outcomes \in [Hook -> Outcome],
           NEW cached, NEW pending \in SUBSET Leg, NEW calls \in [Hook -> Leg \cup {Nil}],
           Render(views, changed, wanted, outcomes, cached, pending, calls),
           want' = wanted, resolved' = outcomes,
           pending = {calls[h] : h \in Hook} \ {Nil},
           \A g, h \in Hook : calls[g] # Nil /\ calls[g] = calls[h] => g = h,
           \A h \in Hook :
               \/ h \in views /\ h \in changed
               \/ /\ calls[h] # Nil => calls[h] = wanted[h]
                  /\ wanted[h] # Nil /\ ~ hadRoute[h] /\ outcomes[h].key # wanted[h]
                        => calls[h] = wanted[h] \/ h \in gaveWay
                  /\ h \notin views /\ shown[h] = "loading"
                        => wanted[h] # Nil /\ ~ hadRoute[h] /\ outcomes[h].key # wanted[h],
           routeCache' \in Seq(Leg), Len(routeCache') <= MaxRoutes, looks' \in 0..MaxLooks
    PROVE  RoadInv'
<1> DEFINE rerun == {h \in views : h \in changed \cup Unstable
                                     \/ (wanted[h] \in cached) # hadRoute[h]}
<1>1. Effects(rerun, wanted, cached, pending, calls)
  BY DEF Render
<1>2. OneCallPerLeg'
  <2> HIDE DEF rerun
  <2>1. rerun \in SUBSET Hook
    BY DEF rerun
  <2> QED
    BY <1>1, <2>1, EffectsShareCalls
<1>3. /\ call' \in [Hook -> Leg \cup {Nil}]
      /\ pendingRoutes' \subseteq Leg /\ dying' \subseteq Leg /\ gaveWay' \subseteq Hook
      /\ \A h \in rerun :
            /\ call'[h] \in {wanted[h], Nil}
            /\ wanted[h] # Nil /\ wanted[h] \notin cached
                  => call'[h] = wanted[h] \/ h \in gaveWay'
      /\ \A h \in Hook \ rerun : call'[h] = calls[h] /\ (h \in gaveWay' <=> h \in gaveWay)
  <2>1. gaveWay \subseteq Hook
    BY DEF RoadTypeOK
  <2>2. rerun \in SUBSET Hook
    OBVIOUS
  <2> HIDE DEF rerun
  <2> QED
    BY <1>1, <2>1, <2>2, EffectsPerHook
<1>4. /\ hadRoute' = [h \in Hook |-> IF h \in views THEN wanted[h] \in cached ELSE hadRoute[h]]
      /\ shown' = [h \in Hook |-> IF h \in views THEN Returned(wanted[h], outcomes[h], cached) ELSE shown[h]]
  BY DEF Render
<1>5. \A h \in Hook :
         /\ Returned(wanted[h], outcomes[h], cached) \in {"idle", "loading", "ready", "error"}
         /\ Returned(wanted[h], outcomes[h], cached) = "loading"
               => wanted[h] # Nil /\ wanted[h] \notin cached /\ outcomes[h].key # wanted[h]
  BY DEF Returned, Outcome
<1>6. RoadTypeOK'
  <2>1. hadRoute' \in [Hook -> BOOLEAN]
    <3> DEFINE found(h) == IF h \in views THEN wanted[h] \in cached ELSE hadRoute[h]
    <3>1. ASSUME NEW h \in Hook PROVE found(h) \in BOOLEAN
      <4>1. CASE h \in views
        BY <4>1
      <4>2. CASE h \notin views
        BY <4>2 DEF RoadTypeOK
      <4> QED
        BY <4>1, <4>2
    <3>2. hadRoute' = [h \in Hook |-> found(h)]
      BY <1>4
    <3> HIDE DEF found
    <3> QED
      BY <3>1, <3>2
  <2>2. shown' \in [Hook -> {"idle", "loading", "ready", "error"}]
    BY <1>4, <1>5 DEF RoadTypeOK
  <2> QED
    BY <1>3, <2>1, <2>2 DEF RoadTypeOK
<1>7. LoadingInv'
  <2> SUFFICES ASSUME NEW h \in Hook
               PROVE  /\ call'[h] # Nil => call'[h] = wanted[h]
                      /\ wanted[h] # Nil /\ ~ hadRoute'[h] /\ outcomes[h].key # wanted[h]
                            => call'[h] = wanted[h] \/ h \in gaveWay'
                      /\ shown'[h] = "loading"
                            => wanted[h] # Nil /\ ~ hadRoute'[h] /\ outcomes[h].key # wanted[h]
    BY DEF LoadingInv
  <2>1. CASE h \in rerun
    <3>1. h \in views
      BY <2>1
    <3> HIDE DEF rerun
    <3>2. hadRoute'[h] = (wanted[h] \in cached)
      BY <1>4, <3>1
    <3>3. shown'[h] = Returned(wanted[h], outcomes[h], cached)
      BY <1>4, <3>1
    <3>4. /\ call'[h] \in {wanted[h], Nil}
          /\ wanted[h] # Nil /\ wanted[h] \notin cached => call'[h] = wanted[h] \/ h \in gaveWay'
      BY <1>3, <2>1
    <3> QED
      BY <1>5, <3>2, <3>3, <3>4
  <2>2. CASE h \in views /\ h \notin rerun
    <3>1. h \notin changed
      BY <2>2
    <3>2. hadRoute'[h] = (wanted[h] \in cached)
      BY <1>4, <2>2
    <3>3. hadRoute'[h] = hadRoute[h]
      BY <2>2, <3>2
    <3>4. shown'[h] = Returned(wanted[h], outcomes[h], cached)
      BY <1>4, <2>2
    <3>5. call'[h] = calls[h] /\ (h \in gaveWay' <=> h \in gaveWay)
      BY <1>3, <2>2
    <3> HIDE DEF rerun
    <3> QED
      BY <1>5, <3>1, <3>2, <3>3, <3>4, <3>5
  <2>3. CASE h \notin views
    <3>1. h \notin rerun
      BY <2>3
    <3> HIDE DEF rerun
    <3>2. call'[h] = calls[h] /\ (h \in gaveWay' <=> h \in gaveWay)
      BY <1>3, <3>1
    <3>3. hadRoute'[h] = hadRoute[h] /\ shown'[h] = shown[h]
      BY <1>4, <2>3
    <3> QED
      BY <2>3, <3>2, <3>3
  <2> QED
    BY <2>1, <2>2, <2>3
<1> QED
  BY <1>2, <1>6, <1>7 DEF RoadInv

LEMMA AnswersKeep ==
    ASSUME RoadInv, NEW h \in Hook, NEW status \in {"ready", "error"}, NEW cache \in Seq(Leg),
           Len(cache) <= MaxRoutes, Settle(h, status, cache)
    PROVE  RoadInv'
<1> DEFINE key      == call[h]
           outcomes == [resolved EXCEPT ![h] = [key |-> key, status |-> status]]
           cached   == {cache[i] : i \in DOMAIN cache}
           calls    == [call EXCEPT ![h] = Nil]
           pending  == pendingRoutes \ {key}
<1>1. /\ dying = {} /\ key # Nil
      /\ resolved' = outcomes /\ routeCache' = cache /\ want' = want /\ looks' = looks
      /\ Render(InView(h), {}, want, outcomes, cached, pending, calls)
  BY DEF Settle
<1>2. /\ outcomes \in [Hook -> Outcome] /\ calls \in [Hook -> Leg \cup {Nil}]
      /\ want \in [Hook -> Leg \cup {Nil}] /\ pending \in SUBSET Leg
  BY DEF RoadInv, RoadTypeOK, Outcome
<1>3. pending = {calls[g] : g \in Hook} \ {Nil}
  <2>1. ASSUME NEW k \in pending PROVE k \in {calls[g] : g \in Hook} \ {Nil}
    <3>1. PICK g \in Hook : k = call[g] /\ k # Nil
      BY <1>1, <2>1 DEF RoadInv, OneCallPerLeg
    <3> QED
      BY <2>1, <3>1 DEF RoadInv, RoadTypeOK
  <2>2. ASSUME NEW g \in Hook, calls[g] # Nil PROVE calls[g] \in pending
    BY <1>1, <2>2 DEF RoadInv, RoadTypeOK, OneCallPerLeg
  <2> QED
    BY <2>1, <2>2
<1>4. \A f, g \in Hook : calls[f] # Nil /\ calls[f] = calls[g] => f = g
  BY DEF RoadInv, RoadTypeOK, OneCallPerLeg
<1>5. ASSUME NEW g \in Hook
      PROVE  /\ calls[g] # Nil => calls[g] = want[g]
             /\ want[g] # Nil /\ ~ hadRoute[g] /\ outcomes[g].key # want[g]
                   => calls[g] = want[g] \/ g \in gaveWay
             /\ g \notin InView(h) /\ shown[g] = "loading"
                   => want[g] # Nil /\ ~ hadRoute[g] /\ outcomes[g].key # want[g]
  <2>1. CASE g = h
    <3>1. g \in InView(h)
      BY <2>1 DEF InView
    <3>2. outcomes[g].key = want[g] /\ calls[g] = Nil
      BY <1>1, <2>1 DEF RoadInv, RoadTypeOK, LoadingInv
    <3> QED
      BY <3>1, <3>2
  <2>2. CASE g # h
    <3>1. outcomes[g] = resolved[g] /\ calls[g] = call[g]
      BY <2>2 DEF RoadInv, RoadTypeOK
    <3> QED
      BY <3>1 DEF RoadInv, LoadingInv
  <2> QED
    BY <2>1, <2>2
<1>6. InView(h) \in SUBSET Hook /\ looks' \in 0..MaxLooks /\ {} \in SUBSET Hook
  BY <1>1 DEF InView, RoadInv, RoadTypeOK
<1>7. RoadTypeOK
  BY DEF RoadInv
<1> HIDE DEF outcomes, cached, calls, pending, key
<1> QED
  BY <1>1, <1>2, <1>3, <1>4, <1>5, <1>6, <1>7, RenderKeeps

LEMMA RoadInvInductive ==
    /\ RoadInit => RoadInv
    /\ RoadInv /\ [RoadNext]_roadVars => RoadInv'
<1>1. RoadInit => RoadInv
  <2> SUFFICES ASSUME RoadInit PROVE RoadInv
    OBVIOUS
  <2>1. RoadTypeOK
    BY RoadRoutesAssumption DEF RoadInit, RoadTypeOK, Outcome
  <2>2. OneCallPerLeg
    BY DEF RoadInit, OneCallPerLeg
  <2>3. LoadingInv
    BY DEF RoadInit, LoadingInv
  <2> QED
    BY <2>1, <2>2, <2>3 DEF RoadInv
<1>2. RoadInv /\ [RoadNext]_roadVars => RoadInv'
  <2> SUFFICES ASSUME RoadInv, [RoadNext]_roadVars
               PROVE  RoadInv'
    OBVIOUS
  <2>1. dying = {} => /\ pendingRoutes = {call[h] : h \in Hook} \ {Nil}
                      /\ \A g, h \in Hook : call[g] # Nil /\ call[g] = call[h] => g = h
    BY DEF RoadInv, OneCallPerLeg
  <2>2. ASSUME NEW wanted \in Looks, Look(wanted)
        PROVE  RoadInv'
    <3>1. /\ wanted \in [Hook -> Leg \cup {Nil}] /\ Hook \in SUBSET Hook
          /\ routeCache' \in Seq(Leg) /\ Len(routeCache') <= MaxRoutes /\ looks' \in 0..MaxLooks
      BY <2>2, RoadRoutesAssumption DEF Look, RoadInv, RoadTypeOK
    <3>2. /\ resolved \in [Hook -> Outcome] /\ call \in [Hook -> Leg \cup {Nil}]
          /\ pendingRoutes \in SUBSET Leg /\ RoadTypeOK
      BY DEF RoadInv, RoadTypeOK
    <3>3. /\ Render(Hook, Hook, wanted, resolved, Cached, pendingRoutes, call)
          /\ want' = wanted /\ resolved' = resolved /\ dying = {}
      BY <2>2 DEF Look
    <3> QED
      BY <2>1, <3>1, <3>2, <3>3, RenderKeeps
  <2>3. CASE RenderMap
    <3>1. /\ Hook \in SUBSET Hook /\ {} \in SUBSET Hook
          /\ routeCache' \in Seq(Leg) /\ Len(routeCache') <= MaxRoutes /\ looks' \in 0..MaxLooks
      BY <2>3, RoadRoutesAssumption DEF RenderMap, RoadInv, RoadTypeOK
    <3>2. /\ want \in [Hook -> Leg \cup {Nil}] /\ resolved \in [Hook -> Outcome]
          /\ call \in [Hook -> Leg \cup {Nil}] /\ pendingRoutes \in SUBSET Leg /\ RoadTypeOK
      BY DEF RoadInv, RoadTypeOK
    <3>3. /\ Render(Hook, {}, want, resolved, Cached, pendingRoutes, call)
          /\ want' = want /\ resolved' = resolved /\ dying = {}
      BY <2>3 DEF RenderMap
    <3>4. LoadingInv
      BY DEF RoadInv
    <3> QED
      BY <2>1, <3>1, <3>2, <3>3, <3>4, RenderKeeps DEF LoadingInv
  <2>4. CASE RejectAborted
    <3>1. RoadTypeOK'
      BY <2>4 DEF RejectAborted, RoadInv, RoadTypeOK
    <3>2. OneCallPerLeg'
      BY <2>4 DEF RejectAborted, RoadInv, OneCallPerLeg
    <3>3. LoadingInv'
      BY <2>4 DEF RejectAborted, RoadInv, LoadingInv
    <3> QED
      BY <3>1, <3>2, <3>3 DEF RoadInv
  <2>5. ASSUME NEW h \in Hook, RouteAnswers(h)
        PROVE  RoadInv'
    <3>1. call[h] \in Leg /\ RoadTypeOK /\ Settle(h, "ready", Stored(call[h]))
      BY <2>5 DEF RouteAnswers, RoadInv, RoadTypeOK
    <3>2. Stored(call[h]) \in Seq(Leg) /\ Len(Stored(call[h])) <= MaxRoutes
      BY <3>1, StoredKeepsBudget
    <3> QED
      BY <3>1, <3>2, AnswersKeep
  <2>6. ASSUME NEW h \in Hook, RouteFails(h)
        PROVE  RoadInv'
    <3>1. /\ routeCache \in Seq(Leg) /\ Len(routeCache) <= MaxRoutes
          /\ Settle(h, "error", routeCache)
      BY <2>6 DEF RouteFails, RoadInv, RoadTypeOK
    <3> QED
      BY <3>1, AnswersKeep
  <2>7. CASE UNCHANGED roadVars
    <3>1. RoadTypeOK'
      BY <2>7 DEF roadVars, RoadInv, RoadTypeOK
    <3>2. OneCallPerLeg' /\ LoadingInv'
      BY <2>7 DEF roadVars, RoadInv, OneCallPerLeg, LoadingInv
    <3> QED
      BY <3>1, <3>2 DEF RoadInv
  <2> QED
    BY <2>2, <2>3, <2>4, <2>5, <2>6, <2>7 DEF RoadNext
<1> QED
  BY <1>1, <1>2

\* Two hooks that want one leg share one call, whatever is aborted, answered and
\* rendered in between.
THEOREM LegsShareCalls == RoadSpec => []OneCallPerLeg
<1>1. RoadInv => OneCallPerLeg
  BY DEF RoadInv
<1> QED
  BY <1>1, RoadInvInductive, PTL DEF RoadSpec

\* A hook that loads has a call under way, or gave way to another one's.
THEOREM WhoLoadsWaitsForACall == RoadSpec => []LoadingHasACall
<1>1. RoadInv => LoadingHasACall
  BY DEF RoadInv, LoadingInv, LoadingHasACall
<1> QED
  BY <1>1, RoadInvInductive, PTL DEF RoadSpec

\* Wishes, answers, calls and the cache of the map keep their types and the cache
\* its budget.
THEOREM RoadTypeCorrect == RoadSpec => []RoadTypeOK
<1>1. RoadInv => RoadTypeOK
  BY DEF RoadInv
<1> QED
  BY <1>1, RoadInvInductive, PTL DEF RoadSpec

-----------------------------------------------------------------------------
(* The session of a tab                                                    *)

LEMMA BoundsCount == MaxIssued \in Nat /\ MaxLogins \in Nat /\ MaxTroubles \in Nat
BY ClientSessionAssumption

LEMMA SmallRecords ==
    /\ NoAttempt \in Attempt /\ NoCall \in PageCall
    /\ \A c, seen \in 0..MaxIssued, must \in BOOLEAN : Sent(c, seen, must) \in Attempt
<1>1. 0 \in 0..MaxIssued
  BY BoundsCount
<1> QED
  BY <1>1 DEF NoAttempt, Attempt, NoCall, PageCall, Sent

LEMMA AttemptsStayAttempts ==
    ASSUME NEW a \in Attempt, NEW c \in 0..MaxIssued, NEW g \in 0..MaxIssued,
           NEW s \in {"idle", "sent", "answered", "refused", "failed", "owner", "queued"}
    PROVE  /\ [a EXCEPT !.at = s] \in Attempt
           /\ [a EXCEPT !.at = s, !.cookie = c, !.got = g] \in Attempt
           /\ [a EXCEPT !.at = s, !.got = g, !.cookie = c] \in Attempt
BY DEF Attempt

LEMMA SpendingIsCounted ==
    ASSUME ClientTypeOK
    PROVE  /\ Uses("logins", MaxLogins) => spent' \in [logins : 0..MaxLogins, troubles : 0..MaxTroubles]
           /\ Uses("troubles", MaxTroubles) => spent' \in [logins : 0..MaxLogins, troubles : 0..MaxTroubles]
BY BoundsCount DEF ClientTypeOK, Uses

LEMMA FlagsStayFlags == FlagsOK /\ [ClientNext]_clientVars => FlagsOK'
<1> SUFFICES ASSUME FlagsOK, [ClientNext]_clientVars
             PROVE  FlagsOK'
  OBVIOUS
<1>0. SignOutAndReload => FlagsOK'
  BY DEF SignOutAndReload, Reload, FlagsOK, server
<1>1. CASE Login \/ Logout \/ ServeLogout \/ LeaveStore
  BY <1>1 DEF Login, Logout, ServeLogout, LeaveStore, FlagsOK, store, server, tabNotes
<1>2. CASE ReloadTab \/ Expire \/ Revoke
  BY <1>2 DEF ReloadTab, Reload, Expire, Revoke, FlagsOK, store, server, tabNotes
<1>3. ASSUME NEW x \in Refresher, Serve(x) \/ LoseAnswer(x)
      PROVE  FlagsOK'
  BY <1>3 DEF Serve, LoseAnswer, Verdict, FlagsOK, store, server, tabNotes
<1>4. ASSUME NEW c \in orphans, ServeOrphan(c)
      PROVE  FlagsOK'
  BY <1>4 DEF ServeOrphan, Verdict, FlagsOK, store, tabNotes
<1>5. ASSUME NEW q \in Call, (\E me \in BOOLEAN : SendCall(q, me)) \/ LoseMe(q) \/ ServeCall(q)
      PROVE  FlagsOK'
  BY <1>5 DEF SendCall, LoseMe, ServeCall, FlagsOK, store, server, tabNotes
<1>6. ASSUME NEW q \in Call, ReceiveCall(q) \/ Unauthorized(q)
      PROVE  FlagsOK'
  BY <1>0, <1>6 DEF ReceiveCall, Unauthorized, Post, FlagsOK, store, server, tabNotes
<1>7. CASE HttpRefreshed \/ HttpRefused \/ ConnectSocket \/ SocketAdmitted \/ ForceLogout
  BY <1>0, <1>7 DEF HttpRefreshed, HttpRefused, ConnectSocket, SocketAdmitted, ForceLogout,
                    FlagsOK, store, server, tabNotes
<1>8. ASSUME NEW x \in SocketTry, SocketAuthRequired(x) \/ SocketConnectError(x)
      PROVE  FlagsOK'
  BY <1>8 DEF SocketAuthRequired, SocketConnectError, Post, FlagsOK, store, server
<1>9. ASSUME NEW x \in SocketTry, SocketRefreshed(x) \/ SocketRefused(x)
      PROVE  FlagsOK'
  BY <1>0, <1>9 DEF SocketRefreshed, SocketRefused, FlagsOK, store, server, tabNotes
<1>10. CASE GuardRefresh \/ GuardRefreshed
  BY <1>10 DEF GuardRefresh, GuardRefreshed, Post, FlagsOK, store, server, tabNotes
<1>11. CASE GuardUnauthorized \/ GuardFailed
  BY <1>0, <1>11 DEF GuardUnauthorized, GuardFailed, FlagsOK, store, server, tabNotes
<1>12. CASE UNCHANGED clientVars
  BY <1>12 DEF clientVars, FlagsOK, store, server, tabNotes
<1> QED
  BY <1>1, <1>2, <1>3, <1>4, <1>5, <1>6, <1>7, <1>8, <1>9, <1>10, <1>11, <1>12 DEF ClientNext

LEMMA ReloadKeepsType ==
    ASSUME ClientTypeOK, Reload,
           FlagsOK', token' \in 0..MaxIssued, UNCHANGED <<jar, server>>,
           spent' \in [logins : 0..MaxLogins, troubles : 0..MaxTroubles]
    PROVE  ClientTypeOK'
<1>1. refresh' \in [Refresher -> Attempt] /\ page' \in [Call -> PageCall]
  BY SmallRecords DEF Reload
<1>2. orphans' \subseteq 0..MaxIssued
  <2>1. \A x \in InFlight : refresh[x].cookie \in 0..MaxIssued
    BY DEF InFlight, ClientTypeOK, Attempt
  <2>2. orphans' = orphans \cup {refresh[x].cookie : x \in {y \in InFlight : refresh[y].at = "sent"}}
    BY DEF Reload
  <2>3. orphans \subseteq 0..MaxIssued
    BY DEF ClientTypeOK
  <2> QED
    BY <2>1, <2>2, <2>3
<1>3. wire' = "none" /\ leaving' = "no"
  BY DEF Reload
<1> QED
  BY <1>1, <1>2, <1>3 DEF ClientTypeOK, server

LEMMA SigningOutKeepsType ==
    ASSUME ClientTypeOK, FlagsOK', SignOutAndReload
    PROVE  ClientTypeOK'
<1>1. /\ token' = 0 /\ Reload /\ UNCHANGED <<jar, server>>
      /\ spent' \in [logins : 0..MaxLogins, troubles : 0..MaxTroubles] /\ token' \in 0..MaxIssued
  BY BoundsCount DEF SignOutAndReload, ClientTypeOK
<1> QED
  BY <1>1, ReloadKeepsType

LEMMA PostKeepsType ==
    ASSUME ClientTypeOK, NEW x \in Refresher, NEW must \in BOOLEAN, Post(x, must)
    PROVE  refresh' \in [Refresher -> Attempt]
<1>1. jar \in 0..MaxIssued /\ (IF x = "guard" THEN token ELSE 0) \in 0..MaxIssued
  BY BoundsCount DEF ClientTypeOK
<1>2. Sent(jar, IF x = "guard" THEN token ELSE 0, must) \in Attempt
  BY <1>1, SmallRecords
<1> QED
  BY <1>2 DEF Post, ClientTypeOK

LEMMA VerdictKeepsType ==
    ASSUME ClientTypeOK, NEW c \in 0..MaxIssued, Verdict(c)
    PROVE  /\ issued' \in 0..MaxIssued /\ alive' \in 0..MaxIssued
           /\ Rotates(c) => issued + 1 \in 0..MaxIssued
BY BoundsCount DEF ClientTypeOK, Verdict, Rotates, Reuses

LEMMA ClientTypeInductive ==
    /\ ClientInit => ClientTypeOK
    /\ ClientTypeOK /\ [ClientNext]_clientVars => ClientTypeOK'
<1>1. ClientInit => ClientTypeOK
  <2> SUFFICES ASSUME ClientInit PROVE ClientTypeOK
    OBVIOUS
  <2>1. FlagsOK
    BY DEF ClientInit, FlagsOK
  <2>2. refresh \in [Refresher -> Attempt] /\ page \in [Call -> PageCall]
    BY SmallRecords DEF ClientInit
  <2> QED
    BY <2>1, <2>2, BoundsCount DEF ClientInit, ClientTypeOK
<1>2. ClientTypeOK /\ [ClientNext]_clientVars => ClientTypeOK'
  <2> SUFFICES ASSUME ClientTypeOK, [ClientNext]_clientVars
               PROVE  ClientTypeOK'
    OBVIOUS
  <2> USE BoundsCount
  <2>0. FlagsOK'
    BY FlagsStayFlags DEF ClientTypeOK
  <2>1. CASE Login
    BY <2>0, <2>1, SpendingIsCounted DEF Login, ClientTypeOK
  <2>2. CASE Logout \/ ServeLogout
    <3>1. CASE Logout
      BY <2>0, <3>1 DEF Logout, ClientTypeOK, store, server, tabNotes
    <3>2. CASE ServeLogout
      BY <2>0, <3>2 DEF ServeLogout, ClientTypeOK, store, tabNotes
    <3> QED
      BY <2>2, <3>1, <3>2
  <2>3. CASE LeaveStore
    BY <2>0, <2>3 DEF LeaveStore, ClientTypeOK, server
  <2>4. CASE ReloadTab
    BY <2>0, <2>4, ReloadKeepsType, SpendingIsCounted DEF ReloadTab, ClientTypeOK, store
  <2>5. CASE Expire \/ Revoke
    <3>1. CASE Expire
      BY <2>0, <3>1 DEF Expire, ClientTypeOK, store, tabNotes
    <3>2. CASE Revoke
      BY <2>0, <3>2 DEF Revoke, ClientTypeOK, store, tabNotes
    <3> QED
      BY <2>5, <3>1, <3>2
  <2>6. ASSUME NEW x \in Refresher, Serve(x)
        PROVE  ClientTypeOK'
    <3> DEFINE c == refresh[x].cookie
    <3>1. c \in 0..MaxIssued /\ Verdict(c)
      BY <2>6 DEF Serve, ClientTypeOK, Attempt
    <3>2. refresh' \in [Refresher -> Attempt]
      <4>1. /\ refresh[x] \in Attempt /\ 0 \in 0..MaxIssued
            /\ Rotates(c) => issued + 1 \in 0..MaxIssued
        BY <3>1, VerdictKeepsType DEF ClientTypeOK
      <4>2. CASE Rotates(c)
        <5>1. refresh' = [refresh EXCEPT ![x] = [@ EXCEPT !.at = "answered", !.got = issued + 1, !.cookie = 0]]
          BY <2>6, <4>2 DEF Serve
        <5> QED
          BY <4>1, <4>2, <5>1, AttemptsStayAttempts DEF ClientTypeOK
      <4>3. CASE ~ Rotates(c)
        <5>1. refresh' = [refresh EXCEPT ![x] = [@ EXCEPT !.at = "refused", !.got = 0, !.cookie = 0]]
          BY <2>6, <4>3 DEF Serve
        <5> QED
          BY <4>1, <5>1, AttemptsStayAttempts DEF ClientTypeOK
      <4> QED
        BY <4>2, <4>3
    <3> QED
      BY <2>0, <2>6, <3>1, <3>2, VerdictKeepsType DEF Serve, ClientTypeOK, store, tabNotes
  <2>7. ASSUME NEW x \in Refresher, LoseAnswer(x)
        PROVE  ClientTypeOK'
    <3>1. refresh' \in [Refresher -> Attempt]
      <4>1. /\ refresh[x] \in Attempt /\ 0 \in 0..MaxIssued
            /\ refresh' = [refresh EXCEPT ![x] = [@ EXCEPT !.at = "failed", !.cookie = 0, !.got = 0]]
        BY <2>7 DEF LoseAnswer, ClientTypeOK
      <4> QED
        BY <4>1, AttemptsStayAttempts DEF ClientTypeOK
    <3> QED
      BY <2>0, <2>7, <3>1, SpendingIsCounted DEF LoseAnswer, ClientTypeOK, store, server
  <2>8. ASSUME NEW c \in orphans, ServeOrphan(c)
        PROVE  ClientTypeOK'
    <3>1. c \in 0..MaxIssued
      BY DEF ClientTypeOK
    <3> QED
      BY <2>0, <2>8, <3>1, VerdictKeepsType DEF ServeOrphan, ClientTypeOK, store, tabNotes
  <2>9. ASSUME NEW q \in Call, NEW me \in BOOLEAN, SendCall(q, me)
        PROVE  ClientTypeOK'
    <3>1. page' \in [Call -> PageCall]
      BY <2>9 DEF SendCall, ClientTypeOK, PageCall
    <3> QED
      BY <2>0, <2>9, <3>1 DEF SendCall, ClientTypeOK, store, server, tabNotes
  <2>10. ASSUME NEW q \in Call, LoseMe(q)
         PROVE  ClientTypeOK'
    <3>1. page' \in [Call -> PageCall]
      BY <2>10, SmallRecords DEF LoseMe, ClientTypeOK
    <3> QED
      BY <2>0, <2>10, <3>1, SpendingIsCounted DEF LoseMe, ClientTypeOK, server
  <2>11. ASSUME NEW q \in Call, ServeCall(q) \/ ReceiveCall(q)
         PROVE  ClientTypeOK'
    <3>1. page' \in [Call -> PageCall]
      <4>1. CASE ServeCall(q)
        BY <4>1 DEF ServeCall, ClientTypeOK, PageCall
      <4>2. CASE ReceiveCall(q)
        BY <4>2, SmallRecords DEF ReceiveCall, ClientTypeOK
      <4> QED
        BY <2>11, <4>1, <4>2
    <3> QED
      BY <2>0, <2>11, <3>1 DEF ServeCall, ReceiveCall, ClientTypeOK, store, server, tabNotes
  <2>12. ASSUME NEW q \in Call, Unauthorized(q)
         PROVE  ClientTypeOK'
    <3>1. ASSUME page' = [page EXCEPT ![q].at = "owner"], Post("http", FALSE),
                 UNCHANGED <<store, jar, orphans, wire, leaving, server, cleared, spent>>
          PROVE  ClientTypeOK'
      <4>1. page' \in [Call -> PageCall]
        BY <3>1 DEF ClientTypeOK, PageCall
      <4>2. refresh' \in [Refresher -> Attempt]
        BY <3>1, PostKeepsType DEF Refresher
      <4> QED
        BY <2>0, <3>1, <4>1, <4>2 DEF ClientTypeOK, store, server
    <3>2. ASSUME page' = [page EXCEPT ![q].at = "queued"],
                 UNCHANGED <<store, jar, refresh, orphans, wire, leaving, server, tabNotes>>
          PROVE  ClientTypeOK'
      <4>1. page' \in [Call -> PageCall]
        BY <3>2 DEF ClientTypeOK, PageCall
      <4> QED
        BY <2>0, <3>2, <4>1 DEF ClientTypeOK, store, server, tabNotes
    <3> QED
      BY <2>0, <2>12, <3>1, <3>2, SigningOutKeepsType DEF Unauthorized
  <2>13. CASE HttpRefreshed
    <3> DEFINE t == refresh["http"].got
    <3>1. t \in 0..MaxIssued /\ "guard" \in Refresher /\ refresh["guard"].seen \in 0..MaxIssued
      BY DEF ClientTypeOK, Attempt, Refresher
    <3>2. page' \in [Call -> PageCall]
      BY <2>13, <3>1 DEF HttpRefreshed, Resent, ClientTypeOK, PageCall
    <3>3. refresh' \in [Refresher -> Attempt]
      <4> DEFINE g    == refresh["guard"]
                 next == IF g.at \in {"owner", "queued"} THEN Sent(t, g.seen, g.at = "owner") ELSE g
      <4>1. next \in Attempt
        BY <3>1, SmallRecords DEF ClientTypeOK
      <4>2. refresh' = [refresh EXCEPT !["http"] = NoAttempt, !["guard"] = next]
        BY <2>13, <3>1 DEF HttpRefreshed, ClientTypeOK
      <4> HIDE DEF next
      <4> QED
        BY <4>1, <4>2, SmallRecords DEF ClientTypeOK
    <3> QED
      BY <2>0, <2>13, <3>1, <3>2, <3>3 DEF HttpRefreshed, ClientTypeOK, server, tabNotes
  <2>14. CASE HttpRefused \/ ForceLogout
    BY <2>0, <2>14, SigningOutKeepsType DEF HttpRefused, ForceLogout
  <2>15. CASE ConnectSocket \/ SocketAdmitted
    BY <2>0, <2>15 DEF ConnectSocket, SocketAdmitted, ClientTypeOK, store, server, tabNotes
  <2>16. ASSUME NEW x \in SocketTry, SocketAuthRequired(x)
         PROVE  ClientTypeOK'
    <3>1. refresh' \in [Refresher -> Attempt]
      BY <2>16, PostKeepsType DEF SocketAuthRequired, Refresher
    <3> QED
      BY <2>0, <2>16, <3>1 DEF SocketAuthRequired, ClientTypeOK, store, server
  <2>17. ASSUME NEW x \in SocketTry, SocketConnectError(x)
         PROVE  ClientTypeOK'
    <3>1. refresh' \in [Refresher -> Attempt]
      BY <2>17, PostKeepsType DEF SocketConnectError, Refresher
    <3> QED
      BY <2>0, <2>17, <3>1, SpendingIsCounted DEF SocketConnectError, ClientTypeOK, store, server
  <2>18. ASSUME NEW x \in SocketTry, SocketRefreshed(x)
         PROVE  ClientTypeOK'
    <3>1. x \in Refresher /\ refresh[x].got \in 0..MaxIssued
      BY DEF ClientTypeOK, Attempt, Refresher
    <3> QED
      BY <2>0, <2>18, <3>1, SmallRecords DEF SocketRefreshed, ClientTypeOK, server, tabNotes
  <2>19. ASSUME NEW x \in SocketTry, SocketRefused(x)
         PROVE  ClientTypeOK'
    BY <2>0, <2>19, SmallRecords, SigningOutKeepsType DEF SocketRefused, ClientTypeOK, store, server, tabNotes
  <2>20. CASE GuardRefresh
    <3>1. refresh' \in [Refresher -> Attempt]
      BY <2>20, PostKeepsType DEF GuardRefresh, Refresher
    <3> QED
      BY <2>0, <2>20, <3>1 DEF GuardRefresh, ClientTypeOK, store, server
  <2>21. CASE GuardRefreshed
    <3>1. refresh["guard"].got \in 0..MaxIssued
      BY DEF ClientTypeOK, Attempt, Refresher
    <3> QED
      BY <2>0, <2>21, <3>1, SmallRecords DEF GuardRefreshed, ClientTypeOK, server, tabNotes
  <2>22. CASE GuardUnauthorized
    <3>1. ASSUME refresh' = [refresh EXCEPT !["guard"].at = "owner", !["http"] = Sent(jar, 0, FALSE)],
                 strained' = (strained \/ InFlight # {}),
                 UNCHANGED <<store, jar, orphans, page, wire, leaving, server, cleared, spent>>
          PROVE  ClientTypeOK'
      <4>1. Sent(jar, 0, FALSE) \in Attempt
        <5>1. jar \in 0..MaxIssued /\ 0 \in 0..MaxIssued
          BY DEF ClientTypeOK
        <5> QED
          BY <5>1, SmallRecords
      <4>2. refresh["guard"] \in Attempt
        BY DEF ClientTypeOK, Refresher
      <4>3. refresh' \in [Refresher -> Attempt]
        BY <3>1, <4>1, <4>2, AttemptsStayAttempts DEF ClientTypeOK, Refresher
      <4> QED
        BY <2>0, <3>1, <4>3 DEF ClientTypeOK, store, server
    <3>2. ASSUME refresh' = [refresh EXCEPT !["guard"].at = "queued"],
                 UNCHANGED <<store, jar, orphans, page, wire, leaving, server, tabNotes>>
          PROVE  ClientTypeOK'
      <4>1. refresh' \in [Refresher -> Attempt]
        <5>1. refresh["guard"] \in Attempt
          BY DEF ClientTypeOK, Refresher
        <5> QED
          BY <3>2, <5>1, AttemptsStayAttempts DEF ClientTypeOK
      <4> QED
        BY <2>0, <3>2, <4>1 DEF ClientTypeOK, store, server, tabNotes
    <3> QED
      BY <2>0, <2>22, <3>1, <3>2, SigningOutKeepsType DEF GuardUnauthorized
  <2>23. CASE GuardFailed
    <3>1. refresh' \in [Refresher -> Attempt]
      BY <2>23, SmallRecords DEF GuardFailed, ClientTypeOK
    <3>2. token' \in 0..MaxIssued /\ wire' \in {"none", "connecting", "connected", "refreshing"}
      BY <2>23 DEF GuardFailed, ClientTypeOK
    <3>3. UNCHANGED <<jar, orphans, page, leaving, server, spent>>
      BY <2>23 DEF GuardFailed
    <3> QED
      BY <2>0, <3>1, <3>2, <3>3 DEF ClientTypeOK, server
  <2>24. CASE UNCHANGED clientVars
    BY <2>0, <2>24 DEF clientVars, ClientTypeOK, store, server, tabNotes
  <2> QED
    BY <2>1, <2>2, <2>3, <2>4, <2>5, <2>6, <2>7, <2>8, <2>9, <2>10, <2>11, <2>12, <2>13, <2>14,
       <2>15, <2>16, <2>17, <2>18, <2>19, <2>20, <2>21, <2>22, <2>23, <2>24 DEF ClientNext
<1> QED
  BY <1>1, <1>2

\* ClientSpec but for its fairness, which no safety property of the session needs.
ClientSteps == ClientInit /\ [][ClientNext]_clientVars

LEMMA ClientTypeStays == ClientSteps => []ClientTypeOK
BY ClientTypeInductive, PTL DEF ClientSteps

\* The credentials, refreshes, requests and the socket of a tab keep their types.
THEOREM ClientTypeCorrect == ClientSpec => []ClientTypeOK
BY ClientTypeStays, PTL DEF ClientSpec, ClientSteps

\* Why no token is left behind: a tab that is signed out, and was not cleared with
\* requests under way, has nothing under way and no socket; and every answer and
\* every request under way carries a token.
TokenInv ==
    /\ signedIn => token # 0
    /\ ~ signedIn /\ ~ cleared => token = 0 /\ Pending = {} /\ wire = "none"
    /\ \A x \in Refresher : refresh[x].at = "answered" => refresh[x].got # 0
    /\ \A q \in Call : page[q].at # "idle" => page[q].token # 0

LEMMA SigningOutLeavesNothing ==
    ASSUME SignOutAndReload
    PROVE  TokenInv'
BY DEF SignOutAndReload, Reload, TokenInv, Pending, NoAttempt, NoCall

LEMMA TokenInvInductive ==
    /\ ClientInit => TokenInv
    /\ ClientTypeOK /\ TokenInv /\ [ClientNext]_clientVars => TokenInv'
<1>1. ClientInit => TokenInv
  BY DEF ClientInit, TokenInv, Pending, NoAttempt, NoCall
<1>2. ClientTypeOK /\ TokenInv /\ [ClientNext]_clientVars => TokenInv'
  <2> SUFFICES ASSUME ClientTypeOK, TokenInv, [ClientNext]_clientVars
               PROVE  TokenInv'
    OBVIOUS
  <2>0. /\ refresh \in [Refresher -> Attempt] /\ page \in [Call -> PageCall]
        /\ issued \in Nat /\ "http" \in Refresher /\ "guard" \in Refresher
        /\ SocketTry \subseteq Refresher
    BY BoundsCount DEF ClientTypeOK, Refresher
  <2>1. CASE Login
    BY <2>0, <2>1 DEF Login, TokenInv, InFlight
  <2>2. CASE Logout \/ ServeLogout \/ Expire \/ Revoke \/ (\E c \in orphans : ServeOrphan(c))
    BY <2>2 DEF Logout, ServeLogout, Expire, Revoke, ServeOrphan, TokenInv, Pending, store, tabNotes
  <2>3. CASE LeaveStore
    BY <2>3 DEF LeaveStore, TokenInv, Pending, server
  <2>4. CASE ReloadTab
    BY <2>4 DEF ReloadTab, Reload, TokenInv, Pending, NoAttempt, NoCall, store
  <2>5. ASSUME NEW x \in Refresher, Serve(x)
        PROVE  TokenInv'
    <3>1. x \in Pending /\ (signedIn \/ cleared)
      BY <2>5 DEF Serve, Pending, TokenInv
    <3>2. \A y \in Refresher : refresh'[y].at = "answered" => refresh'[y].got # 0
      <4>1. ASSUME NEW y \in Refresher, y # x PROVE refresh'[y] = refresh[y]
        BY <2>0, <2>5, <4>1 DEF Serve
      <4>2. refresh'[x].at = "answered" => refresh'[x].got = issued + 1
        BY <2>0, <2>5 DEF Serve, Attempt
      <4> QED
        BY <2>0, <4>1, <4>2 DEF TokenInv
    <3> QED
      BY <2>5, <3>1, <3>2 DEF Serve, TokenInv, store, tabNotes
  <2>6. ASSUME NEW x \in Refresher, LoseAnswer(x)
        PROVE  TokenInv'
    <3>1. x \in Pending /\ (signedIn \/ cleared)
      BY <2>6 DEF LoseAnswer, Pending, TokenInv
    <3>2. \A y \in Refresher : refresh'[y].at = "answered" => refresh'[y].got # 0
      BY <2>0, <2>6 DEF LoseAnswer, TokenInv, Attempt
    <3> QED
      BY <2>6, <3>1, <3>2 DEF LoseAnswer, TokenInv, store
  <2>7. ASSUME NEW q \in Call, NEW me \in BOOLEAN, SendCall(q, me)
        PROVE  TokenInv'
    BY <2>0, <2>7 DEF SendCall, TokenInv, Pending, store, tabNotes
  <2>8. ASSUME NEW q \in Call, LoseMe(q)
        PROVE  TokenInv'
    <3>1. \A p \in Call : page'[p].at # "idle" => page'[p].token # 0
      BY <2>0, <2>8 DEF LoseMe, TokenInv, NoCall
    <3> QED
      BY <2>8, <3>1 DEF LoseMe, TokenInv
  <2>9. ASSUME NEW q \in Call, ServeCall(q) \/ ReceiveCall(q)
        PROVE  TokenInv'
    <3>1. /\ page[q].at # "idle" /\ page[q].token # 0 /\ (signedIn \/ cleared)
          /\ UNCHANGED <<token, refresh, wire, cleared>>
      BY <2>9 DEF ServeCall, ReceiveCall, TokenInv, Pending, store, tabNotes
    <3>2. \A p \in Call : page'[p].at # "idle" => page'[p].token # 0
      BY <2>0, <2>9 DEF ServeCall, ReceiveCall, TokenInv, NoCall, PageCall
    <3>3. signedIn' => token # 0
      BY <2>9, <3>1 DEF ServeCall, ReceiveCall, Current, TokenInv, store
    <3>4. signedIn => signedIn'
      BY <2>9 DEF ServeCall, ReceiveCall, store
    <3> QED
      BY <3>1, <3>2, <3>3, <3>4 DEF TokenInv
  <2>10. ASSUME NEW q \in Call, Unauthorized(q)
         PROVE  TokenInv'
    <3>1. page[q].at # "idle" /\ (signedIn \/ cleared)
      BY <2>10 DEF Unauthorized, TokenInv, Pending
    <3>2. ASSUME NEW s \in {"owner", "queued"}, page' = [page EXCEPT ![q].at = s],
                 UNCHANGED <<store, wire, cleared>>,
                 \A x \in Refresher : refresh'[x].at = "answered" => refresh'[x] = refresh[x]
          PROVE  TokenInv'
      <4>1. \A p \in Call : page'[p].at # "idle" => page'[p].token # 0
        BY <2>0, <3>1, <3>2 DEF TokenInv, PageCall
      <4> QED
        BY <3>1, <3>2, <4>1 DEF TokenInv, store
    <3>3. Post("http", FALSE) => \A x \in Refresher : refresh'[x].at = "answered" => refresh'[x] = refresh[x]
      BY <2>0 DEF Post, Sent
    <3> QED
      BY <2>10, <3>2, <3>3, SigningOutLeavesNothing DEF Unauthorized, tabNotes
  <2>11. CASE HttpRefreshed
    <3> DEFINE t == refresh["http"].got
    <3>1. t # 0 /\ (signedIn \/ cleared)
      BY <2>0, <2>11 DEF HttpRefreshed, TokenInv, Pending
    <3>2. \A q \in Call : page'[q].at # "idle" => page'[q].token # 0
      BY <2>11, <3>1 DEF HttpRefreshed, Resent, TokenInv
    <3>3. \A x \in Refresher : refresh'[x].at = "answered" => refresh'[x].got # 0
      <4>1. ASSUME NEW x \in Refresher, x \notin {"http", "guard"} PROVE refresh'[x] = refresh[x]
        BY <2>0, <2>11, <4>1 DEF HttpRefreshed
      <4>2. refresh'["http"] = NoAttempt
        BY <2>0, <2>11 DEF HttpRefreshed
      <4>3. \/ refresh'["guard"] = refresh["guard"]
            \/ refresh'["guard"].at = "sent"
        BY <2>0, <2>11 DEF HttpRefreshed, Sent
      <4> QED
        BY <2>0, <4>1, <4>2, <4>3 DEF TokenInv, NoAttempt
    <3> QED
      BY <2>11, <3>1, <3>2, <3>3 DEF HttpRefreshed, TokenInv, tabNotes
  <2>12. CASE HttpRefused \/ ForceLogout
    BY <2>12, SigningOutLeavesNothing DEF HttpRefused, ForceLogout
  <2>13. CASE ConnectSocket \/ SocketAdmitted
    BY <2>13 DEF ConnectSocket, SocketAdmitted, TokenInv, Pending, store, tabNotes
  <2>14. ASSUME NEW x \in SocketTry, SocketAuthRequired(x) \/ SocketConnectError(x)
         PROVE  TokenInv'
    <3>1. /\ signedIn \/ cleared
          /\ UNCHANGED <<store, page, cleared>>
      BY <2>14 DEF SocketAuthRequired, SocketConnectError, TokenInv
    <3>2. \A y \in Refresher : refresh'[y].at = "answered" => refresh'[y] = refresh[y]
      BY <2>0, <2>14 DEF SocketAuthRequired, SocketConnectError, Post, Sent
    <3> QED
      BY <3>1, <3>2 DEF TokenInv, store
  <2>15. ASSUME NEW x \in SocketTry, SocketRefreshed(x)
         PROVE  TokenInv'
    <3>1. x \in Refresher /\ refresh[x].got # 0 /\ (signedIn \/ cleared)
      BY <2>0, <2>15 DEF SocketRefreshed, TokenInv, Pending
    <3>2. \A y \in Refresher : refresh'[y].at = "answered" => refresh'[y].got # 0
      BY <2>0, <2>15 DEF SocketRefreshed, TokenInv, NoAttempt
    <3> QED
      BY <2>15, <3>1, <3>2 DEF SocketRefreshed, TokenInv, tabNotes
  <2>16. ASSUME NEW x \in SocketTry, SocketRefused(x)
         PROVE  TokenInv'
    <3>1. x \in Refresher /\ (signedIn \/ cleared)
      BY <2>0, <2>16 DEF SocketRefused, TokenInv, Pending
    <3>2. ASSUME refresh' = [refresh EXCEPT ![x] = NoAttempt], UNCHANGED <<store, page, cleared>>
          PROVE  TokenInv'
      <4>1. \A y \in Refresher : refresh'[y].at = "answered" => refresh'[y].got # 0
        BY <2>0, <3>2 DEF TokenInv, NoAttempt
      <4> QED
        BY <3>1, <3>2, <4>1 DEF TokenInv, store
    <3> QED
      BY <2>16, <3>2, SigningOutLeavesNothing DEF SocketRefused, tabNotes
  <2>17. CASE GuardRefresh
    <3>1. /\ signedIn \/ cleared
          /\ UNCHANGED <<store, page, wire, cleared>>
      BY <2>17 DEF GuardRefresh, TokenInv
    <3>2. \A y \in Refresher : refresh'[y].at = "answered" => refresh'[y] = refresh[y]
      BY <2>0, <2>17 DEF GuardRefresh, Post, Sent
    <3> QED
      BY <3>1, <3>2 DEF TokenInv, store
  <2>18. CASE GuardRefreshed
    <3>1. refresh["guard"].got # 0 /\ (signedIn \/ cleared)
      BY <2>0, <2>18 DEF GuardRefreshed, TokenInv, Pending
    <3>2. \A y \in Refresher : refresh'[y].at = "answered" => refresh'[y].got # 0
      BY <2>0, <2>18 DEF GuardRefreshed, TokenInv, NoAttempt
    <3> QED
      BY <2>18, <3>1, <3>2 DEF GuardRefreshed, TokenInv, tabNotes
  <2>19. CASE GuardUnauthorized
    <3>1. signedIn \/ cleared
      BY <2>0, <2>19 DEF GuardUnauthorized, TokenInv, Pending
    <3>2. ASSUME NEW s \in {"owner", "queued"},
                 \/ refresh' = [refresh EXCEPT !["guard"].at = s, !["http"] = Sent(jar, 0, FALSE)]
                 \/ refresh' = [refresh EXCEPT !["guard"].at = s],
                 UNCHANGED <<store, page, wire, cleared>>
          PROVE  TokenInv'
      <4>1. \A y \in Refresher : refresh'[y].at = "answered" => refresh'[y] = refresh[y]
        BY <2>0, <3>2 DEF Sent, Attempt
      <4> QED
        BY <3>1, <3>2, <4>1 DEF TokenInv, store
    <3> QED
      BY <2>19, <3>2, SigningOutLeavesNothing DEF GuardUnauthorized, tabNotes
  <2>20. CASE GuardFailed
    <3>1. signedIn \/ cleared
      BY <2>0, <2>20 DEF GuardFailed, TokenInv, Pending
    <3>2. \A y \in Refresher : refresh'[y].at = "answered" => refresh'[y].got # 0
      BY <2>0, <2>20 DEF GuardFailed, TokenInv, NoAttempt
    <3>3. CASE token = refresh["guard"].seen
      BY <2>20, <3>2, <3>3 DEF GuardFailed, TokenInv
    <3>4. CASE token # refresh["guard"].seen
      BY <2>20, <3>1, <3>2, <3>4 DEF GuardFailed, TokenInv
    <3> QED
      BY <3>3, <3>4
  <2>21. CASE UNCHANGED clientVars
    BY <2>21 DEF clientVars, TokenInv, Pending, store, tabNotes
  <2> QED
    BY <2>1, <2>2, <2>3, <2>4, <2>5, <2>6, <2>7, <2>8, <2>9, <2>10, <2>11, <2>12, <2>13, <2>14,
       <2>15, <2>16, <2>17, <2>18, <2>19, <2>20, <2>21 DEF ClientNext
<1> QED
  BY <1>1, <1>2

LEMMA TokensStayOwned == ClientSteps => []NoOrphanToken
<1>1. TokenInv => NoOrphanToken
  BY DEF TokenInv, NoOrphanToken
<1>2. ClientInit => ClientTypeOK /\ TokenInv
  BY ClientTypeInductive, TokenInvInductive
<1>3. (ClientTypeOK /\ TokenInv) /\ [ClientNext]_clientVars => (ClientTypeOK /\ TokenInv)'
  BY ClientTypeInductive, TokenInvInductive
<1> QED
  BY <1>1, <1>2, <1>3, PTL DEF ClientSteps

\* A user without a token is never shown; a token without a user only follows a
\* clearing of the store that left requests under way.
THEOREM TokensAreOwned == ClientSpec => []NoOrphanToken
BY TokensStayOwned, PTL DEF ClientSpec, ClientSteps

\* Why the server takes no refresh for a theft while no two cross: one refresh at
\* most is under way, none is left over from a page that is gone, and what it
\* carries, or failing that the cookie, is the live token or of an ended session.
RefreshInv ==
    ~ strained =>
        /\ ~ reused /\ orphans = {}
        /\ \A x, y \in InFlight : x = y
        /\ \A x \in Refresher : refresh[x].at = "sent" => ~ Reuses(refresh[x].cookie)
        /\ \A x \in Refresher : refresh[x].at = "answered" => refresh[x].got >= alive
        /\ (\A x \in Refresher : refresh[x].at # "answered") => ~ Reuses(jar)

\* A refresh begins with the cookie of the moment.
LEMMA PostingKeepsRefreshInv ==
    ASSUME ClientTypeOK, RefreshInv, NEW x \in Refresher,
           refresh'[x].at = "sent", refresh'[x].cookie = jar,
           \A y \in Refresher \ {x} : \/ refresh'[y] = refresh[y]
                                      \/ refresh'[y].at \notin {"sent", "answered"},
           strained' = (strained \/ InFlight # {}),
           UNCHANGED <<jar, orphans, alive, reused>>
    PROVE  RefreshInv'
<1> SUFFICES ASSUME ~ strained'
             PROVE  /\ ~ reused /\ orphans = {}
                    /\ \A y, z \in InFlight' : y = z
                    /\ \A y \in Refresher : refresh'[y].at = "sent" => ~ Reuses(refresh'[y].cookie)
                    /\ \A y \in Refresher : refresh'[y].at # "answered"
                    /\ ~ Reuses(jar)
  BY DEF RefreshInv, Reuses
<1>1. ~ strained /\ InFlight = {}
  OBVIOUS
<1>2. \A y \in Refresher : refresh[y].at \notin {"sent", "answered"}
  BY <1>1 DEF InFlight
<1>3. \A y \in Refresher \ {x} : refresh'[y].at \notin {"sent", "answered"}
  BY <1>2
<1>4. ~ reused /\ orphans = {} /\ ~ Reuses(jar)
  BY <1>1, <1>2 DEF RefreshInv
<1> QED
  BY <1>3, <1>4 DEF InFlight

\* A refresh whose answer is taken leaves its token in the cookie.
LEMMA TakingKeepsRefreshInv ==
    ASSUME ClientTypeOK, RefreshInv, NEW x \in Refresher, NEW g \in Refresher,
           refresh[x].at = "answered", jar' = refresh[x].got,
           refresh'[x].at = "idle",
           \A y \in Refresher \ {x, g} : refresh'[y] = refresh[y],
           g # x => \/ refresh'[g] = refresh[g]
                    \/ refresh'[g].at = "sent" /\ refresh'[g].cookie = jar',
           UNCHANGED <<orphans, alive, reused, strained>>
    PROVE  RefreshInv'
<1> SUFFICES ASSUME ~ strained
             PROVE  /\ ~ reused /\ orphans = {}
                    /\ \A y, z \in InFlight' : y = z
                    /\ \A y \in Refresher : refresh'[y].at = "sent" => ~ Reuses(refresh'[y].cookie)
                    /\ \A y \in Refresher : refresh'[y].at # "answered"
                    /\ ~ Reuses(jar')
  BY DEF RefreshInv, Reuses
<1>1. /\ ~ reused /\ orphans = {}
      /\ \A y, z \in InFlight : y = z
      /\ refresh[x].got >= alive
  BY DEF RefreshInv
<1>2. \A y \in Refresher \ {x} : refresh[y].at \notin {"sent", "answered"}
  BY <1>1 DEF InFlight
<1>3. ~ Reuses(jar')
  <2>1. refresh[x].got \in Nat /\ alive \in Nat
    BY BoundsCount DEF ClientTypeOK, Attempt
  <2> QED
    BY <1>1, <2>1 DEF Reuses
<1>4. \A y \in Refresher \ {g} : refresh'[y].at \notin {"sent", "answered"}
  BY <1>2
<1>5. \/ refresh'[g].at \notin {"sent", "answered"}
      \/ refresh'[g].at = "sent" /\ refresh'[g].cookie = jar'
  BY <1>2
<1> QED
  BY <1>1, <1>3, <1>4, <1>5 DEF InFlight

\* A reload with a refresh under way is a crossing.
LEMMA ReloadingKeepsRefreshInv ==
    ASSUME RefreshInv, Reload, UNCHANGED <<jar, alive, reused>>
    PROVE  RefreshInv'
<1> SUFFICES ASSUME ~ strained, InFlight = {}
             PROVE  /\ ~ reused /\ orphans' = {} /\ InFlight' = {}
                    /\ \A y \in Refresher : refresh'[y].at = "idle"
                    /\ ~ Reuses(jar)
  BY DEF RefreshInv, Reload, Reuses, InFlight
<1>1. \A y \in Refresher : refresh'[y].at = "idle"
  BY DEF Reload, NoAttempt
<1>2. orphans' = {}
  BY DEF Reload, RefreshInv
<1>3. \A y \in Refresher : refresh[y].at # "answered"
  BY DEF InFlight
<1> QED
  BY <1>1, <1>2, <1>3 DEF RefreshInv, InFlight

\* What leaves cookies, refreshes and the flags alone, and opens no session.
LEMMA StillnessKeepsRefreshInv ==
    ASSUME ClientTypeOK, RefreshInv, UNCHANGED <<refresh, orphans, strained, reused>>,
           \/ jar' = jar \/ jar' = 0,
           \/ alive' = alive \/ alive' = 0
    PROVE  RefreshInv'
<1>1. /\ \A x \in Refresher : refresh[x].got \in Nat /\ refresh[x].cookie \in Nat
      /\ alive \in Nat /\ jar \in Nat
  BY BoundsCount DEF ClientTypeOK, Attempt
<1> QED
  BY <1>1 DEF RefreshInv, Reuses, InFlight

LEMMA RefreshInvInductive ==
    /\ ClientInit => RefreshInv
    /\ ClientTypeOK /\ RefreshInv /\ [ClientNext]_clientVars => RefreshInv'
<1>1. ClientInit => RefreshInv
  BY DEF ClientInit, RefreshInv, InFlight, NoAttempt, Reuses
<1>2. ClientTypeOK /\ RefreshInv /\ [ClientNext]_clientVars => RefreshInv'
  <2> SUFFICES ASSUME ClientTypeOK, RefreshInv, [ClientNext]_clientVars
               PROVE  RefreshInv'
    OBVIOUS
  <2>0. /\ refresh \in [Refresher -> Attempt] /\ "http" \in Refresher /\ "guard" \in Refresher
        /\ SocketTry \subseteq Refresher /\ "http" \notin SocketTry /\ "guard" \notin SocketTry
        /\ issued \in Nat /\ alive \in Nat
        /\ \A x \in Refresher : refresh[x].cookie \in Nat /\ refresh[x].got \in Nat
    BY BoundsCount, ClientSessionAssumption DEF ClientTypeOK, Refresher, Attempt
  <2>1. CASE Login
    BY <2>0, <2>1 DEF Login, RefreshInv, InFlight, Reuses
  <2>2. CASE Logout \/ ServeLogout \/ LeaveStore \/ Expire \/ Revoke \/ ConnectSocket \/ SocketAdmitted
             \/ UNCHANGED clientVars
    BY <2>2, StillnessKeepsRefreshInv
       DEF Logout, ServeLogout, LeaveStore, Expire, Revoke, ConnectSocket, SocketAdmitted,
           clientVars, store, server, tabNotes
  <2>3. CASE ReloadTab
    BY <2>3, ReloadingKeepsRefreshInv DEF ReloadTab, server
  <2>4. SignOutAndReload => RefreshInv'
    BY ReloadingKeepsRefreshInv DEF SignOutAndReload, server
  <2>5. ASSUME NEW x \in Refresher, Serve(x)
        PROVE  RefreshInv'
    <3> DEFINE c == refresh[x].cookie
    <3> SUFFICES ASSUME ~ strained PROVE RefreshInv'
      BY <2>5 DEF Serve, RefreshInv, tabNotes
    <3>1. /\ ~ reused /\ orphans = {} /\ ~ Reuses(c) /\ x \in InFlight
          /\ \A y \in InFlight : y = x
      BY <2>5 DEF Serve, RefreshInv, InFlight
    <3>2. \A y \in Refresher \ {x} : /\ refresh'[y] = refresh[y]
                                     /\ refresh'[y].at \notin {"sent", "answered"}
      BY <2>0, <2>5, <3>1 DEF Serve, InFlight
    <3>3. /\ ~ reused' /\ orphans' = {} /\ jar' = jar /\ strained' = strained
          /\ ~ Rotates(c) => alive' = alive
      BY <2>5, <3>1 DEF Serve, Verdict, tabNotes
    <3>4. CASE Rotates(c)
      <4>1. refresh'[x].at = "answered" /\ refresh'[x].got = issued + 1 /\ alive' = issued + 1
        <5>1. refresh' = [refresh EXCEPT ![x] = [@ EXCEPT !.at = "answered", !.got = issued + 1, !.cookie = 0]]
          BY <2>5, <3>4 DEF Serve
        <5>2. refresh'[x] = [refresh[x] EXCEPT !.at = "answered", !.got = issued + 1, !.cookie = 0]
          BY <2>0, <5>1
        <5>3. refresh'[x].at = "answered" /\ refresh'[x].got = issued + 1
          BY <2>0, <5>2 DEF Attempt
        <5>4. alive' = issued + 1
          BY <2>0, <2>5, <3>4 DEF Serve, Verdict, Rotates, Reuses
        <5> QED
          BY <5>3, <5>4
      <4> QED
        BY <2>0, <3>2, <3>3, <4>1 DEF RefreshInv, InFlight
    <3>5. CASE ~ Rotates(c)
      <4>1. refresh'[x].at = "refused"
        BY <2>0, <2>5, <3>5 DEF Serve, Attempt
      <4>2. \A y \in Refresher : refresh[y].at # "answered"
        BY <2>5, <3>1 DEF Serve, InFlight
      <4>3. ~ Reuses(jar)
        BY <4>2 DEF RefreshInv
      <4> QED
        BY <3>2, <3>3, <3>5, <4>1, <4>3 DEF RefreshInv, InFlight, Reuses
    <3> QED
      BY <3>4, <3>5
  <2>6. ASSUME NEW x \in Refresher, LoseAnswer(x)
        PROVE  RefreshInv'
    <3> SUFFICES ASSUME ~ strained, refresh[x].at = "sent" PROVE RefreshInv'
      BY <2>6 DEF LoseAnswer, RefreshInv
    <3>1. /\ refresh'[x].at = "failed"
          /\ \A y \in Refresher \ {x} : refresh'[y] = refresh[y]
          /\ UNCHANGED <<jar, orphans, alive, reused>>
      BY <2>0, <2>6 DEF LoseAnswer, Attempt, server
    <3>2. \A y \in Refresher : refresh[y].at # "answered"
      BY DEF RefreshInv, InFlight
    <3> QED
      BY <3>1, <3>2 DEF RefreshInv, InFlight, Reuses
  <2>7. ASSUME NEW c \in orphans, ServeOrphan(c)
        PROVE  RefreshInv'
    BY <2>7 DEF ServeOrphan, RefreshInv, tabNotes
  <2>8. ASSUME NEW q \in Call, (\E me \in BOOLEAN : SendCall(q, me)) \/ LoseMe(q) \/ ServeCall(q) \/ ReceiveCall(q)
        PROVE  RefreshInv'
    BY <2>8, StillnessKeepsRefreshInv
       DEF SendCall, LoseMe, ServeCall, ReceiveCall, store, server, tabNotes
  <2>9. ASSUME NEW q \in Call, Unauthorized(q)
        PROVE  RefreshInv'
    <3>1. ASSUME Post("http", FALSE), UNCHANGED <<jar, orphans, alive, reused>>
          PROVE  RefreshInv'
      <4>1. /\ refresh'["http"].at = "sent" /\ refresh'["http"].cookie = jar
            /\ \A y \in Refresher \ {"http"} : refresh'[y] = refresh[y]
            /\ strained' = (strained \/ InFlight # {})
        BY <2>0, <3>1 DEF Post, Sent
      <4> QED
        BY <2>0, <3>1, <4>1, PostingKeepsRefreshInv
    <3>2. ASSUME UNCHANGED <<jar, refresh, orphans, alive, reused, strained>>
          PROVE  RefreshInv'
      BY <3>2, StillnessKeepsRefreshInv
    <3> QED
      BY <2>4, <2>9, <3>1, <3>2 DEF Unauthorized, server, tabNotes
  <2>10. CASE HttpRefreshed
    <3>1. /\ refresh["http"].at = "answered" /\ jar' = refresh["http"].got
          /\ UNCHANGED <<orphans, alive, reused, strained>>
      BY <2>10 DEF HttpRefreshed, server, tabNotes
    <3>2. /\ refresh'["http"] = NoAttempt
          /\ \A y \in Refresher \ {"http", "guard"} : refresh'[y] = refresh[y]
          /\ \/ refresh'["guard"] = refresh["guard"]
             \/ refresh'["guard"].at = "sent" /\ refresh'["guard"].cookie = jar'
      BY <2>0, <2>10 DEF HttpRefreshed, Sent
    <3>3. refresh'["http"].at = "idle"
      BY <3>2 DEF NoAttempt
    <3> QED
      BY <2>0, <3>1, <3>2, <3>3, TakingKeepsRefreshInv
  <2>11. CASE HttpRefused \/ ForceLogout
    BY <2>4, <2>11 DEF HttpRefused, ForceLogout
  <2>12. ASSUME NEW x \in SocketTry, SocketAuthRequired(x) \/ SocketConnectError(x)
         PROVE  RefreshInv'
    <3>1. /\ x \in Refresher
          /\ refresh'[x].at = "sent" /\ refresh'[x].cookie = jar
          /\ \A y \in Refresher \ {x} : refresh'[y] = refresh[y]
          /\ strained' = (strained \/ InFlight # {})
          /\ UNCHANGED <<jar, orphans, alive, reused>>
      BY <2>0, <2>12 DEF SocketAuthRequired, SocketConnectError, Post, Sent, server
    <3> QED
      BY <3>1, PostingKeepsRefreshInv
  <2>13. ASSUME NEW x \in SocketTry, SocketRefreshed(x)
         PROVE  RefreshInv'
    <3>1. /\ x \in Refresher /\ refresh[x].at = "answered" /\ jar' = refresh[x].got
          /\ refresh'[x].at = "idle"
          /\ \A y \in Refresher \ {x} : refresh'[y] = refresh[y]
          /\ UNCHANGED <<orphans, alive, reused, strained>>
      BY <2>0, <2>13 DEF SocketRefreshed, NoAttempt, server, tabNotes
    <3> QED
      BY <3>1, TakingKeepsRefreshInv
  <2>14. ASSUME NEW x \in Refresher, refresh[x].at \notin {"sent", "answered"},
                refresh' = [refresh EXCEPT ![x] = NoAttempt],
                UNCHANGED <<jar, orphans, alive, reused, strained>>
         PROVE  RefreshInv'
    <3>1. \A y \in Refresher : \/ refresh'[y] = refresh[y]
                               \/ y = x /\ refresh'[y].at = "idle"
      BY <2>0, <2>14 DEF NoAttempt
    <3> QED
      BY <2>14, <3>1 DEF RefreshInv, InFlight, Reuses
  <2>15. ASSUME NEW x \in SocketTry, SocketRefused(x)
         PROVE  RefreshInv'
    BY <2>0, <2>4, <2>14, <2>15 DEF SocketRefused, store, server, tabNotes
  <2>16. CASE GuardRefresh
    <3>1. /\ refresh'["guard"].at = "sent" /\ refresh'["guard"].cookie = jar
          /\ \A y \in Refresher \ {"guard"} : refresh'[y] = refresh[y]
          /\ strained' = (strained \/ InFlight # {})
          /\ UNCHANGED <<jar, orphans, alive, reused>>
      BY <2>0, <2>16 DEF GuardRefresh, Post, Sent, server
    <3> QED
      BY <2>0, <3>1, PostingKeepsRefreshInv
  <2>17. CASE GuardRefreshed
    <3>1. /\ refresh["guard"].at = "answered" /\ jar' = refresh["guard"].got
          /\ refresh'["guard"].at = "idle"
          /\ \A y \in Refresher \ {"guard"} : refresh'[y] = refresh[y]
          /\ UNCHANGED <<orphans, alive, reused, strained>>
      BY <2>0, <2>17 DEF GuardRefreshed, NoAttempt, server, tabNotes
    <3> QED
      BY <2>0, <3>1, TakingKeepsRefreshInv
  <2>18. CASE GuardUnauthorized
    <3>1. ASSUME refresh' = [refresh EXCEPT !["guard"].at = "owner", !["http"] = Sent(jar, 0, FALSE)],
                 strained' = (strained \/ InFlight # {}),
                 UNCHANGED <<jar, orphans, alive, reused>>
          PROVE  RefreshInv'
      <4>1. refresh'["http"] = Sent(jar, 0, FALSE)
        BY <2>0, <3>1
      <4>2. refresh'["guard"].at = "owner"
        BY <2>0, <3>1 DEF Attempt
      <4>3. \A y \in Refresher \ {"http", "guard"} : refresh'[y] = refresh[y]
        BY <2>0, <3>1
      <4>4. refresh'["http"].at = "sent" /\ refresh'["http"].cookie = jar
        BY <4>1 DEF Sent
      <4> QED
        BY <2>0, <3>1, <4>2, <4>3, <4>4, PostingKeepsRefreshInv
    <3>2. ASSUME refresh["guard"].at = "refused", refresh' = [refresh EXCEPT !["guard"].at = "queued"],
                 UNCHANGED <<jar, orphans, alive, reused, strained>>
          PROVE  RefreshInv'
      <4>1. refresh'["guard"].at = "queued"
        BY <2>0, <3>2 DEF Attempt
      <4>2. \A y \in Refresher \ {"guard"} : refresh'[y] = refresh[y]
        BY <2>0, <3>2
      <4> QED
        BY <3>2, <4>1, <4>2 DEF RefreshInv, InFlight, Reuses
    <3> QED
      BY <2>4, <2>18, <3>1, <3>2 DEF GuardUnauthorized, server, tabNotes
  <2>19. CASE GuardFailed
    BY <2>0, <2>14, <2>19 DEF GuardFailed, server
  <2> QED
    BY <2>1, <2>2, <2>3, <2>5, <2>6, <2>7, <2>8, <2>9, <2>10, <2>11, <2>12, <2>13, <2>15,
       <2>16, <2>17, <2>18, <2>19 DEF ClientNext
<1> QED
  BY <1>1, <1>2

LEMMA ReuseStaysACrossing == ClientSteps => []ReuseNeedsCrossing
<1>1. ClientTypeOK /\ RefreshInv => ReuseNeedsCrossing
  BY DEF RefreshInv, ReuseNeedsCrossing, ClientTypeOK, FlagsOK
<1>2. ClientInit => ClientTypeOK /\ RefreshInv
  BY ClientTypeInductive, RefreshInvInductive
<1>3. (ClientTypeOK /\ RefreshInv) /\ [ClientNext]_clientVars => (ClientTypeOK /\ RefreshInv)'
  BY ClientTypeInductive, RefreshInvInductive
<1> QED
  BY <1>1, <1>2, <1>3, PTL DEF ClientSteps

\* The server revokes the session for a reuse only when two refreshes of the tab
\* crossed or the answer of one never arrived.
THEOREM ReuseComesFromCrossing == ClientSpec => []ReuseNeedsCrossing
BY ReuseStaysACrossing, PTL DEF ClientSpec, ClientSteps
-----------------------------------------------------------------------------
(* Who waits for a refresh                                                 *)

\* The refresh of the HTTP layer neither begins nor ends, and nobody begins or ends
\* to wait.
LEMMA WaitingStays ==
    ASSUME QueuedHaveARefresh,
           refresh["http"].at = "idle" <=> refresh'["http"].at = "idle",
           \A s \in {"owner", "queued"} : /\ refresh'["guard"].at = s <=> refresh["guard"].at = s
                                          /\ \A q \in Call : page'[q].at = s <=> page[q].at = s
    PROVE  QueuedHaveARefresh'
<1>1. \A s \in {"owner", "queued"} : WaitingAs(s)' = WaitingAs(s)
  BY DEF WaitingAs
<1>2. WaitingAs("owner")' = WaitingAs("owner") /\ WaitingAs("queued")' = WaitingAs("queued")
  BY <1>1
<1>3. isRefreshing' <=> isRefreshing
  BY DEF isRefreshing
<1> QED
  BY <1>2, <1>3 DEF QueuedHaveARefresh

\* Nothing is under way, and nobody waits.
LEMMA NobodyWaits ==
    ASSUME refresh'["http"].at = "idle",
           \A s \in {"owner", "queued"} : /\ refresh'["guard"].at # s
                                          /\ \A q \in Call : page'[q].at # s
    PROVE  QueuedHaveARefresh'
<1>1. \A s \in {"owner", "queued"} : WaitingAs(s)' = {}
  BY DEF WaitingAs
<1>2. WaitingAs("owner")' = {} /\ WaitingAs("queued")' = {}
  BY <1>1
<1>3. ~ isRefreshing'
  BY DEF isRefreshing
<1> QED
  BY <1>2, <1>3 DEF QueuedHaveARefresh

\* Who is refused while nothing is under way begins a refresh, alone.
LEMMA OneBegins ==
    ASSUME QueuedHaveARefresh, ~ isRefreshing, NEW a \in Call \cup {"guard"},
           refresh'["http"].at = "sent",
           WaitingAs("owner")' = WaitingAs("owner") \cup {a}
    PROVE  QueuedHaveARefresh'
<1>1. WaitingAs("owner")' = {a}
  BY DEF QueuedHaveARefresh
<1>2. isRefreshing'
  BY DEF isRefreshing
<1> QED
  BY <1>1, <1>2 DEF QueuedHaveARefresh

\* Who is refused while one is under way waits for it.
LEMMA OthersQueue ==
    ASSUME QueuedHaveARefresh, isRefreshing, refresh'["http"] = refresh["http"],
           WaitingAs("owner")' = WaitingAs("owner")
    PROVE  QueuedHaveARefresh'
<1>1. isRefreshing'
  BY DEF isRefreshing
<1> QED
  BY <1>1 DEF QueuedHaveARefresh

LEMMA QueuedInductive ==
    /\ ClientInit => QueuedHaveARefresh
    /\ ClientTypeOK /\ QueuedHaveARefresh /\ [ClientNext]_clientVars => QueuedHaveARefresh'
<1>1. ClientInit => QueuedHaveARefresh
  BY DEF ClientInit, QueuedHaveARefresh, WaitingAs, isRefreshing, NoAttempt, NoCall, Refresher
<1>2. ClientTypeOK /\ QueuedHaveARefresh /\ [ClientNext]_clientVars => QueuedHaveARefresh'
  <2> SUFFICES ASSUME ClientTypeOK, QueuedHaveARefresh, [ClientNext]_clientVars
               PROVE  QueuedHaveARefresh'
    OBVIOUS
  <2>0. /\ refresh \in [Refresher -> Attempt] /\ page \in [Call -> PageCall]
        /\ "http" \in Refresher /\ "guard" \in Refresher /\ "http" # "guard"
        /\ SocketTry \subseteq Refresher /\ "http" \notin SocketTry /\ "guard" \notin SocketTry
    BY ClientSessionAssumption DEF ClientTypeOK, Refresher
  <2>1. ASSUME UNCHANGED <<refresh, page>> PROVE QueuedHaveARefresh'
    BY <2>1, WaitingStays
  <2>2. ASSUME Reload PROVE QueuedHaveARefresh'
    BY <2>0, <2>2, NobodyWaits DEF Reload, NoAttempt, NoCall
  <2>3. ASSUME SignOutAndReload PROVE QueuedHaveARefresh'
    BY <2>2, <2>3 DEF SignOutAndReload
  \* one refresh goes on, and neither it nor its end concerns those who wait
  <2>4. ASSUME NEW x \in Refresher, page' = page,
               \A y \in Refresher \ {x} : refresh'[y] = refresh[y],
               refresh[x].at \notin {"owner", "queued"}, refresh'[x].at \notin {"owner", "queued"},
               x = "http" => refresh[x].at # "idle" /\ refresh'[x].at # "idle"
        PROVE  QueuedHaveARefresh'
    BY <2>0, <2>4, WaitingStays
  \* one request goes on, and does not wait
  <2>5. ASSUME NEW q \in Call, NEW c, refresh' = refresh, page' = [page EXCEPT ![q] = c],
               page[q].at \notin {"owner", "queued"}, c.at \notin {"owner", "queued"}
        PROVE  QueuedHaveARefresh'
    BY <2>0, <2>5, WaitingStays
  <2>6. CASE \/ Login \/ Logout \/ ServeLogout \/ LeaveStore \/ Expire \/ Revoke \/ ConnectSocket
             \/ SocketAdmitted \/ (\E c \in orphans : ServeOrphan(c)) \/ UNCHANGED clientVars
    BY <2>1, <2>6 DEF Login, Logout, ServeLogout, LeaveStore, Expire, Revoke, ConnectSocket,
                      SocketAdmitted, ServeOrphan, clientVars
  <2>7. CASE ReloadTab \/ HttpRefused \/ ForceLogout
    BY <2>2, <2>3, <2>7 DEF ReloadTab, HttpRefused, ForceLogout
  <2>8. ASSUME NEW x \in Refresher, Serve(x)
        PROVE  QueuedHaveARefresh'
    <3>1. refresh[x].at = "sent" /\ page' = page /\ refresh'[x].at \in {"answered", "refused"}
      BY <2>0, <2>8 DEF Serve, Attempt
    <3>2. \A y \in Refresher \ {x} : refresh'[y] = refresh[y]
      BY <2>0, <2>8 DEF Serve
    <3> QED
      BY <2>4, <3>1, <3>2
  <2>9. ASSUME NEW x \in Refresher, LoseAnswer(x)
        PROVE  QueuedHaveARefresh'
    <3>1. refresh[x].at \in {"sent", "answered"} /\ page' = page /\ refresh'[x].at = "failed"
      BY <2>0, <2>9 DEF LoseAnswer, Attempt
    <3>2. \A y \in Refresher \ {x} : refresh'[y] = refresh[y]
      BY <2>0, <2>9 DEF LoseAnswer
    <3> QED
      BY <2>4, <3>1, <3>2
  <2>10. ASSUME NEW q \in Call, NEW me \in BOOLEAN, SendCall(q, me)
         PROVE  QueuedHaveARefresh'
    BY <2>5, <2>10 DEF SendCall
  <2>11. ASSUME NEW q \in Call, LoseMe(q) \/ ReceiveCall(q)
         PROVE  QueuedHaveARefresh'
    BY <2>5, <2>11 DEF LoseMe, ReceiveCall, NoCall
  <2>12. ASSUME NEW q \in Call, ServeCall(q)
         PROVE  QueuedHaveARefresh'
    <3>1. page[q].at = "sent" /\ refresh' = refresh /\ page'[q].at \in {"ok", "unauthorized"}
      BY <2>0, <2>12 DEF ServeCall, PageCall
    <3>2. \A p \in Call \ {q} : page'[p] = page[p]
      BY <2>0, <2>12 DEF ServeCall
    <3> QED
      BY <3>1, <3>2, WaitingStays
  <2>13. ASSUME NEW q \in Call, Unauthorized(q)
         PROVE  QueuedHaveARefresh'
    <3>1. ASSUME ~ isRefreshing, page' = [page EXCEPT ![q].at = "owner"], Post("http", FALSE)
          PROVE  QueuedHaveARefresh'
      <4>1. refresh'["http"].at = "sent" /\ refresh'["guard"] = refresh["guard"]
        BY <2>0, <3>1 DEF Post, Sent
      <4>2. page'[q].at = "owner" /\ \A p \in Call \ {q} : page'[p] = page[p]
        BY <2>0, <3>1 DEF PageCall
      <4>3. WaitingAs("owner")' = WaitingAs("owner") \cup {q}
        BY <4>1, <4>2 DEF WaitingAs
      <4> QED
        BY <3>1, <4>1, <4>3, OneBegins
    <3>2. ASSUME page[q].at = "unauthorized", isRefreshing, refresh' = refresh,
                 page' = [page EXCEPT ![q].at = "queued"]
          PROVE  QueuedHaveARefresh'
      <4>1. page'[q].at = "queued" /\ \A p \in Call \ {q} : page'[p] = page[p]
        BY <2>0, <3>2 DEF PageCall
      <4>2. WaitingAs("owner")' = WaitingAs("owner")
        BY <3>2, <4>1 DEF WaitingAs
      <4> QED
        BY <3>2, <4>2, OthersQueue
    <3> QED
      BY <2>3, <2>13, <3>1, <3>2 DEF Unauthorized
  <2>14. CASE HttpRefreshed
    <3>1. \A q \in Call : page'[q].at \notin {"owner", "queued"}
      BY <2>14 DEF HttpRefreshed, Resent
    <3>2. refresh'["http"].at = "idle"
      BY <2>0, <2>14 DEF HttpRefreshed, NoAttempt
    <3>3. refresh'["guard"].at \notin {"owner", "queued"}
      BY <2>0, <2>14 DEF HttpRefreshed, Sent
    <3> QED
      BY <3>1, <3>2, <3>3, NobodyWaits
  <2>15. ASSUME NEW x \in SocketTry, SocketAuthRequired(x) \/ SocketConnectError(x)
         PROVE  QueuedHaveARefresh'
    <3>1. /\ refresh[x].at = "idle" /\ refresh'[x].at = "sent" /\ page' = page
          /\ \A y \in Refresher \ {x} : refresh'[y] = refresh[y]
      BY <2>0, <2>15 DEF SocketAuthRequired, SocketConnectError, Post, Sent
    <3> QED
      BY <2>0, <2>4, <3>1
  <2>16. ASSUME NEW x \in SocketTry, SocketRefreshed(x) \/ SocketRefused(x)
         PROVE  QueuedHaveARefresh'
    <3>1. ASSUME refresh[x].at \in {"answered", "refused", "failed"},
                 refresh' = [refresh EXCEPT ![x] = NoAttempt], page' = page
          PROVE  QueuedHaveARefresh'
      <4>1. refresh'[x].at = "idle" /\ \A y \in Refresher \ {x} : refresh'[y] = refresh[y]
        BY <2>0, <3>1 DEF NoAttempt
      <4> QED
        BY <2>0, <2>4, <3>1, <4>1
    <3> QED
      BY <2>3, <2>16, <3>1 DEF SocketRefreshed, SocketRefused
  <2>17. CASE GuardRefresh
    <3>1. /\ refresh["guard"].at = "idle" /\ refresh'["guard"].at = "sent" /\ page' = page
          /\ \A y \in Refresher \ {"guard"} : refresh'[y] = refresh[y]
      BY <2>0, <2>17 DEF GuardRefresh, Post, Sent
    <3> QED
      BY <2>0, <2>4, <3>1
  <2>18. CASE GuardRefreshed \/ GuardFailed
    <3>1. /\ refresh["guard"].at \in {"answered", "failed"} /\ refresh'["guard"].at = "idle" /\ page' = page
          /\ \A y \in Refresher \ {"guard"} : refresh'[y] = refresh[y]
      BY <2>0, <2>18 DEF GuardRefreshed, GuardFailed, NoAttempt
    <3> QED
      BY <2>0, <2>4, <3>1
  <2>19. CASE GuardUnauthorized
    <3>1. ASSUME ~ isRefreshing, page' = page,
                 refresh' = [refresh EXCEPT !["guard"].at = "owner", !["http"] = Sent(jar, 0, FALSE)]
          PROVE  QueuedHaveARefresh'
      <4>1. refresh'["http"] = Sent(jar, 0, FALSE)
        BY <2>0, <3>1
      <4>2. refresh'["http"].at = "sent"
        BY <4>1 DEF Sent
      <4>3. refresh'["guard"].at = "owner"
        BY <2>0, <3>1 DEF Attempt
      <4>4. WaitingAs("owner")' = WaitingAs("owner") \cup {"guard"}
        BY <3>1, <4>3 DEF WaitingAs
      <4> QED
        BY <3>1, <4>2, <4>4, OneBegins
    <3>2. ASSUME refresh["guard"].at = "refused", isRefreshing, page' = page,
                 refresh' = [refresh EXCEPT !["guard"].at = "queued"]
          PROVE  QueuedHaveARefresh'
      <4>1. refresh'["guard"].at = "queued" /\ refresh'["http"] = refresh["http"]
        BY <2>0, <3>2 DEF Attempt
      <4>2. WaitingAs("owner")' = WaitingAs("owner")
        BY <3>2, <4>1 DEF WaitingAs
      <4> QED
        BY <3>2, <4>1, <4>2, OthersQueue
    <3> QED
      BY <2>3, <2>19, <3>1, <3>2 DEF GuardUnauthorized
  <2> QED
    BY <2>6, <2>7, <2>8, <2>9, <2>10, <2>11, <2>12, <2>13, <2>14, <2>15, <2>16, <2>17, <2>18, <2>19
       DEF ClientNext
<1> QED
  BY <1>1, <1>2

LEMMA QueuedStayWithARefresh == ClientSteps => []QueuedHaveARefresh
BY ClientTypeInductive, QueuedInductive, PTL DEF ClientSteps

\* A refresh of the HTTP layer has one owner, and whoever waits in failedQueue waits
\* for a refresh that is under way.
THEOREM NobodyIsLeftInTheQueue == ClientSpec => []QueuedHaveARefresh
BY QueuedStayWithARefresh, PTL DEF ClientSpec, ClientSteps
=============================================================================
