------------------------- MODULE AuthSessionsProofs -------------------------
(* Proofs about AuthSessions, for every value of its constants. *)
EXTENDS AuthSessionsInv, TLAPS

-----------------------------------------------------------------------------
(* Type correctness.  A handler writes its locals into Redis, so the types  *)
(* hold only because each label knows which of its locals are set.          *)

\* Every variable starts typed, and no request is running.
LEMMA TypeInit == Init => TypeInv
  BY DEF Init, TypeInv, TypeOK, LocalsSet, Fits, Blank, Locals, Label, HasUser, HasFam, HasOld, HasNew,
         RevokeAllLabel

\* A request moves to a label that fits its locals: pc and loc stay typed.
LocalsTyped == pc \in [Request -> Label] /\ loc \in [Request -> Locals] /\ LocalsSet

\* A request that moves to a label fitting its new locals keeps them all typed.
LEMMA MoveTyped ==
  ASSUME LocalsTyped, NEW r \in Request, NEW next \in Label, NEW l \in Locals, Fits(next, l),
         pc' = [pc EXCEPT ![r] = next], loc' = [loc EXCEPT ![r] = l]
  PROVE  LocalsTyped'
  BY DEF LocalsTyped, LocalsSet

\* An answer clears the locals, which fits the idle label.
LEMMA AnswerTyped ==
  ASSUME LocalsTyped, NEW r \in Request, NEW at, Answer(r, at)
  PROVE  LocalsTyped'
  <1>1. Blank \in Locals /\ "idle" \in Label
    BY DEF Blank, Locals, Label
  <1>2. Fits("idle", Blank)
    BY DEF Fits, HasUser, HasFam, HasOld, HasNew, RevokeAllLabel
  <1> QED BY <1>1, <1>2, MoveTyped DEF Answer, Goto

\* What a label says of the locals
LEMMA LocalsAt ==
  ASSUME TypeInv, NEW r \in Request
  PROVE  /\ LocalsTyped /\ loc[r] \in Locals
         /\ pc[r] \in HasUser => loc[r].user \in User
         /\ pc[r] \in HasFam => loc[r].fam \in Family
         /\ pc[r] \in HasOld => loc[r].old \in Token
  BY DEF TypeInv, TypeOK, LocalsTyped, LocalsSet, Fits

\* createTokenPair has both identifiers when it goes on to rt_family (411-425).
LEMMA LoginStoreTokenLocals ==
  ASSUME TypeInv, NEW r \in Request, LoginStoreToken(r)
  PROVE  LocalsTyped'
  <1>1. PICK t \in Token, f \in Family : loc' = [loc EXCEPT ![r] = [@ EXCEPT !.fam = f, !.new = t]]
    BY DEF LoginStoreToken
  <1>2. pc[r] = "loginToken" /\ pc' = [pc EXCEPT ![r] = "loginFamily"]
    BY DEF LoginStoreToken, Goto
  <1>3. loc[r].user \in User /\ loc[r] \in Locals /\ LocalsTyped
    BY <1>2, LocalsAt DEF HasUser
  <1> DEFINE l == [loc[r] EXCEPT !.fam = f, !.new = t]
  <1>4. l \in Locals /\ l.user = loc[r].user /\ l.fam = f /\ l.new = t
    BY <1>3 DEF Locals
  <1>5. Fits("loginFamily", l)
    BY <1>3, <1>4 DEF Fits, HasOld
  <1>6. "loginFamily" \in Label /\ loc' = [loc EXCEPT ![r] = l]
    BY <1>1 DEF Label
  <1> HIDE DEF l
  <1> QED BY <1>2, <1>3, <1>4, <1>5, <1>6, MoveTyped

\* What a refresh reads under rt:<token> is an account and a session (140-150).
LEMMA RefreshLookupLocals ==
  ASSUME TypeInv, NEW r \in Request, NEW t \in Token, RefreshLookup(r, t)
  PROVE  LocalsTyped'
  <1>1. LocalsTyped /\ rt \in [Token -> RefreshData \cup {Nil}]
    BY LocalsAt DEF TypeInv, TypeOK
  <1>2. CASE rt[t] = Nil
    <2> DEFINE l == [Blank EXCEPT !.old = t]
    <2>1. l \in Locals /\ l.old = t
      BY DEF Locals, Blank
    <2>2. Fits("reuseMark", l)
      BY <2>1 DEF Fits, HasUser, HasFam, HasNew, RevokeAllLabel
    <2>3. "reuseMark" \in Label /\ pc' = [pc EXCEPT ![r] = "reuseMark"] /\ loc' = [loc EXCEPT ![r] = l]
      BY <1>2 DEF Label, RefreshLookup, Enter, Goto
    <2> HIDE DEF l
    <2> QED BY <1>1, <2>1, <2>2, <2>3, MoveTyped
  <1>3. CASE rt[t] # Nil
    <2> DEFINE l == [Blank EXCEPT !.user = rt[t].user, !.fam = rt[t].fam, !.old = t]
    <2>1. rt[t] \in RefreshData
      BY <1>1, <1>3
    <2>2. l \in Locals /\ l.user \in User /\ l.fam \in Family /\ l.old = t
      BY <2>1 DEF Locals, Blank, RefreshData
    <2>3. Fits("refreshUser", l)
      BY <2>2 DEF Fits, HasNew
    <2>4. "refreshUser" \in Label /\ pc' = [pc EXCEPT ![r] = "refreshUser"] /\ loc' = [loc EXCEPT ![r] = l]
      BY <1>3 DEF Label, RefreshLookup, Enter, Goto
    <2> HIDE DEF l
    <2> QED BY <1>1, <2>2, <2>3, <2>4, MoveTyped
  <1> QED BY <1>2, <1>3

\* rotateToken keeps the token version of the row it read (449-458).
LEMMA RotateReadUserLocals ==
  ASSUME TypeInv, NEW r \in Request, RotateReadUser(r)
  PROVE  LocalsTyped'
  <1>1. LocalsTyped /\ loc[r] \in Locals
    BY LocalsAt
  <1>2. CASE Answer(r, "refreshUser")
    BY <1>1, <1>2, AnswerTyped
  <1>3. CASE ~Answer(r, "refreshUser")
    <2> DEFINE l == [loc[r] EXCEPT !.ver = tokenVersion[loc[r].user]]
    <2>1. /\ pc[r] = "refreshUser" /\ pc' = [pc EXCEPT ![r] = "refreshDel"] /\ loc' = [loc EXCEPT ![r] = l]
          /\ TRUE
      BY <1>3 DEF RotateReadUser, Goto
    <2>2. loc[r].user \in User /\ loc[r].fam \in Family /\ loc[r].old \in Token
      BY <2>1, LocalsAt DEF HasUser, HasFam, HasOld, RevokeAllLabel
    <2>3. tokenVersion[loc[r].user] \in Nat
      BY <2>1, <2>2 DEF TypeInv, TypeOK
    <2>4. l \in Locals /\ l.user = loc[r].user /\ l.fam = loc[r].fam /\ l.old = loc[r].old
      BY <1>1, <2>2, <2>3 DEF Locals
    <2>5. "refreshDel" \in Label /\ Fits("refreshDel", l)
      BY <2>2, <2>3, <2>4 DEF Label, Fits, HasUser, HasFam, HasOld, HasNew, RevokeAllLabel
    <2> HIDE DEF l
    <2> QED BY <1>1, <2>1, <2>4, <2>5, MoveTyped
  <1> QED BY <1>2, <1>3

\* What a reuse reads under rt_consumed is a session (152-165).
LEMMA ReuseReadMarkLocals ==
  ASSUME TypeInv, NEW r \in Request, ReuseReadMark(r)
  PROVE  LocalsTyped'
  <1>1. LocalsTyped /\ loc[r] \in Locals
    BY LocalsAt
  <1>2. CASE Answer(r, "reuseMark")
    BY <1>1, <1>2, AnswerTyped
  <1>3. CASE ~Answer(r, "reuseMark")
    <2> DEFINE l == [loc[r] EXCEPT !.fam = consumed[loc[r].old]]
    <2>1. /\ pc[r] = "reuseMark" /\ pc' = [pc EXCEPT ![r] = "reuseFamily"] /\ loc' = [loc EXCEPT ![r] = l]
          /\ consumed[loc[r].old] # Nil
      BY <1>3 DEF ReuseReadMark, Goto
    <2>2. loc[r].old \in Token
      BY <2>1, LocalsAt DEF HasUser, HasFam, HasOld, RevokeAllLabel
    <2>3. consumed[loc[r].old] \in Family
      BY <2>1, <2>2 DEF TypeInv, TypeOK
    <2>4. l \in Locals /\ l.fam = consumed[loc[r].old] /\ l.old = loc[r].old
      BY <1>1, <2>2, <2>3 DEF Locals
    <2>5. "reuseFamily" \in Label /\ Fits("reuseFamily", l)
      BY <2>2, <2>3, <2>4 DEF Label, Fits, HasUser, HasFam, HasOld, HasNew, RevokeAllLabel
    <2> HIDE DEF l
    <2> QED BY <1>1, <2>1, <2>4, <2>5, MoveTyped
  <1> QED BY <1>2, <1>3

\* handleReuse takes the account and the latest token from the family (500-505).
LEMMA ReuseReadFamilyLocals ==
  ASSUME TypeInv, NEW r \in Request, ReuseReadFamily(r)
  PROVE  LocalsTyped'
  <1>1. LocalsTyped /\ loc[r] \in Locals
    BY LocalsAt
  <1>2. CASE Answer(r, "reuseFamily")
    BY <1>1, <1>2, AnswerTyped
  <1>3. CASE ~Answer(r, "reuseFamily")
    <2> DEFINE l == [loc[r] EXCEPT !.user = family[loc[r].fam].user, !.old = family[loc[r].fam].latest]
    <2>1. /\ pc[r] = "reuseFamily" /\ pc' = [pc EXCEPT ![r] = "reuseDel"] /\ loc' = [loc EXCEPT ![r] = l]
          /\ family[loc[r].fam] # Nil
      BY <1>3 DEF ReuseReadFamily, Goto
    <2>2. loc[r].fam \in Family
      BY <2>1, LocalsAt DEF HasUser, HasFam, HasOld, RevokeAllLabel
    <2>3. family[loc[r].fam].user \in User /\ family[loc[r].fam].latest \in Token
      BY <2>1, <2>2 DEF TypeInv, TypeOK, FamilyData
    <2>4. l \in Locals /\ l.user = family[loc[r].fam].user /\ l.fam = loc[r].fam
          /\ l.old = family[loc[r].fam].latest
      BY <1>1, <2>2, <2>3 DEF Locals
    <2>5. "reuseDel" \in Label /\ Fits("reuseDel", l)
      BY <2>2, <2>3, <2>4 DEF Label, Fits, HasUser, HasFam, HasOld, HasNew, RevokeAllLabel
    <2> HIDE DEF l
    <2> QED BY <1>1, <2>1, <2>4, <2>5, MoveTyped
  <1> QED BY <1>2, <1>3

\* revokeSession takes the latest token from the family (351-358).
LEMMA RevokeLookupLocals ==
  ASSUME TypeInv, NEW r \in Request, RevokeLookup(r)
  PROVE  LocalsTyped'
  <1>1. LocalsTyped /\ loc[r] \in Locals
    BY LocalsAt
  <1>2. CASE Answer(r, "revokeGet")
    BY <1>1, <1>2, AnswerTyped
  <1>3. CASE ~Answer(r, "revokeGet")
    <2> DEFINE l == [loc[r] EXCEPT !.old = family[loc[r].fam].latest]
    <2>1. /\ pc[r] = "revokeGet" /\ pc' = [pc EXCEPT ![r] = "revokeDel"] /\ loc' = [loc EXCEPT ![r] = l]
          /\ family[loc[r].fam] # Nil
      BY <1>3 DEF RevokeLookup, Goto
    <2>2. loc[r].user \in User /\ loc[r].fam \in Family
      BY <2>1, LocalsAt DEF HasUser, HasFam, HasOld, RevokeAllLabel
    <2>3. family[loc[r].fam].latest \in Token
      BY <2>1, <2>2 DEF TypeInv, TypeOK, FamilyData
    <2>4. l \in Locals /\ l.user = loc[r].user /\ l.fam = loc[r].fam /\ l.old = family[loc[r].fam].latest
      BY <1>1, <2>2, <2>3 DEF Locals
    <2>5. "revokeDel" \in Label /\ Fits("revokeDel", l)
      BY <2>2, <2>3, <2>4 DEF Label, Fits, HasUser, HasFam, HasOld, HasNew, RevokeAllLabel
    <2> HIDE DEF l
    <2> QED BY <1>1, <2>1, <2>4, <2>5, MoveTyped
  <1> QED BY <1>2, <1>3

\* rotateToken has a new token when it goes on to rt_family (461-480).
LEMMA RotateStoreTokenLocals ==
  ASSUME TypeInv, NEW r \in Request, RotateStoreToken(r)
  PROVE  LocalsTyped'
  <1>1. PICK t \in Token : loc' = [loc EXCEPT ![r] = [@ EXCEPT !.new = t]]
    BY DEF RotateStoreToken
  <1>2. pc[r] = "refreshStore" /\ pc' = [pc EXCEPT ![r] = "refreshFamily"]
    BY DEF RotateStoreToken, Goto
  <1>3. /\ loc[r].user \in User /\ loc[r].fam \in Family /\ loc[r].old \in Token
        /\ loc[r] \in Locals /\ LocalsTyped
    BY <1>2, LocalsAt DEF HasUser, HasFam, HasOld
  <1> DEFINE l == [loc[r] EXCEPT !.new = t]
  <1>4. l \in Locals /\ l.user = loc[r].user /\ l.fam = loc[r].fam /\ l.old = loc[r].old /\ l.new = t
    BY <1>3 DEF Locals
  <1>5. Fits("refreshFamily", l)
    BY <1>3, <1>4 DEF Fits
  <1>6. "refreshFamily" \in Label /\ loc' = [loc EXCEPT ![r] = l]
    BY <1>1 DEF Label
  <1> HIDE DEF l
  <1> QED BY <1>2, <1>3, <1>4, <1>5, <1>6, MoveTyped

\* revokeAllSessions starts its loop over sessions (370-378).
LEMMA RevokeAllSnapshotLocals ==
  ASSUME TypeInv, NEW r \in Request, RevokeAllSnapshot(r)
  PROVE  LocalsTyped'
  <1> DEFINE l == [loc[r] EXCEPT !.ids = sessions[loc[r].user], !.todo = sessions[loc[r].user]]
  <1>1. pc[r] = "allSnapshot" /\ pc' = [pc EXCEPT ![r] = "allPick"] /\ loc' = [loc EXCEPT ![r] = l]
    BY DEF RevokeAllSnapshot, Goto
  <1>2. loc[r].user \in User /\ loc[r] \in Locals /\ LocalsTyped
    BY <1>1, LocalsAt DEF HasUser
  <1>3. sessions[loc[r].user] \in SUBSET Family
    BY <1>2 DEF TypeInv, TypeOK
  <1>4. l \in Locals /\ l.user = loc[r].user
    BY <1>2, <1>3 DEF Locals
  <1>5. "allPick" \in Label /\ Fits("allPick", l)
    BY <1>2, <1>4 DEF Label, Fits, HasFam, HasOld, HasNew, RevokeAllLabel
  <1> HIDE DEF l
  <1> QED BY <1>1, <1>2, <1>4, <1>5, MoveTyped

\* getSessions starts its loop over sessions (300-306).
LEMMA ListSnapshotLocals ==
  ASSUME TypeInv, NEW r \in Request, ListSnapshot(r)
  PROVE  LocalsTyped'
  <1> DEFINE l == [loc[r] EXCEPT !.todo = sessions[loc[r].user]]
  <1>1. pc[r] = "listSnapshot" /\ pc' = [pc EXCEPT ![r] = "listPick"] /\ loc' = [loc EXCEPT ![r] = l]
    BY DEF ListSnapshot, Goto
  <1>2. loc[r].user \in User /\ loc[r] \in Locals /\ LocalsTyped
    BY <1>1, LocalsAt DEF HasUser
  <1>3. sessions[loc[r].user] \in SUBSET Family
    BY <1>2 DEF TypeInv, TypeOK
  <1>4. l \in Locals /\ l.user = loc[r].user
    BY <1>2, <1>3 DEF Locals
  <1>5. "listPick" \in Label /\ Fits("listPick", l)
    BY <1>2, <1>4 DEF Label, Fits, HasFam, HasOld, HasNew, RevokeAllLabel
  <1> HIDE DEF l
  <1> QED BY <1>1, <1>2, <1>4, <1>5, MoveTyped

\* Each turn of the revokeAllSessions loop is about one session (379-400).
LEMMA RevokeAllPickLocals ==
  ASSUME TypeInv, NEW r \in Request, RevokeAllPick(r)
  PROVE  LocalsTyped'
  <1>1. PICK f \in loc[r].todo \ {loc[r].keep} :
          IF family[f] # Nil /\ family[f].user = loc[r].user
          THEN /\ Goto(r, "allPick", "allDel")
               /\ loc' = [loc EXCEPT ![r] =
                              [@ EXCEPT !.todo = loc[r].todo \ {f}, !.fam = f, !.old = family[f].latest]]
          ELSE /\ Goto(r, "allPick", "allStale")
               /\ loc' = [loc EXCEPT ![r] = [@ EXCEPT !.todo = loc[r].todo \ {f}, !.fam = f]]
    BY DEF RevokeAllPick
  <1>2. pc[r] = "allPick"
    BY <1>1 DEF Goto
  <1>3. LocalsTyped /\ loc[r] \in Locals /\ loc[r].user \in User
    BY <1>2, LocalsAt DEF HasUser, RevokeAllLabel
  <1>4. f \in Family /\ loc[r].todo \ {f} \in SUBSET Family
    BY <1>3 DEF Locals
  <1>5. CASE family[f] # Nil /\ family[f].user = loc[r].user
    <2> DEFINE l == [loc[r] EXCEPT !.todo = loc[r].todo \ {f}, !.fam = f, !.old = family[f].latest]
    <2>1. family[f].latest \in Token
      BY <1>4, <1>5 DEF TypeInv, TypeOK, FamilyData
    <2>2. l \in Locals /\ l.user = loc[r].user /\ l.fam = f /\ l.old = family[f].latest
      BY <1>3, <1>4, <2>1 DEF Locals
    <2>3. "allDel" \in Label /\ Fits("allDel", l)
      BY <1>3, <1>4, <2>1, <2>2 DEF Label, RevokeAllLabel, Fits, HasNew
    <2>4. pc' = [pc EXCEPT ![r] = "allDel"] /\ loc' = [loc EXCEPT ![r] = l]
      BY <1>1, <1>5 DEF Goto
    <2> HIDE DEF l
    <2> QED BY <1>3, <2>2, <2>3, <2>4, MoveTyped
  <1>6. CASE ~(family[f] # Nil /\ family[f].user = loc[r].user)
    <2> DEFINE l == [loc[r] EXCEPT !.todo = loc[r].todo \ {f}, !.fam = f]
    <2>1. l \in Locals /\ l.user = loc[r].user /\ l.fam = f
      BY <1>3, <1>4 DEF Locals
    <2>2. "allStale" \in Label /\ Fits("allStale", l)
      BY <1>3, <1>4, <2>1 DEF Label, RevokeAllLabel, Fits, HasOld, HasNew
    <2>3. pc' = [pc EXCEPT ![r] = "allStale"] /\ loc' = [loc EXCEPT ![r] = l]
      BY <1>1, <1>6 DEF Goto
    <2> HIDE DEF l
    <2> QED BY <1>3, <2>1, <2>2, <2>3, MoveTyped
  <1> QED BY <1>5, <1>6

\* Each turn of the getSessions loop is about one session (307-330).
LEMMA ListPickLocals ==
  ASSUME TypeInv, NEW r \in Request, ListPick(r)
  PROVE  LocalsTyped'
  <1>1. PICK f \in loc[r].todo, next \in {"listPick", "listStale"} :
          /\ Goto(r, "listPick", next)
          /\ loc' = [loc EXCEPT ![r] = [@ EXCEPT !.todo = loc[r].todo \ {f}, !.fam = f]]
    BY DEF ListPick
  <1>2. LocalsTyped /\ loc[r] \in Locals /\ loc[r].user \in User
    BY <1>1, LocalsAt DEF Goto, HasUser
  <1>3. f \in Family /\ loc[r].todo \ {f} \in SUBSET Family
    BY <1>2 DEF Locals
  <1> DEFINE l == [loc[r] EXCEPT !.todo = loc[r].todo \ {f}, !.fam = f]
  <1>4. l \in Locals /\ l.user = loc[r].user /\ l.fam = f
    BY <1>2, <1>3 DEF Locals
  <1>5. next \in Label /\ Fits(next, l)
    BY <1>2, <1>3, <1>4 DEF Label, Fits, HasOld, HasNew
  <1>6. pc' = [pc EXCEPT ![r] = next] /\ loc' = [loc EXCEPT ![r] = l]
    BY <1>1 DEF Goto
  <1> HIDE DEF l
  <1> QED BY <1>2, <1>4, <1>5, <1>6, MoveTyped

\* A command that only reads moves the request and nothing else.
LEMMA ReadTyped ==
  ASSUME TypeInv, LocalsTyped', UNCHANGED <<account, tokens, sessions, pr, wire, history>>
  PROVE  TypeInv'
  BY DEF LocalsTyped, TypeInv, TypeOK, account, tokens, wire, history

\* The look-up of a refresh writes nothing (140-156).
LEMMA RefreshLookupTyped ==
  ASSUME TypeInv, NEW r \in Request, NEW t \in Token, RefreshLookup(r, t)
  PROVE  TypeInv'
  BY RefreshLookupLocals, ReadTyped DEF RefreshLookup

\* What a logout reads under rt:<token> is an account and a session (171-178).
LEMMA LogoutLookupTyped ==
  ASSUME TypeInv, NEW r \in Request, NEW t \in Token, LogoutLookup(r, t)
  PROVE  TypeInv'
  <1> DEFINE l == [Blank EXCEPT !.user = rt[t].user, !.fam = rt[t].fam, !.old = t]
  <1>1. LocalsTyped /\ rt[t] \in RefreshData
    BY LocalsAt DEF TypeInv, TypeOK, LogoutLookup
  <1>2. l \in Locals /\ l.user \in User /\ l.fam \in Family /\ l.old = t
    BY <1>1 DEF Locals, Blank, RefreshData
  <1>3. "logoutDel" \in Label /\ Fits("logoutDel", l)
    BY <1>2 DEF Label, Fits, HasNew
  <1>4. pc' = [pc EXCEPT ![r] = "logoutDel"] /\ loc' = [loc EXCEPT ![r] = l]
    BY DEF LogoutLookup, Enter, Goto
  <1>5. UNCHANGED <<account, tokens, sessions, pr, wire, history>>
    BY DEF LogoutLookup
  <1> HIDE DEF l
  <1> QED BY <1>1, <1>2, <1>3, <1>4, <1>5, MoveTyped, ReadTyped

\* A handler that starts with fitting locals, and has only read so far
LEMMA EnterTyped ==
  ASSUME TypeInv, NEW r \in Request, NEW handler, NEW next \in Label, NEW l \in Locals, Fits(next, l),
         Enter(r, handler, next, l), UNCHANGED <<account, tokens, sessions, pr, wire, history>>
  PROVE  TypeInv'
  <1>1. LocalsTyped
    BY DEF TypeInv, TypeOK, LocalsTyped
  <1> QED BY <1>1, MoveTyped, ReadTyped DEF Enter, Goto

\* A login starts with the account and its password (97-120).
LEMMA LoginCheckTyped ==
  ASSUME TypeInv, NEW r \in Request, NEW u \in User, LoginCheck(r, u)
  PROVE  TypeInv'
  <1> DEFINE l == [Blank EXCEPT !.user = u, !.pw = password[u]]
  <1>1. password[u] \in Nat
    BY DEF TypeInv, TypeOK
  <1>2. l \in Locals /\ l.user = u
    BY <1>1 DEF Locals, Blank
  <1>3. "loginToken" \in Label /\ Fits("loginToken", l)
    BY <1>2 DEF Label, Fits, HasFam, HasOld, HasNew, RevokeAllLabel
  <1>4. Enter(r, "login", "loginToken", l) /\ UNCHANGED <<account, tokens, sessions, pr, wire, history>>
    BY DEF LoginCheck
  <1> HIDE DEF l
  <1> QED BY <1>2, <1>3, <1>4, EnterTyped

\* A reset starts with the account of its key (653-663).
LEMMA ResetLookupTyped ==
  ASSUME TypeInv, NEW r \in Request, NEW k \in ResetKey, ResetLookup(r, k)
  PROVE  TypeInv'
  <1> DEFINE l == [Blank EXCEPT !.user = pr[k], !.key = k]
  <1>1. pr[k] \in User
    BY DEF TypeInv, TypeOK, ResetLookup
  <1>2. l \in Locals /\ l.user = pr[k]
    BY <1>1 DEF Locals, Blank
  <1>3. "resetConsume" \in Label /\ Fits("resetConsume", l)
    BY <1>1, <1>2 DEF Label, Fits, HasFam, HasOld, HasNew, RevokeAllLabel
  <1>4. Enter(r, "reset", "resetConsume", l) /\ UNCHANGED <<account, tokens, sessions, pr, wire, history>>
    BY DEF ResetLookup
  <1> HIDE DEF l
  <1> QED BY <1>2, <1>3, <1>4, EnterTyped

\* A revocation starts with the caller's account and the session it names (351).
LEMMA RevokeEnterTyped ==
  ASSUME TypeInv, NEW r \in Request, NEW a \in access, NEW f \in Family, RevokeEnter(r, a, f)
  PROVE  TypeInv'
  <1> DEFINE l == [Blank EXCEPT !.user = a.user, !.fam = f]
  <1>1. a.user \in User
    BY DEF TypeInv, TypeOK, AccessJwt
  <1>2. l \in Locals /\ l.user = a.user /\ l.fam = f
    BY <1>1 DEF Locals, Blank
  <1>3. "revokeGet" \in Label /\ Fits("revokeGet", l)
    BY <1>1, <1>2 DEF Label, Fits, HasOld, HasNew
  <1>4. Enter(r, "revoke", "revokeGet", l) /\ UNCHANGED <<account, tokens, sessions, pr, wire, history>>
    BY DEF RevokeEnter, EnterGuarded
  <1> HIDE DEF l
  <1> QED BY <1>2, <1>3, <1>4, EnterTyped

\* A password change starts with the caller's account and session (552).
LEMMA PasswordEnterTyped ==
  ASSUME TypeInv, NEW r \in Request, NEW a \in access, PasswordEnter(r, a)
  PROVE  TypeInv'
  <1> DEFINE l == [Blank EXCEPT !.user = a.user, !.keep = a.fam]
  <1>1. a.user \in User /\ a.fam \in Family
    BY DEF TypeInv, TypeOK, AccessJwt
  <1>2. l \in Locals /\ l.user = a.user
    BY <1>1 DEF Locals, Blank
  <1>3. "passwordWrite" \in Label /\ Fits("passwordWrite", l)
    BY <1>1, <1>2 DEF Label, Fits, HasFam, HasOld, HasNew, RevokeAllLabel
  <1>4. Enter(r, "password", "passwordWrite", l) /\ UNCHANGED <<account, tokens, sessions, pr, wire, history>>
    BY DEF PasswordEnter, EnterGuarded
  <1> HIDE DEF l
  <1> QED BY <1>2, <1>3, <1>4, EnterTyped

\* Every step keeps every variable typed and every local its label needs set.
LEMMA TypeStep == TypeInv /\ [Next]_vars => TypeInv'
  <1> SUFFICES ASSUME TypeInv, [Next]_vars PROVE TypeInv'
    OBVIOUS
  <1> USE DEF TypeInv, TypeOK, LocalsSet, Fits, Label, HasUser, HasFam, HasOld, HasNew, RevokeAllLabel,
              Goto, Answer, Enter, account, tokens, wire, history
  <1>1. ASSUME NEW r \in Request, NEW u \in User, LoginCheck(r, u)
        PROVE TypeInv'
    BY <1>1, LoginCheckTyped
  <1>2. ASSUME NEW r \in Request, LoginStoreToken(r)
        PROVE TypeInv'
    <2>1. loc[r].user \in User /\ loc[r].pw \in Nat
      BY <1>2 DEF LoginStoreToken, Locals
    <2>2. rt' \in [Token -> RefreshData \cup {Nil}] /\ authPw' \in [Family -> Nat]
          /\ lineage' \in [Token -> Family \cup {Nil}] /\ owner' \in [Family -> User \cup {Nil}]
      BY <1>2, <2>1 DEF LoginStoreToken, RefreshData
    <2> QED BY <1>2, <2>2, LoginStoreTokenLocals DEF LoginStoreToken, LocalsTyped
  <1>3. ASSUME NEW r \in Request, LoginStoreFamily(r)
        PROVE TypeInv'
    BY <1>3 DEF LoginStoreFamily, FamilyData
  <1>4. ASSUME NEW r \in Request, LoginIndex(r)
        PROVE TypeInv'
    BY <1>4 DEF LoginIndex
  <1>5. ASSUME NEW r \in Request, LoginSign(r)
        PROVE TypeInv'
    BY <1>5 DEF LoginSign, Deliver, AccessJwt, Locals, Blank
  <1>6. ASSUME NEW r \in Request, NEW t \in Token, RefreshLookup(r, t)
        PROVE TypeInv'
    BY <1>6, RefreshLookupTyped
  <1>7. ASSUME NEW r \in Request, RotateReadUser(r)
        PROVE TypeInv'
    BY <1>7, RotateReadUserLocals DEF RotateReadUser, LocalsTyped
  <1>8. ASSUME NEW r \in Request, RotateDelete(r)
        PROVE TypeInv'
    BY <1>8 DEF RotateDelete
  <1>9. ASSUME NEW r \in Request, RotateMarkConsumed(r)
        PROVE TypeInv'
    BY <1>9 DEF RotateMarkConsumed
  <1>10. ASSUME NEW r \in Request, RotateStoreToken(r)
        PROVE TypeInv'
    <2>1. loc[r].user \in User /\ loc[r].fam \in Family
      BY <1>10 DEF RotateStoreToken
    <2>2. rt' \in [Token -> RefreshData \cup {Nil}] /\ lineage' \in [Token -> Family \cup {Nil}]
      BY <1>10, <2>1 DEF RotateStoreToken, RefreshData
    <2> QED BY <1>10, <2>2, RotateStoreTokenLocals DEF RotateStoreToken, LocalsTyped
  <1>11. ASSUME NEW r \in Request, RotateStoreFamily(r)
        PROVE TypeInv'
    BY <1>11 DEF RotateStoreFamily, FamilyData, Deliver, AccessJwt, Locals, Blank
  <1>12. ASSUME NEW r \in Request, ReuseReadMark(r)
        PROVE TypeInv'
    BY <1>12, ReuseReadMarkLocals DEF ReuseReadMark, LocalsTyped
  <1>13. ASSUME NEW r \in Request, ReuseReadFamily(r)
        PROVE TypeInv'
    BY <1>13, ReuseReadFamilyLocals DEF ReuseReadFamily, LocalsTyped
  <1>14. ASSUME NEW r \in Request, ReuseDelete(r)
        PROVE TypeInv'
    BY <1>14 DEF ReuseDelete, DeleteFamily
  <1>15. ASSUME NEW r \in Request, ReuseBump(r)
        PROVE TypeInv'
    BY <1>15 DEF ReuseBump, IncrementTokenVersion
  <1>16. ASSUME NEW r \in Request, ReuseUnindex(r)
        PROVE TypeInv'
    BY <1>16 DEF ReuseUnindex, Unindex
  <1>17. ASSUME NEW r \in Request, ReusePublish(r)
        PROVE TypeInv'
    BY <1>17 DEF ReusePublish, PublishSessionRevoked, Locals, Blank
  <1>18. ASSUME NEW r \in Request, NEW t \in Token, LogoutLookup(r, t)
        PROVE TypeInv'
    BY <1>18, LogoutLookupTyped
  <1>19. ASSUME NEW r \in Request, LogoutDelete(r)
        PROVE TypeInv'
    BY <1>19 DEF LogoutDelete, DeleteFamily
  <1>20. ASSUME NEW r \in Request, LogoutUnindex(r)
        PROVE TypeInv'
    BY <1>20 DEF LogoutUnindex, Unindex
  <1>21. ASSUME NEW r \in Request, LogoutPublish(r)
        PROVE TypeInv'
    BY <1>21 DEF LogoutPublish, PublishSessionRevoked, Locals, Blank
  <1>22. ASSUME NEW r \in Request, NEW a \in access, NEW f \in Family, RevokeEnter(r, a, f)
        PROVE TypeInv'
    BY <1>22, RevokeEnterTyped
  <1>23. ASSUME NEW r \in Request, RevokeLookup(r)
        PROVE TypeInv'
    BY <1>23, RevokeLookupLocals DEF RevokeLookup, LocalsTyped
  <1>24. ASSUME NEW r \in Request, RevokeDelete(r)
        PROVE TypeInv'
    BY <1>24 DEF RevokeDelete, DeleteFamily
  <1>25. ASSUME NEW r \in Request, RevokeUnindex(r)
        PROVE TypeInv'
    BY <1>25 DEF RevokeUnindex, Unindex
  <1>26. ASSUME NEW r \in Request, RevokePublish(r)
        PROVE TypeInv'
    BY <1>26 DEF RevokePublish, PublishSessionRevoked, Locals, Blank
  <1>27. ASSUME NEW r \in Request, NEW a \in access, RevokeAllEnter(r, a)
        PROVE TypeInv'
    BY <1>27 DEF RevokeAllEnter, EnterGuarded, AccessJwt, Locals, Blank
  <1>28. ASSUME NEW r \in Request, RevokeAllSnapshot(r)
        PROVE TypeInv'
    BY <1>28, RevokeAllSnapshotLocals DEF RevokeAllSnapshot, LocalsTyped
  <1>29. ASSUME NEW r \in Request, RevokeAllPick(r)
        PROVE TypeInv'
    BY <1>29, RevokeAllPickLocals DEF RevokeAllPick, LocalsTyped
  <1>30. ASSUME NEW r \in Request, RevokeAllDelete(r)
        PROVE TypeInv'
    BY <1>30 DEF RevokeAllDelete, DeleteFamily
  <1>31. ASSUME NEW r \in Request, RevokeAllUnindex(r)
        PROVE TypeInv'
    BY <1>31 DEF RevokeAllUnindex, Unindex
  <1>32. ASSUME NEW r \in Request, RevokeAllStale(r)
        PROVE TypeInv'
    BY <1>32 DEF RevokeAllStale, Unindex
  <1>33. ASSUME NEW r \in Request, RevokeAllPublish(r)
        PROVE TypeInv'
    BY <1>33 DEF RevokeAllPublish, PublishSessionRevoked
  <1>34. ASSUME NEW r \in Request, RevokeAllDone(r)
        PROVE TypeInv'
    <2>1. CASE Answer(r, "allPick")
      <3>1. LocalsTyped'
        BY <2>1, AnswerTyped DEF LocalsTyped
      <3> QED BY <1>34, <3>1 DEF RevokeAllDone, LocalsTyped
    <2>2. CASE Goto(r, "allPick", "allBump") /\ UNCHANGED loc
      BY <1>34, <2>2 DEF RevokeAllDone
    <2> QED BY <1>34, <2>1, <2>2 DEF RevokeAllDone
  <1>35. ASSUME NEW r \in Request, RevokeAllBump(r)
        PROVE TypeInv'
    BY <1>35 DEF RevokeAllBump, IncrementTokenVersion, Locals, Blank
  <1>36. ASSUME NEW r \in Request, NEW a \in access, PasswordEnter(r, a)
        PROVE TypeInv'
    BY <1>36, PasswordEnterTyped
  <1>37. ASSUME NEW r \in Request, PasswordWrite(r)
        PROVE TypeInv'
    <2>1. loc[r].user \in User /\ password[loc[r].user] + 1 \in Nat
      BY <1>37 DEF PasswordWrite
    <2> QED BY <1>37, <2>1 DEF PasswordWrite
  <1>38. ASSUME NEW u \in User, NEW k \in ResetKey, ForgotPassword(u, k)
        PROVE TypeInv'
    BY <1>38 DEF ForgotPassword
  <1>39. ASSUME NEW r \in Request, NEW k \in ResetKey, ResetLookup(r, k)
        PROVE TypeInv'
    BY <1>39, ResetLookupTyped
  <1>40. ASSUME NEW r \in Request, ResetConsume(r)
        PROVE TypeInv'
    BY <1>40 DEF ResetConsume
  <1>41. ASSUME NEW r \in Request, ResetReadUser(r)
        PROVE TypeInv'
    <2>1. CASE Answer(r, "resetUser")
      <3>1. LocalsTyped'
        BY <2>1, AnswerTyped DEF LocalsTyped
      <3> QED BY <1>41, <3>1 DEF ResetReadUser, LocalsTyped
    <2>2. CASE Goto(r, "resetUser", "resetWrite") /\ UNCHANGED loc
      BY <1>41, <2>2 DEF ResetReadUser
    <2> QED BY <1>41, <2>1, <2>2 DEF ResetReadUser
  <1>42. ASSUME NEW r \in Request, ResetWrite(r)
        PROVE TypeInv'
    BY <1>42 DEF ResetWrite
  <1>43. ASSUME NEW r \in Request, NEW a \in access, ListEnter(r, a)
        PROVE TypeInv'
    BY <1>43 DEF ListEnter, EnterGuarded, AccessJwt, Locals, Blank
  <1>44. ASSUME NEW r \in Request, ListSnapshot(r)
        PROVE TypeInv'
    BY <1>44, ListSnapshotLocals DEF ListSnapshot, LocalsTyped
  <1>45. ASSUME NEW r \in Request, ListPick(r)
        PROVE TypeInv'
    BY <1>45, ListPickLocals DEF ListPick, LocalsTyped
  <1>46. ASSUME NEW r \in Request, ListStale(r)
        PROVE TypeInv'
    BY <1>46 DEF ListStale, Unindex
  <1>47. ASSUME NEW r \in Request, ListDone(r)
        PROVE TypeInv'
    BY <1>47 DEF ListDone, Locals, Blank
  <1>48. ASSUME NEW u \in User, SetActive(u)
        PROVE TypeInv'
    BY <1>48 DEF SetActive
  <1>49. ASSUME NEW r \in Request, Abort(r)
        PROVE TypeInv'
    BY <1>49 DEF Abort, Fault, Locals, Blank
  <1>50. ASSUME Expire
        PROVE TypeInv'
    BY <1>50 DEF Expire, Fault
  <1>51. ASSUME UNCHANGED vars
        PROVE TypeInv'
    BY <1>51 DEF vars
  <1>52. ASSUME NEW r \in Request, Call(r)
        PROVE TypeInv'
    BY <1>52, <1>1, <1>6, <1>18, <1>22, <1>27, <1>36, <1>39, <1>43 DEF Call
  <1>53. ASSUME NEW r \in Request, Continue(r)
        PROVE TypeInv'
    BY <1>53, <1>2, <1>3, <1>4, <1>5, <1>7, <1>8, <1>9, <1>10, <1>11, <1>12, <1>13, <1>14,
       <1>15, <1>16, <1>17, <1>19, <1>20, <1>21, <1>23, <1>24, <1>25, <1>26, <1>28, <1>29,
       <1>30, <1>31, <1>32, <1>33, <1>34, <1>35, <1>37, <1>40, <1>41, <1>42, <1>44, <1>45,
       <1>46, <1>47 DEF Continue
  <1> QED BY <1>38, <1>48, <1>49, <1>50, <1>51, <1>52, <1>53 DEF Next

\* The database columns, the Redis keys and the locals of every handler keep
\* their types: no handler writes an unset local into Redis or into a token.
THEOREM TypeCorrect == Spec => []TypeOK
  <1>1. TypeInv => TypeOK
    BY DEF TypeInv
  <1> QED BY TypeInit, TypeStep, <1>1, PTL DEF Spec

-----------------------------------------------------------------------------
(* How a step of one request leaves the locals of the others valid           *)

\* What no step undoes: the account of a session and the session of a token
\* are fixed once drawn, a session that left the index stays out, a refresh
\* token that is gone stays gone, and the token version never decreases.
Grows ==
    /\ \A f \in Family : owner[f] # Nil => owner'[f] = owner[f]
    /\ \A t \in Token : lineage[t] # Nil => lineage'[t] = lineage[t]
    /\ opened \subseteq opened'
    /\ Ended \subseteq Ended'
    /\ \A t \in Token : lineage[t] # Nil /\ rt[t] = Nil => rt'[t] = Nil
    /\ \A u \in User : tokenVersion[u] <= tokenVersion'[u]

Store == <<rt, family, consumed, sessions, cookies, access, revoked, owner, lineage, opened,
           tokenVersion>>

\* A step that leaves the store alone undoes nothing.
LEMMA QuietGrows ==
  ASSUME TypeInv, UNCHANGED Store
  PROVE  Grows
  BY DEF Store, Grows, Ended, Indexed, TypeInv, TypeOK

\* A step that leaves the store alone keeps what it agrees on.
LEMMA QuietStore ==
  ASSUME StoreOK, UNCHANGED Store
  PROVE  StoreOK'
  BY DEF Store, StoreOK, Ended, Indexed

\* The sessions and tokens named by the locals of a request have been drawn.
LEMMA Owned ==
  ASSUME TypeInv, SessionInv, NEW q \in Request
  PROVE  /\ pc[q] \in HasFam \ {"reuseFamily", "revokeGet"} => owner[loc[q].fam] # Nil
         /\ pc[q] \in HasNew => lineage[loc[q].new] # Nil
         /\ pc[q] \in {"refreshUser", "refreshDel", "refreshMark", "reuseMark"} => lineage[loc[q].old] # Nil
  <1>1. Nil \notin User /\ Nil \notin Family
    BY NilAssumption
  <1>2. LocalOK(q) /\ Fits(pc[q], loc[q]) /\ opened \subseteq Family
    BY DEF TypeInv, TypeOK, SessionInv, LocalsSet
  <1>3. pc[q] \in HasFam \ {"reuseFamily", "revokeGet"} => owner[loc[q].fam] = loc[q].user /\ loc[q].user \in User
    BY <1>2 DEF LocalOK, Fits, HasFam, HasUser, RevokeAllLabel
  <1>4. pc[q] \in HasNew => lineage[loc[q].new] = loc[q].fam /\ loc[q].fam \in Family
    BY <1>2 DEF LocalOK, Fits, HasFam, HasNew
  <1>5. pc[q] \in {"refreshUser", "refreshDel", "refreshMark"} => lineage[loc[q].old] = loc[q].fam /\ loc[q].fam \in Family
    BY <1>2 DEF LocalOK, Fits, HasFam
  <1>6. pc[q] = "reuseMark" => lineage[loc[q].old] \in Family
    BY <1>2 DEF LocalOK
  <1> QED BY <1>1, <1>3, <1>4, <1>5, <1>6

\* The locals of a request that does not move stay valid, whatever the step of
\* another one wrote, if the step undoes nothing.
LEMMA OthersKeep ==
  ASSUME TypeInv, TypeInv', SessionInv, Grows, NEW q \in Request,
         pc'[q] = pc[q], loc'[q] = loc[q],
         pc[q] \in Creating => loc[q].fam \notin opened'
  PROVE  LocalOK(q)'
  <1>1. LocalOK(q) /\ Fits(pc[q], loc[q]) /\ loc[q] \in Locals
    BY DEF TypeInv, TypeOK, SessionInv, LocalsSet
  <1>2. /\ pc[q] \in HasFam => loc[q].fam \in Family
        /\ pc[q] \in HasOld => loc[q].old \in Token
        /\ pc[q] \in HasNew => loc[q].new \in Token
        /\ pc[q] \in HasUser => loc[q].user \in User
    BY <1>1 DEF Fits
  <1>3. /\ pc[q] \in HasFam \ {"reuseFamily", "revokeGet"} => owner'[loc[q].fam] = owner[loc[q].fam]
        /\ pc[q] \in HasNew => lineage'[loc[q].new] = lineage[loc[q].new]
        /\ pc[q] \in {"refreshUser", "refreshDel", "refreshMark", "reuseMark"} =>
               lineage'[loc[q].old] = lineage[loc[q].old]
    BY <1>2, Owned DEF Grows, HasOld
  <1>4. pc[q] = "refreshMark" => rt'[loc[q].old] = Nil
    BY <1>1, <1>2, Owned DEF Grows, HasOld, LocalOK
  <1>5. pc[q] \in Publishing => loc[q].fam \notin Indexed'
    BY <1>1 DEF LocalOK, Grows, Ended, Publishing, HasFam, Creating
  <1>6. pc[q] \in {"refreshDel", "refreshMark", "refreshStore", "refreshFamily"} =>
            loc[q].ver <= tokenVersion'[loc[q].user]
    <2>1. CASE pc[q] \in {"refreshDel", "refreshMark", "refreshStore", "refreshFamily"}
      <3>1. loc[q].user \in User
        BY <1>2, <2>1 DEF HasUser
      <3>2. tokenVersion[loc[q].user] <= tokenVersion'[loc[q].user] /\ loc[q].ver <= tokenVersion[loc[q].user]
        BY <1>1, <2>1, <3>1 DEF LocalOK, Grows
      <3>3. loc[q].ver \in Nat /\ tokenVersion[loc[q].user] \in Nat /\ tokenVersion'[loc[q].user] \in Nat
        BY <1>1, <3>1 DEF Locals, TypeInv, TypeOK
      <3> QED BY <3>2, <3>3
    <2> QED BY <2>1
  <1>7. \A f \in opened : f \in opened' /\ owner'[f] = owner[f] /\ f \in Family
    <2>1. opened \subseteq Family /\ \A f \in opened : owner[f] # Nil
      BY DEF TypeInv, TypeOK, SessionInv, StoreOK
    <2> QED BY <2>1 DEF Grows
  <1>8. pc[q] \in RevokeAllLabel \cup {"listPick", "listStale"} =>
            \A f \in loc[q].todo : owner'[f] = loc[q].user /\ f \in opened'
    BY <1>1, <1>7 DEF LocalOK
  <1>9. pc[q] \in RevokeAllLabel =>
            \A f \in loc[q].ids : \/ f \in loc[q].todo \cup {loc[q].keep} \/ f \in Ended'
                                  \/ pc[q] \in Going /\ f = loc[q].fam
    BY <1>1 DEF LocalOK, Grows
  <1>10. pc[q] \in HasFam \ Creating => loc[q].fam \in opened'
    BY <1>1 DEF LocalOK, Grows
  <1>11. pc[q] = "reuseMark" => lineage'[loc[q].old] \in opened'
    BY <1>1, <1>3 DEF LocalOK, Grows
  <1> QED BY <1>1, <1>3, <1>4, <1>5, <1>6, <1>8, <1>9, <1>10, <1>11 DEF LocalOK

\* Only the locals of r change beside the store, and they stay valid.
LEMMA StepKeeps ==
  ASSUME TypeInv, TypeInv', SessionInv, Grows, StoreOK', NEW r \in Request, LocalOK(r)',
         \A q \in Request \ {r} :
            /\ pc'[q] = pc[q] /\ loc'[q] = loc[q]
            /\ pc[q] \in Creating => loc[q].fam \notin opened'
            /\ pc[q] \in Creating /\ pc'[r] \in Creating => loc[q].fam # loc'[r].fam
  PROVE  SessionInv' /\ Grows
  <1>1. \A q \in Request : LocalOK(q)'
    BY OthersKeep
  <1>2. CreatesDistinct'
    BY DEF SessionInv, CreatesDistinct
  <1> QED BY <1>1, <1>2 DEF SessionInv

\* A request reads and moves on: only its own locals have to be checked.
LEMMA QuietStep ==
  ASSUME TypeInv, TypeInv', SessionInv, UNCHANGED Store, NEW r \in Request, LocalOK(r)',
         pc'[r] \notin Creating,
         \A q \in Request \ {r} : pc'[q] = pc[q] /\ loc'[q] = loc[q]
  PROVE  SessionInv' /\ Grows
  <1>1. StoreOK' /\ Grows
    BY QuietStore, QuietGrows DEF SessionInv
  <1>2. \A q \in Request : pc[q] \in Creating => loc[q].fam \notin opened'
    BY DEF SessionInv, LocalOK, Store
  <1> QED BY <1>1, <1>2, StepKeeps

\* Nothing is asked of a request that has answered.
LEMMA IdleOK ==
  ASSUME NEW r \in Request, pc'[r] = "idle"
  PROVE  LocalOK(r)' /\ pc'[r] \notin Creating
  BY DEF LocalOK, HasFam, HasNew, Creating, Publishing, Going, RevokeAllLabel

\* The label of the request that moves, and of the others
LEMMA Moved ==
  ASSUME TypeInv, NEW r \in Request, NEW at, NEW next, Goto(r, at, next)
  PROVE  /\ pc[r] = at /\ pc'[r] = next
         /\ \A q \in Request \ {r} : pc'[q] = pc[q]
  BY DEF Goto, TypeInv, TypeOK

\* The locals of the request that moves, and of the others
LEMMA LocSet ==
  ASSUME TypeInv, NEW r \in Request, NEW l, loc' = [loc EXCEPT ![r] = l]
  PROVE  /\ loc'[r] = l
         /\ \A q \in Request \ {r} : loc'[q] = loc[q]
  BY DEF TypeInv, TypeOK

\* A request that a client starts: its label and its locals, and the others'
LEMMA Entered ==
  ASSUME TypeInv, NEW r \in Request, NEW handler, NEW next, NEW l, Enter(r, handler, next, l)
  PROVE  /\ pc'[r] = next /\ loc'[r] = l
         /\ \A q \in Request \ {r} : pc'[q] = pc[q] /\ loc'[q] = loc[q]
  <1>1. Goto(r, "idle", next) /\ loc' = [loc EXCEPT ![r] = l]
    BY DEF Enter
  <1>2. pc'[r] = next /\ \A q \in Request \ {r} : pc'[q] = pc[q]
    BY <1>1, Moved
  <1>3. loc'[r] = l /\ \A q \in Request \ {r} : loc'[q] = loc[q]
    BY <1>1, LocSet
  <1> QED BY <1>2, <1>3

\* A request that answers
LEMMA Answered ==
  ASSUME TypeInv, NEW r \in Request, NEW at, Answer(r, at)
  PROVE  /\ pc[r] = at /\ pc'[r] = "idle"
         /\ \A q \in Request \ {r} : pc'[q] = pc[q] /\ loc'[q] = loc[q]
  <1>1. Goto(r, at, "idle") /\ loc' = [loc EXCEPT ![r] = Blank]
    BY DEF Answer
  <1>2. pc[r] = at /\ pc'[r] = "idle" /\ \A q \in Request \ {r} : pc'[q] = pc[q]
    BY <1>1, Moved
  <1>3. \A q \in Request \ {r} : loc'[q] = loc[q]
    BY <1>1, LocSet
  <1> QED BY <1>2, <1>3

\* A request that only answers keeps the invariant.
LEMMA QuietAnswer ==
  ASSUME TypeInv, TypeInv', SessionInv, UNCHANGED Store, NEW r \in Request, NEW at, Answer(r, at)
  PROVE  SessionInv' /\ Grows
  <1>1. pc'[r] = "idle" /\ \A q \in Request \ {r} : pc'[q] = pc[q] /\ loc'[q] = loc[q]
    BY Answered
  <1> QED BY <1>1, IdleOK, QuietStep

-----------------------------------------------------------------------------
(* Steps that only read *)

\* login, up to its first await (97-117)
LEMMA LoginCheckSafe ==
  ASSUME TypeInv, TypeInv', SessionInv, NEW r \in Request, NEW u \in User, LoginCheck(r, u)
  PROVE  SessionInv' /\ Grows
  <1>1. /\ pc'[r] = "loginToken"
        /\ \A q \in Request \ {r} : pc'[q] = pc[q] /\ loc'[q] = loc[q]
    BY Entered DEF LoginCheck
  <1>2. LocalOK(r)' /\ pc'[r] \notin Creating
    BY <1>1 DEF LocalOK, HasFam, HasNew, Creating, Publishing, Going, RevokeAllLabel
  <1>3. UNCHANGED Store
    BY DEF LoginCheck, Store, account, tokens, wire, history
  <1> QED BY <1>1, <1>2, <1>3, QuietStep

\* refreshToken reads rt:<token>, which names the account and the session (140-152).
LEMMA RefreshLookupSafe ==
  ASSUME TypeInv, TypeInv', SessionInv, NEW r \in Request, NEW t \in Token, RefreshLookup(r, t)
  PROVE  SessionInv' /\ Grows
  <1>1. UNCHANGED Store
    BY DEF RefreshLookup, Store, account, tokens, wire, history
  <1>2. StoreOK /\ lineage[t] \in opened /\ rt[t] \in RefreshData \cup {Nil}
    BY DEF SessionInv, StoreOK, RefreshLookup, TypeInv, TypeOK
  <1>3. CASE rt[t] # Nil
    <2> DEFINE l == [Blank EXCEPT !.user = rt[t].user, !.fam = rt[t].fam, !.old = t]
    <2>1. l.user = rt[t].user /\ l.fam = rt[t].fam /\ l.old = t
      BY DEF Blank
    <2>2. pc'[r] = "refreshUser" /\ loc'[r] = l /\ \A q \in Request \ {r} : pc'[q] = pc[q] /\ loc'[q] = loc[q]
      BY <1>3, Entered DEF RefreshLookup
    <2>3. owner'[l.fam] = l.user /\ lineage'[l.old] = l.fam /\ l.fam \in opened'
      BY <1>1, <1>2, <1>3, <2>1 DEF StoreOK, Store
    <2> HIDE DEF l
    <2>4. LocalOK(r)' /\ pc'[r] \notin Creating
      BY <2>2, <2>3 DEF LocalOK, HasFam, HasNew, Creating, Publishing, Going, RevokeAllLabel
    <2> QED BY <1>1, <2>2, <2>4, QuietStep
  <1>4. CASE rt[t] = Nil
    <2> DEFINE l == [Blank EXCEPT !.old = t]
    <2>1. l.old = t
      BY DEF Blank
    <2>2. pc'[r] = "reuseMark" /\ loc'[r] = l /\ \A q \in Request \ {r} : pc'[q] = pc[q] /\ loc'[q] = loc[q]
      BY <1>4, Entered DEF RefreshLookup
    <2>3. lineage'[l.old] \in opened'
      BY <1>1, <1>2, <2>1 DEF Store
    <2> HIDE DEF l
    <2>4. LocalOK(r)' /\ pc'[r] \notin Creating
      BY <2>2, <2>3 DEF LocalOK, HasFam, HasNew, Creating, Publishing, Going, RevokeAllLabel
    <2> QED BY <1>1, <2>2, <2>4, QuietStep
  <1> QED BY <1>3, <1>4

\* logout reads rt:<token> (171-179).
LEMMA LogoutLookupSafe ==
  ASSUME TypeInv, TypeInv', SessionInv, NEW r \in Request, NEW t \in Token, LogoutLookup(r, t)
  PROVE  SessionInv' /\ Grows
  <1>1. UNCHANGED Store
    BY DEF LogoutLookup, Store, account, tokens, wire, history
  <1>2. StoreOK /\ lineage[t] \in opened /\ rt[t] # Nil
    BY DEF SessionInv, StoreOK, LogoutLookup
  <1> DEFINE l == [Blank EXCEPT !.user = rt[t].user, !.fam = rt[t].fam, !.old = t]
  <1>3. l.user = rt[t].user /\ l.fam = rt[t].fam
    BY DEF Blank
  <1>4. pc'[r] = "logoutDel" /\ loc'[r] = l /\ \A q \in Request \ {r} : pc'[q] = pc[q] /\ loc'[q] = loc[q]
    <2>1. Enter(r, "logout", "logoutDel", l)
      BY DEF LogoutLookup
    <2> HIDE DEF l
    <2> QED BY <2>1, Entered
  <1>5. owner'[l.fam] = l.user /\ l.fam \in opened'
    BY <1>1, <1>2, <1>3 DEF StoreOK, Store
  <1> HIDE DEF l
  <1>6. LocalOK(r)' /\ pc'[r] \notin Creating
    BY <1>4, <1>5 DEF LocalOK, HasFam, HasNew, Creating, Publishing, Going, RevokeAllLabel
  <1> QED BY <1>1, <1>4, <1>6, QuietStep

\* DELETE /auth/sessions/:id is called on a session that was once listed.
LEMMA RevokeEnterSafe ==
  ASSUME TypeInv, TypeInv', SessionInv, NEW r \in Request, NEW a \in access, NEW f \in Family,
         RevokeEnter(r, a, f)
  PROVE  SessionInv' /\ Grows
  <1>1. UNCHANGED Store
    BY DEF RevokeEnter, EnterGuarded, Store, account, tokens, wire, history
  <1> DEFINE l == [Blank EXCEPT !.user = a.user, !.fam = f]
  <1>2. l.fam = f /\ f \in opened'
    BY <1>1 DEF Blank, RevokeEnter, Store
  <1>3. pc'[r] = "revokeGet" /\ loc'[r] = l /\ \A q \in Request \ {r} : pc'[q] = pc[q] /\ loc'[q] = loc[q]
    <2>1. Enter(r, "revoke", "revokeGet", l)
      BY DEF RevokeEnter, EnterGuarded
    <2> HIDE DEF l
    <2> QED BY <2>1, Entered
  <1> HIDE DEF l
  <1>4. LocalOK(r)' /\ pc'[r] \notin Creating
    BY <1>2, <1>3 DEF LocalOK, HasFam, HasNew, Creating, Publishing, Going, RevokeAllLabel
  <1> QED BY <1>1, <1>3, <1>4, QuietStep

\* A guarded handler that starts with a snapshot of the sessions is called.
LEMMA LoopEnterSafe ==
  ASSUME TypeInv, TypeInv', SessionInv, NEW r \in Request, NEW a \in access,
         RevokeAllEnter(r, a) \/ PasswordEnter(r, a) \/ ListEnter(r, a)
  PROVE  SessionInv' /\ Grows
  <1>1. UNCHANGED Store
    BY DEF RevokeAllEnter, PasswordEnter, ListEnter, EnterGuarded, Store, account, tokens, wire, history
  <1>2. /\ pc'[r] \in {"allSnapshot", "passwordWrite", "listSnapshot"}
        /\ \A q \in Request \ {r} : pc'[q] = pc[q] /\ loc'[q] = loc[q]
    BY Entered DEF RevokeAllEnter, PasswordEnter, ListEnter, EnterGuarded
  <1>3. LocalOK(r)' /\ pc'[r] \notin Creating
    BY <1>2 DEF LocalOK, HasFam, HasNew, Creating, Publishing, Going, RevokeAllLabel
  <1> QED BY <1>1, <1>2, <1>3, QuietStep

\* resetPassword reads the reset key (653-659).
LEMMA ResetLookupSafe ==
  ASSUME TypeInv, TypeInv', SessionInv, NEW r \in Request, NEW k \in ResetKey, ResetLookup(r, k)
  PROVE  SessionInv' /\ Grows
  <1>1. UNCHANGED Store
    BY DEF ResetLookup, Store, account, tokens, wire, history
  <1>2. pc'[r] = "resetConsume" /\ \A q \in Request \ {r} : pc'[q] = pc[q] /\ loc'[q] = loc[q]
    BY Entered DEF ResetLookup
  <1>3. LocalOK(r)' /\ pc'[r] \notin Creating
    BY <1>2 DEF LocalOK, HasFam, HasNew, Creating, Publishing, Going, RevokeAllLabel
  <1> QED BY <1>1, <1>2, <1>3, QuietStep

\* The account is read or written, or the reset key deleted: no session is concerned.
LEMMA AccountStepSafe ==
  ASSUME TypeInv, TypeInv', SessionInv, NEW r \in Request,
         PasswordWrite(r) \/ ResetConsume(r) \/ ResetReadUser(r) \/ ResetWrite(r)
  PROVE  SessionInv' /\ Grows
  <1>1. UNCHANGED Store
    BY DEF PasswordWrite, ResetConsume, ResetReadUser, ResetWrite, Store, account, tokens, wire, history
  <1>2. CASE Answer(r, "resetUser")
    BY <1>1, <1>2, QuietAnswer
  <1>3. CASE ~Answer(r, "resetUser")
    <2>1. /\ pc'[r] \in {"allSnapshot", "resetUser", "resetWrite"} /\ UNCHANGED loc
          /\ \A q \in Request \ {r} : pc'[q] = pc[q]
      BY <1>3, Moved DEF PasswordWrite, ResetConsume, ResetReadUser, ResetWrite
    <2>2. LocalOK(r)' /\ pc'[r] \notin Creating
      BY <2>1 DEF LocalOK, HasFam, HasNew, Creating, Publishing, Going, RevokeAllLabel
    <2> QED BY <1>1, <2>1, <2>2, QuietStep
  <1> QED BY <1>2, <1>3

\* rotateToken reads the user row; the version it keeps may grow old (449-457).
LEMMA RotateReadUserSafe ==
  ASSUME TypeInv, TypeInv', SessionInv, NEW r \in Request, RotateReadUser(r)
  PROVE  SessionInv' /\ Grows
  <1>1. UNCHANGED Store
    BY DEF RotateReadUser, Store, account, tokens, wire, history
  <1>2. CASE Answer(r, "refreshUser")
    BY <1>1, <1>2, QuietAnswer
  <1>3. CASE ~Answer(r, "refreshUser")
    <2> DEFINE l == [loc[r] EXCEPT !.ver = tokenVersion[loc[r].user]]
    <2>1. pc[r] = "refreshUser" /\ pc' = [pc EXCEPT ![r] = "refreshDel"] /\ loc' = [loc EXCEPT ![r] = l]
      BY <1>3 DEF RotateReadUser, Goto
    <2>2. /\ pc[r] = "refreshUser" /\ pc'[r] = "refreshDel" /\ loc'[r] = l
          /\ \A q \in Request \ {r} : pc'[q] = pc[q] /\ loc'[q] = loc[q]
      BY <2>1, LocSet DEF TypeInv, TypeOK
    <2>3. LocalOK(r) /\ loc[r] \in Locals /\ loc[r].user \in User
      BY <2>2, LocalsAt DEF SessionInv, HasUser
    <2>4. /\ l.user = loc[r].user /\ l.fam = loc[r].fam /\ l.old = loc[r].old
          /\ l.ver = tokenVersion[loc[r].user]
      BY <2>3 DEF Locals
    <2>5. tokenVersion[loc[r].user] \in Nat
      BY <2>3 DEF TypeInv, TypeOK
    <2> HIDE DEF l
    <2>6. owner'[l.fam] = l.user /\ lineage'[l.old] = l.fam /\ l.fam \in opened'
          /\ l.ver <= tokenVersion'[l.user]
      BY <1>1, <2>2, <2>3, <2>4, <2>5 DEF LocalOK, HasFam, Creating, Store
    <2>7. LocalOK(r)' /\ pc'[r] \notin Creating
      BY <2>2, <2>6 DEF LocalOK, HasFam, HasNew, Creating, Publishing, Going, RevokeAllLabel
    <2> QED BY <1>1, <2>2, <2>7, QuietStep
  <1> QED BY <1>2, <1>3

\* The mark of a consumed token names the session of the token (155-162).
LEMMA ReuseReadMarkSafe ==
  ASSUME TypeInv, TypeInv', SessionInv, NEW r \in Request, ReuseReadMark(r)
  PROVE  SessionInv' /\ Grows
  <1>1. UNCHANGED Store
    BY DEF ReuseReadMark, Store, account, tokens, wire, history
  <1>2. CASE Answer(r, "reuseMark")
    BY <1>1, <1>2, QuietAnswer
  <1>3. CASE ~Answer(r, "reuseMark")
    <2> DEFINE l == [loc[r] EXCEPT !.fam = consumed[loc[r].old]]
    <2>1. pc[r] = "reuseMark" /\ pc' = [pc EXCEPT ![r] = "reuseFamily"] /\ loc' = [loc EXCEPT ![r] = l] /\ consumed[loc[r].old] # Nil
      BY <1>3 DEF ReuseReadMark, Goto
    <2>2. /\ pc[r] = "reuseMark" /\ pc'[r] = "reuseFamily" /\ loc'[r] = l
          /\ \A q \in Request \ {r} : pc'[q] = pc[q] /\ loc'[q] = loc[q]
      BY <2>1, LocSet DEF TypeInv, TypeOK
    <2>3. LocalOK(r) /\ loc[r] \in Locals /\ loc[r].old \in Token
      BY <2>2, LocalsAt DEF SessionInv, HasOld
    <2>4. l.fam = consumed[loc[r].old]
      BY <2>3 DEF Locals
    <2> HIDE DEF l
    <2>5. l.fam \in opened'
      BY <1>1, <2>1, <2>2, <2>3, <2>4 DEF LocalOK, Store, SessionInv, StoreOK
    <2>6. LocalOK(r)' /\ pc'[r] \notin Creating
      BY <2>2, <2>5 DEF LocalOK, HasFam, HasNew, Creating, Publishing, Going, RevokeAllLabel
    <2> QED BY <1>1, <2>2, <2>6, QuietStep
  <1> QED BY <1>2, <1>3

\* handleReuse takes account and latest token from the family (500-505).
LEMMA ReuseReadFamilySafe ==
  ASSUME TypeInv, TypeInv', SessionInv, NEW r \in Request, ReuseReadFamily(r)
  PROVE  SessionInv' /\ Grows
  <1>1. UNCHANGED Store
    BY DEF ReuseReadFamily, Store, account, tokens, wire, history
  <1>2. CASE Answer(r, "reuseFamily")
    BY <1>1, <1>2, QuietAnswer
  <1>3. CASE ~Answer(r, "reuseFamily")
    <2> DEFINE l == [loc[r] EXCEPT !.user = family[loc[r].fam].user, !.old = family[loc[r].fam].latest]
    <2>1. pc[r] = "reuseFamily" /\ pc' = [pc EXCEPT ![r] = "reuseDel"] /\ loc' = [loc EXCEPT ![r] = l] /\ family[loc[r].fam] # Nil
      BY <1>3 DEF ReuseReadFamily, Goto
    <2>2. /\ pc[r] = "reuseFamily" /\ pc'[r] = "reuseDel" /\ loc'[r] = l
          /\ \A q \in Request \ {r} : pc'[q] = pc[q] /\ loc'[q] = loc[q]
      BY <2>1, LocSet DEF TypeInv, TypeOK
    <2>3. LocalOK(r) /\ loc[r] \in Locals /\ loc[r].fam \in Family
      BY <2>2, LocalsAt DEF SessionInv, HasFam
    <2>4. l.fam = loc[r].fam /\ l.user = family[loc[r].fam].user
      BY <2>3 DEF Locals
    <2> HIDE DEF l
    <2>5. l.fam \in opened' /\ owner'[l.fam] = l.user
      BY <1>1, <2>1, <2>2, <2>3, <2>4 DEF LocalOK, HasFam, Creating, Store, SessionInv, StoreOK
    <2>6. LocalOK(r)' /\ pc'[r] \notin Creating
      BY <2>2, <2>5 DEF LocalOK, HasFam, HasNew, Creating, Publishing, Going, RevokeAllLabel
    <2> QED BY <1>1, <2>2, <2>6, QuietStep
  <1> QED BY <1>2, <1>3

\* revokeSession goes on only for a session of the caller (351-360).
LEMMA RevokeLookupSafe ==
  ASSUME TypeInv, TypeInv', SessionInv, NEW r \in Request, RevokeLookup(r)
  PROVE  SessionInv' /\ Grows
  <1>1. UNCHANGED Store
    BY DEF RevokeLookup, Store, account, tokens, wire, history
  <1>2. CASE Answer(r, "revokeGet")
    BY <1>1, <1>2, QuietAnswer
  <1>3. CASE ~Answer(r, "revokeGet")
    <2> DEFINE l == [loc[r] EXCEPT !.old = family[loc[r].fam].latest]
    <2>1. /\ pc[r] = "revokeGet" /\ pc' = [pc EXCEPT ![r] = "revokeDel"] /\ loc' = [loc EXCEPT ![r] = l]
          /\ family[loc[r].fam] # Nil /\ family[loc[r].fam].user = loc[r].user
      BY <1>3 DEF RevokeLookup, Goto
    <2>2. /\ pc[r] = "revokeGet" /\ pc'[r] = "revokeDel" /\ loc'[r] = l
          /\ \A q \in Request \ {r} : pc'[q] = pc[q] /\ loc'[q] = loc[q]
      BY <2>1, LocSet DEF TypeInv, TypeOK
    <2>3. LocalOK(r) /\ loc[r] \in Locals /\ loc[r].fam \in Family
      BY <2>2, LocalsAt DEF SessionInv, HasFam
    <2>4. l.fam = loc[r].fam /\ l.user = loc[r].user
      BY <2>3 DEF Locals
    <2> HIDE DEF l
    <2>5. l.fam \in opened' /\ owner'[l.fam] = l.user
      BY <1>1, <2>1, <2>2, <2>3, <2>4 DEF LocalOK, HasFam, Creating, Store, SessionInv, StoreOK
    <2>6. LocalOK(r)' /\ pc'[r] \notin Creating
      BY <2>2, <2>5 DEF LocalOK, HasFam, HasNew, Creating, Publishing, Going, RevokeAllLabel
    <2> QED BY <1>1, <2>2, <2>6, QuietStep
  <1> QED BY <1>2, <1>3

\* The loop of revokeAllSessions starts over sessions of the account.
LEMMA RevokeAllSnapshotSafe ==
  ASSUME TypeInv, TypeInv', SessionInv, NEW r \in Request, RevokeAllSnapshot(r)
  PROVE  SessionInv' /\ Grows
  <1>1. UNCHANGED Store
    BY DEF RevokeAllSnapshot, Store, account, tokens, wire, history
  <1> DEFINE l == [loc[r] EXCEPT !.ids = sessions[loc[r].user], !.todo = sessions[loc[r].user]]
  <1>2. pc[r] = "allSnapshot" /\ pc' = [pc EXCEPT ![r] = "allPick"] /\ loc' = [loc EXCEPT ![r] = l]
    BY DEF RevokeAllSnapshot, Goto
  <1>3. /\ pc'[r] = "allPick" /\ loc'[r] = l
        /\ \A q \in Request \ {r} : pc'[q] = pc[q] /\ loc'[q] = loc[q]
    BY <1>2, LocSet DEF TypeInv, TypeOK
  <1>4. loc[r] \in Locals /\ loc[r].user \in User
    BY <1>2, LocalsAt DEF HasUser
  <1>5. l.ids = l.todo /\ l.todo = sessions[loc[r].user] /\ l.user = loc[r].user
    BY <1>4 DEF Locals
  <1> HIDE DEF l
  <1>6. \A f \in l.todo : owner'[f] = l.user /\ f \in opened'
    BY <1>1, <1>4, <1>5 DEF SessionInv, StoreOK, Store
  <1>7. LocalOK(r)' /\ pc'[r] \notin Creating
    BY <1>3, <1>5, <1>6 DEF LocalOK, HasFam, HasNew, Creating, Publishing, Going, RevokeAllLabel
  <1> QED BY <1>1, <1>3, <1>7, QuietStep

\* The loop of getSessions starts over sessions of the account.
LEMMA ListSnapshotSafe ==
  ASSUME TypeInv, TypeInv', SessionInv, NEW r \in Request, ListSnapshot(r)
  PROVE  SessionInv' /\ Grows
  <1>1. UNCHANGED Store
    BY DEF ListSnapshot, Store, account, tokens, wire, history
  <1> DEFINE l == [loc[r] EXCEPT !.todo = sessions[loc[r].user]]
  <1>2. pc[r] = "listSnapshot" /\ pc' = [pc EXCEPT ![r] = "listPick"] /\ loc' = [loc EXCEPT ![r] = l]
    BY DEF ListSnapshot, Goto
  <1>3. /\ pc'[r] = "listPick" /\ loc'[r] = l
        /\ \A q \in Request \ {r} : pc'[q] = pc[q] /\ loc'[q] = loc[q]
    BY <1>2, LocSet DEF TypeInv, TypeOK
  <1>4. loc[r] \in Locals /\ loc[r].user \in User
    BY <1>2, LocalsAt DEF HasUser
  <1>5. l.todo = sessions[loc[r].user] /\ l.user = loc[r].user
    BY <1>4 DEF Locals
  <1> HIDE DEF l
  <1>6. \A f \in l.todo : owner'[f] = l.user /\ f \in opened'
    BY <1>1, <1>4, <1>5 DEF SessionInv, StoreOK, Store
  <1>7. LocalOK(r)' /\ pc'[r] \notin Creating
    BY <1>3, <1>5, <1>6 DEF LocalOK, HasFam, HasNew, Creating, Publishing, Going, RevokeAllLabel
  <1> QED BY <1>1, <1>3, <1>7, QuietStep

\* A turn of the loop: the session taken out of todo is the one being revoked.
LEMMA RevokeAllPickSafe ==
  ASSUME TypeInv, TypeInv', SessionInv, NEW r \in Request, RevokeAllPick(r)
  PROVE  SessionInv' /\ Grows
  <1>1. UNCHANGED Store
    BY DEF RevokeAllPick, Store, account, tokens, wire, history
  <1>2. pc[r] = "allPick"
    BY DEF RevokeAllPick, Goto
  <1>3. LocalOK(r) /\ loc[r] \in Locals
    BY <1>2, LocalsAt DEF SessionInv
  <1>4. PICK f \in loc[r].todo \ {loc[r].keep} :
          IF family[f] # Nil /\ family[f].user = loc[r].user
          THEN /\ Goto(r, "allPick", "allDel")
               /\ loc' = [loc EXCEPT ![r] =
                              [@ EXCEPT !.todo = loc[r].todo \ {f}, !.fam = f, !.old = family[f].latest]]
          ELSE /\ Goto(r, "allPick", "allStale")
               /\ loc' = [loc EXCEPT ![r] = [@ EXCEPT !.todo = loc[r].todo \ {f}, !.fam = f]]
    BY DEF RevokeAllPick
  <1>5. /\ pc'[r] \in {"allDel", "allStale"}
        /\ \A q \in Request \ {r} : pc'[q] = pc[q] /\ loc'[q] = loc[q]
    BY <1>4 DEF Goto, TypeInv, TypeOK
  <1>6. /\ loc'[r].todo = loc[r].todo \ {f} /\ loc'[r].fam = f
        /\ loc'[r].user = loc[r].user /\ loc'[r].ids = loc[r].ids /\ loc'[r].keep = loc[r].keep
    <2>1. \/ loc'[r] = [loc[r] EXCEPT !.todo = loc[r].todo \ {f}, !.fam = f, !.old = family[f].latest]
          \/ loc'[r] = [loc[r] EXCEPT !.todo = loc[r].todo \ {f}, !.fam = f]
      BY <1>4 DEF TypeInv, TypeOK
    <2>2. CASE loc'[r] = [loc[r] EXCEPT !.todo = loc[r].todo \ {f}, !.fam = f, !.old = family[f].latest]
      BY <1>3, <2>2 DEF Locals
    <2>3. CASE loc'[r] = [loc[r] EXCEPT !.todo = loc[r].todo \ {f}, !.fam = f]
      BY <1>3, <2>3 DEF Locals
    <2> QED BY <2>1, <2>2, <2>3
  <1>7. /\ \A g \in loc[r].todo : owner[g] = loc[r].user /\ g \in opened
        /\ \A g \in loc[r].ids : g \in loc[r].todo \cup {loc[r].keep} \/ g \in Ended
    BY <1>2, <1>3 DEF LocalOK, RevokeAllLabel, Going
  <1>8. \A g \in loc'[r].todo : owner'[g] = loc'[r].user /\ g \in opened'
    BY <1>1, <1>6, <1>7 DEF Store
  <1>9. \A g \in loc'[r].ids : g \in loc'[r].todo \cup {loc'[r].keep} \/ g \in Ended' \/ g = loc'[r].fam
    BY <1>1, <1>6, <1>7 DEF Store, Ended, Indexed
  <1>10. owner'[loc'[r].fam] = loc'[r].user /\ loc'[r].fam \in opened' /\ loc'[r].fam # loc'[r].keep
    BY <1>1, <1>4, <1>6, <1>7 DEF Store
  <1>11. LocalOK(r)' /\ pc'[r] \notin Creating
    BY <1>5, <1>8, <1>9, <1>10 DEF LocalOK, HasFam, HasNew, Creating, Publishing, Going, RevokeAllLabel
  <1> QED BY <1>1, <1>5, <1>11, QuietStep

\* A turn of the getSessions loop is about a session of the account.
LEMMA ListPickSafe ==
  ASSUME TypeInv, TypeInv', SessionInv, NEW r \in Request, ListPick(r)
  PROVE  SessionInv' /\ Grows
  <1>1. UNCHANGED Store
    BY DEF ListPick, Store, account, tokens, wire, history
  <1>2. pc[r] = "listPick"
    BY DEF ListPick, Goto
  <1>3. LocalOK(r) /\ loc[r] \in Locals
    BY <1>2, LocalsAt DEF SessionInv
  <1>4. PICK f \in loc[r].todo, next \in {"listPick", "listStale"} :
          /\ Goto(r, "listPick", next)
          /\ loc' = [loc EXCEPT ![r] = [@ EXCEPT !.todo = loc[r].todo \ {f}, !.fam = f]]
    BY DEF ListPick
  <1>5. /\ pc'[r] \in {"listPick", "listStale"}
        /\ \A q \in Request \ {r} : pc'[q] = pc[q] /\ loc'[q] = loc[q]
    BY <1>4 DEF Goto, TypeInv, TypeOK
  <1>6. loc'[r].todo = loc[r].todo \ {f} /\ loc'[r].fam = f /\ loc'[r].user = loc[r].user
    BY <1>3, <1>4 DEF Locals, TypeInv, TypeOK
  <1>7. \A g \in loc[r].todo : owner[g] = loc[r].user /\ g \in opened
    BY <1>2, <1>3 DEF LocalOK, RevokeAllLabel
  <1>8. \A g \in loc'[r].todo : owner'[g] = loc'[r].user /\ g \in opened'
    BY <1>1, <1>6, <1>7 DEF Store
  <1>9. owner'[loc'[r].fam] = loc'[r].user /\ loc'[r].fam \in opened'
    BY <1>1, <1>4, <1>6, <1>7 DEF Store
  <1>10. LocalOK(r)' /\ pc'[r] \notin Creating
    BY <1>5, <1>8, <1>9 DEF LocalOK, HasFam, HasNew, Creating, Publishing, Going, RevokeAllLabel
  <1> QED BY <1>1, <1>5, <1>10, QuietStep

\* The loops end.
LEMMA LoopDoneSafe ==
  ASSUME TypeInv, TypeInv', SessionInv, NEW r \in Request, RevokeAllDone(r) \/ ListDone(r)
  PROVE  SessionInv' /\ Grows
  <1>1. UNCHANGED Store
    BY DEF RevokeAllDone, ListDone, Store, account, tokens, wire, history
  <1>2. CASE Answer(r, "allPick") \/ Answer(r, "listPick")
    BY <1>1, <1>2, QuietAnswer
  <1>3. CASE ~(Answer(r, "allPick") \/ Answer(r, "listPick"))
    <2>1. Goto(r, "allPick", "allBump") /\ UNCHANGED loc
      BY <1>3 DEF RevokeAllDone, ListDone
    <2>2. /\ pc[r] = "allPick" /\ pc'[r] = "allBump" /\ UNCHANGED loc
          /\ \A q \in Request \ {r} : pc'[q] = pc[q]
      BY <2>1, Moved
    <2>3. LocalOK(r)
      BY DEF SessionInv
    <2>4. LocalOK(r)' /\ pc'[r] \notin Creating
      BY <1>1, <2>2, <2>3
      DEF LocalOK, HasFam, HasNew, Creating, Publishing, Going, RevokeAllLabel, Store, Ended, Indexed
    <2> QED BY <1>1, <2>2, <2>4, QuietStep
  <1> QED BY <1>2, <1>3

\* A step elsewhere, or none, keeps the invariant.
LEMMA ElsewhereSafe ==
  ASSUME TypeInv, TypeInv', SessionInv, UNCHANGED <<Store, pc, loc>>
  PROVE  SessionInv' /\ Grows
  <1>1. StoreOK' /\ Grows
    BY QuietStore, QuietGrows DEF SessionInv
  <1>2. \A q \in Request : LocalOK(q)'
    BY <1>1, OthersKeep DEF SessionInv, LocalOK, Store
  <1>3. CreatesDistinct'
    BY DEF SessionInv, CreatesDistinct
  <1> QED BY <1>1, <1>2, <1>3 DEF SessionInv

-----------------------------------------------------------------------------
(* Steps that delete keys                                                    *)

\* Deleting tokens, families or marks never disturbs what the rest agrees on.
LEMMA ForgetKeeps ==
  ASSUME TypeInv, SessionInv,
         \A t \in Token : rt'[t] \in {rt[t], Nil} /\ consumed'[t] \in {consumed[t], Nil},
         \A f \in Family : family'[f] \in {family[f], Nil},
         UNCHANGED <<sessions, cookies, access, revoked, owner, lineage, opened, tokenVersion>>
  PROVE  Grows /\ StoreOK'
  <1>1. StoreOK
    BY DEF SessionInv
  <1>2. Grows
    BY DEF Grows, Ended, Indexed, TypeInv, TypeOK
  <1>3. StoreOK'
    BY <1>1 DEF StoreOK, Ended, Indexed
  <1> QED BY <1>2, <1>3

\* DEL rt:<token> rt_family:<family> in reuse, logout, revoke and revoke-all
LEMMA DeleteFamilySafe ==
  ASSUME TypeInv, TypeInv', SessionInv, NEW r \in Request,
         ReuseDelete(r) \/ LogoutDelete(r) \/ RevokeDelete(r) \/ RevokeAllDelete(r)
  PROVE  SessionInv' /\ Grows
  <1>1. PICK at \in {"reuseDel", "logoutDel", "revokeDel", "allDel"},
             next \in {"reuseBump", "logoutUnindex", "revokeUnindex", "allUnindex"} :
          DeleteFamily(r, at, next) /\ (at = "allDel" <=> next = "allUnindex")
    BY DEF ReuseDelete, LogoutDelete, RevokeDelete, RevokeAllDelete
  <1>2. /\ pc[r] = at /\ pc'[r] = next /\ UNCHANGED loc
        /\ \A q \in Request \ {r} : pc'[q] = pc[q]
    BY <1>1, Moved DEF DeleteFamily
  <1>3. /\ \A t \in Token : rt'[t] \in {rt[t], Nil} /\ consumed'[t] \in {consumed[t], Nil}
        /\ \A f \in Family : family'[f] \in {family[f], Nil}
        /\ UNCHANGED <<sessions, cookies, access, revoked, owner, lineage, opened, tokenVersion>>
    BY <1>1 DEF DeleteFamily, TypeInv, TypeOK, account, wire, history
  <1>4. Grows /\ StoreOK'
    BY <1>3, ForgetKeeps
  <1>5. LocalOK(r)
    BY DEF SessionInv
  <1>6. LocalOK(r)' /\ pc'[r] \notin Creating
    <2>1. owner'[loc[r].fam] = loc[r].user /\ loc[r].fam \in opened'
      BY <1>1, <1>2, <1>3, <1>5 DEF LocalOK, HasFam, Creating
    <2>2. CASE pc[r] = "allDel" /\ pc'[r] = "allUnindex"
      BY <1>2, <1>3, <1>5, <2>1, <2>2
      DEF LocalOK, HasFam, HasNew, Creating, Publishing, Going, RevokeAllLabel, Ended, Indexed
    <2>3. CASE pc'[r] \in {"reuseBump", "logoutUnindex", "revokeUnindex"}
      BY <1>2, <2>1, <2>3
      DEF LocalOK, HasFam, HasNew, Creating, Publishing, Going, RevokeAllLabel
    <2> QED BY <1>1, <1>2, <2>2, <2>3
  <1>7. \A q \in Request : pc[q] \in Creating => loc[q].fam \notin opened'
    BY <1>3 DEF SessionInv, LocalOK
  <1> QED BY <1>2, <1>4, <1>6, <1>7, StepKeeps

\* DEL rt:<old token> in rotateToken (460)
LEMMA RotateDeleteSafe ==
  ASSUME TypeInv, TypeInv', SessionInv, NEW r \in Request, RotateDelete(r)
  PROVE  SessionInv' /\ Grows
  <1>1. /\ pc[r] = "refreshDel" /\ pc'[r] = "refreshMark" /\ UNCHANGED loc
        /\ \A q \in Request \ {r} : pc'[q] = pc[q]
    BY Moved DEF RotateDelete
  <1>2. /\ \A t \in Token : rt'[t] \in {rt[t], Nil} /\ consumed'[t] \in {consumed[t], Nil}
        /\ \A f \in Family : family'[f] \in {family[f], Nil}
        /\ UNCHANGED <<sessions, cookies, access, revoked, owner, lineage, opened, tokenVersion>>
    BY DEF RotateDelete, TypeInv, TypeOK, account, wire, history
  <1>3. Grows /\ StoreOK'
    BY <1>2, ForgetKeeps
  <1>4. LocalOK(r) /\ loc[r].old \in Token
    BY <1>1, LocalsAt DEF SessionInv, HasOld
  <1>5. rt'[loc[r].old] = Nil
    BY <1>4 DEF RotateDelete, TypeInv, TypeOK
  <1>6. LocalOK(r)' /\ pc'[r] \notin Creating
    BY <1>1, <1>2, <1>4, <1>5
    DEF LocalOK, HasFam, HasNew, Creating, Publishing, Going, RevokeAllLabel
  <1>7. \A q \in Request : pc[q] \in Creating => loc[q].fam \notin opened'
    BY <1>2 DEF SessionInv, LocalOK
  <1> QED BY <1>1, <1>3, <1>6, <1>7, StepKeeps

\* The TTL of a key runs out.
LEMMA ExpireSafe ==
  ASSUME TypeInv, TypeInv', SessionInv, Expire
  PROVE  SessionInv' /\ Grows
  <1>1. /\ \A t \in Token : rt'[t] \in {rt[t], Nil} /\ consumed'[t] \in {consumed[t], Nil}
        /\ \A f \in Family : family'[f] \in {family[f], Nil}
    BY DEF Expire, TypeInv, TypeOK, tokens
  <1>2. UNCHANGED <<sessions, cookies, access, revoked, owner, lineage, opened, tokenVersion, pc, loc>>
    BY DEF Expire, account, wire
  <1>3. Grows /\ StoreOK'
    BY <1>1, <1>2, ForgetKeeps
  <1>4. \A q \in Request : LocalOK(q)'
    BY <1>2, <1>3, OthersKeep DEF SessionInv, LocalOK
  <1>5. CreatesDistinct'
    BY <1>2 DEF SessionInv, CreatesDistinct
  <1> QED BY <1>3, <1>4, <1>5 DEF SessionInv

\* A token is marked as consumed only after it was deleted.
LEMMA RotateMarkConsumedSafe ==
  ASSUME TypeInv, TypeInv', SessionInv, NEW r \in Request, RotateMarkConsumed(r)
  PROVE  SessionInv' /\ Grows
  <1>1. /\ pc[r] = "refreshMark" /\ pc'[r] = "refreshStore" /\ UNCHANGED loc
        /\ \A q \in Request \ {r} : pc'[q] = pc[q]
    BY Moved DEF RotateMarkConsumed
  <1>2. UNCHANGED <<rt, family, sessions, cookies, access, revoked, owner, lineage, opened, tokenVersion>>
    BY DEF RotateMarkConsumed, account, wire, history
  <1>3. LocalOK(r) /\ StoreOK /\ loc[r].old \in Token /\ loc[r].fam \in Family
    BY <1>1, LocalsAt DEF SessionInv, HasOld, HasFam
  <1>4. lineage[loc[r].old] = loc[r].fam /\ rt[loc[r].old] = Nil
    BY <1>1, <1>3 DEF LocalOK
  <1>5. \A t \in Token : consumed'[t] # Nil => consumed'[t] = lineage[t] /\ rt[t] = Nil
    BY <1>3, <1>4 DEF RotateMarkConsumed, StoreOK, TypeInv, TypeOK
  <1>6. StoreOK'
    BY <1>2, <1>3, <1>5 DEF StoreOK, Ended, Indexed
  <1>7. Grows
    BY <1>2 DEF Grows, Ended, Indexed, TypeInv, TypeOK
  <1>8. LocalOK(r)' /\ pc'[r] \notin Creating
    BY <1>1, <1>2, <1>3
    DEF LocalOK, HasFam, HasNew, Creating, Publishing, Going, RevokeAllLabel
  <1>9. \A q \in Request : pc[q] \in Creating => loc[q].fam \notin opened'
    BY <1>2 DEF SessionInv, LocalOK
  <1> QED BY <1>1, <1>6, <1>7, <1>8, <1>9, StepKeeps

-----------------------------------------------------------------------------
(* Steps that end a session                                                  *)

\* SREM of a session: it has left the index, since only its own account's
\* entry could hold it.
LEMMA UnindexSafe ==
  ASSUME TypeInv, TypeInv', SessionInv, NEW r \in Request,
         \/ ReuseUnindex(r) \/ LogoutUnindex(r) \/ RevokeUnindex(r) \/ RevokeAllUnindex(r)
         \/ RevokeAllStale(r) \/ ListStale(r)
  PROVE  SessionInv' /\ Grows
  <1>1. PICK at \in {"reuseUnindex", "logoutUnindex", "revokeUnindex", "allUnindex", "allStale", "listStale"},
             next \in {"reusePublish", "logoutPublish", "revokePublish", "allPublish", "allPick", "listPick"} :
          /\ Unindex(r, at, next)
          /\ at \in {"allUnindex", "allStale"} <=> next \in {"allPublish", "allPick"}
          /\ at = "listStale" <=> next = "listPick"
    BY DEF ReuseUnindex, LogoutUnindex, RevokeUnindex, RevokeAllUnindex, RevokeAllStale, ListStale
  <1>2. /\ pc[r] = at /\ pc'[r] = next /\ UNCHANGED loc
        /\ \A q \in Request \ {r} : pc'[q] = pc[q]
    BY <1>1, Moved DEF Unindex
  <1>3. UNCHANGED <<rt, family, consumed, cookies, access, revoked, owner, lineage, opened, tokenVersion>>
    BY <1>1 DEF Unindex, account, tokens, wire, history
  <1>4. LocalOK(r) /\ StoreOK /\ loc[r].user \in User /\ loc[r].fam \in Family
    BY <1>2, LocalsAt DEF SessionInv, HasUser, HasFam, RevokeAllLabel
  <1>5. /\ \A u \in User : sessions'[u] \subseteq sessions[u]
        /\ loc[r].fam \notin sessions'[loc[r].user]
    BY <1>1, <1>4 DEF Unindex, TypeInv, TypeOK
  <1>6. owner[loc[r].fam] = loc[r].user /\ loc[r].fam \in opened
    BY <1>2, <1>4 DEF LocalOK, HasFam, Creating
  <1>7. loc[r].fam \notin Indexed'
    BY <1>4, <1>5, <1>6 DEF Indexed, StoreOK
  <1>8. Ended \subseteq Ended' /\ loc[r].fam \in Ended'
    BY <1>3, <1>5, <1>6, <1>7 DEF Ended, Indexed
  <1>9. StoreOK'
    BY <1>3, <1>4, <1>5, <1>8 DEF StoreOK
  <1>10. Grows
    BY <1>3, <1>8 DEF Grows, TypeInv, TypeOK
  <1>11. pc'[r] \in RevokeAllLabel =>
            \A f \in loc[r].ids : f \in loc[r].todo \cup {loc[r].keep} \/ f \in Ended'
    BY <1>1, <1>2, <1>4, <1>8 DEF LocalOK, RevokeAllLabel
  <1>12. pc'[r] \in RevokeAllLabel \cup {"listPick", "listStale"} =>
            \A f \in loc[r].todo : owner[f] = loc[r].user /\ f \in opened
    BY <1>1, <1>2, <1>4 DEF LocalOK, RevokeAllLabel
  <1>13. LocalOK(r)' /\ pc'[r] \notin Creating
    BY <1>2, <1>3, <1>6, <1>7, <1>11, <1>12
    DEF LocalOK, HasFam, HasNew, Creating, Publishing, Going
  <1>14. \A q \in Request : pc[q] \in Creating => loc[q].fam \notin opened'
    BY <1>3 DEF SessionInv, LocalOK
  <1> QED BY <1>2, <1>9, <1>10, <1>13, <1>14, StepKeeps

\* The end of a session is announced after the session left the index.
LEMMA PublishSafe ==
  ASSUME TypeInv, TypeInv', SessionInv, NEW r \in Request,
         ReusePublish(r) \/ LogoutPublish(r) \/ RevokePublish(r) \/ RevokeAllPublish(r)
  PROVE  SessionInv' /\ Grows
  <1>1. /\ pc[r] \in Publishing
        /\ pc'[r] = "idle" \/ (pc[r] = "allPublish" /\ pc'[r] = "allPick" /\ loc'[r] = loc[r])
        /\ \A q \in Request \ {r} : pc'[q] = pc[q] /\ loc'[q] = loc[q]
    BY Answered, Moved DEF PublishSessionRevoked, ReusePublish, LogoutPublish, RevokePublish, RevokeAllPublish, Publishing
  <1>2. /\ UNCHANGED <<rt, family, consumed, sessions, cookies, access, owner, lineage, opened, tokenVersion>>
        /\ revoked' \subseteq revoked \cup {loc[r].fam}
    BY DEF ReusePublish, LogoutPublish, RevokePublish, RevokeAllPublish, PublishSessionRevoked,
           account, tokens, history
  <1>3. LocalOK(r) /\ StoreOK
    BY DEF SessionInv
  <1>4. loc[r].fam \in Ended
    BY <1>1, <1>3 DEF LocalOK, Ended, HasFam, Creating, Publishing
  <1>5. StoreOK'
    BY <1>2, <1>3, <1>4 DEF StoreOK, Ended, Indexed
  <1>6. Grows
    BY <1>2 DEF Grows, Ended, Indexed, TypeInv, TypeOK
  <1>7. LocalOK(r)' /\ pc'[r] \notin Creating
    <2>1. CASE pc'[r] = "idle"
      BY <2>1, IdleOK
    <2>2. CASE pc[r] = "allPublish" /\ pc'[r] = "allPick" /\ loc'[r] = loc[r]
      BY <1>2, <1>3, <2>2
      DEF LocalOK, HasFam, HasNew, Creating, Publishing, Going, RevokeAllLabel, Ended, Indexed
    <2> QED BY <1>1, <2>1, <2>2
  <1>8. \A q \in Request : pc[q] \in Creating => loc[q].fam \notin opened'
    BY <1>2 DEF SessionInv, LocalOK
  <1> QED BY <1>1, <1>5, <1>6, <1>7, <1>8, StepKeeps

\* The token version of an account grows, so no access token becomes valid.
LEMMA BumpSafe ==
  ASSUME TypeInv, TypeInv', SessionInv, NEW r \in Request, ReuseBump(r) \/ RevokeAllBump(r)
  PROVE  SessionInv' /\ Grows
  <1>1. /\ pc'[r] = "idle" \/ (pc[r] = "reuseBump" /\ pc'[r] = "reuseUnindex" /\ loc'[r] = loc[r])
        /\ \A q \in Request \ {r} : pc'[q] = pc[q] /\ loc'[q] = loc[q]
    BY Answered, Moved, LocSet DEF ReuseBump, RevokeAllBump
  <1>2. UNCHANGED <<rt, family, consumed, sessions, cookies, access, revoked, owner, lineage, opened>>
    BY DEF ReuseBump, RevokeAllBump, tokens, wire, history
  <1>3. \A u \in User : tokenVersion[u] <= tokenVersion'[u] /\ tokenVersion[u] \in Nat /\ tokenVersion'[u] \in Nat
    <2>1. tokenVersion \in [User -> Nat]
      BY DEF TypeInv, TypeOK
    <2>2. \A u \in User : tokenVersion'[u] = tokenVersion[u] + 1 \/ tokenVersion'[u] = tokenVersion[u]
      BY <2>1 DEF ReuseBump, RevokeAllBump, IncrementTokenVersion
    <2> QED BY <2>1, <2>2
  <1>4. LocalOK(r) /\ StoreOK
    BY DEF SessionInv
  <1>5. \A a \in access : a.ver <= tokenVersion'[a.user]
    <2> TAKE a \in access
    <2>1. a.user \in User /\ a.ver \in Nat /\ a.ver <= tokenVersion[a.user]
      BY <1>4 DEF StoreOK, TypeInv, TypeOK, AccessJwt
    <2> QED BY <1>3, <2>1
  <1>6. StoreOK'
    BY <1>2, <1>4, <1>5 DEF StoreOK, Ended, Indexed
  <1>7. Grows
    BY <1>2, <1>3 DEF Grows, Ended, Indexed, TypeInv, TypeOK
  <1>8. LocalOK(r)' /\ pc'[r] \notin Creating
    <2>1. CASE pc'[r] = "idle"
      BY <2>1, IdleOK
    <2>2. CASE pc[r] = "reuseBump" /\ pc'[r] = "reuseUnindex" /\ loc'[r] = loc[r]
      BY <1>2, <1>4, <2>2
      DEF LocalOK, HasFam, HasNew, Creating, Publishing, Going, RevokeAllLabel
    <2> QED BY <1>1, <2>1, <2>2
  <1>9. \A q \in Request : pc[q] \in Creating => loc[q].fam \notin opened'
    BY <1>2 DEF SessionInv, LocalOK
  <1> QED BY <1>1, <1>6, <1>7, <1>8, <1>9, StepKeeps

-----------------------------------------------------------------------------
(* Steps that create sessions and tokens                                     *)

\* A new token and a new session: nothing refers to either yet.
LEMMA LoginStoreTokenSafe ==
  ASSUME TypeInv, TypeInv', SessionInv, NEW r \in Request, LoginStoreToken(r)
  PROVE  SessionInv' /\ Grows
  <1>1. PICK t \in Token, f \in Family :
          /\ lineage[t] = Nil /\ owner[f] = Nil
          /\ rt' = [rt EXCEPT ![t] = [user |-> loc[r].user, fam |-> f]]
          /\ loc' = [loc EXCEPT ![r] = [@ EXCEPT !.fam = f, !.new = t]]
          /\ lineage' = [lineage EXCEPT ![t] = f]
          /\ owner' = [owner EXCEPT ![f] = loc[r].user]
    BY DEF LoginStoreToken
  <1>2. /\ pc[r] = "loginToken" /\ pc'[r] = "loginFamily"
        /\ \A q \in Request \ {r} : pc'[q] = pc[q] /\ loc'[q] = loc[q]
    BY <1>1, Moved DEF LoginStoreToken, TypeInv, TypeOK
  <1>3. UNCHANGED <<family, consumed, sessions, cookies, access, revoked, opened, tokenVersion>>
    BY DEF LoginStoreToken, account, wire
  <1>4. StoreOK /\ loc[r] \in Locals /\ loc[r].user \in User
    BY <1>2, LocalsAt DEF SessionInv, HasUser
  <1> DEFINE l == [loc[r] EXCEPT !.fam = f, !.new = t]
  <1>5. l.fam = f /\ l.new = t /\ l.user = loc[r].user
    BY <1>4 DEF Locals
  <1>6. loc'[r] = l
    BY <1>1 DEF TypeInv, TypeOK
  <1> HIDE DEF l
  <1>7. Nil \notin User /\ Nil \notin Family
    BY NilAssumption
  <1>8. /\ \A s \in Token : s # t => rt'[s] = rt[s] /\ lineage'[s] = lineage[s]
        /\ \A g \in Family : g # f => owner'[g] = owner[g]
        /\ rt'[t] = [user |-> loc[r].user, fam |-> f] /\ lineage'[t] = f /\ owner'[f] = loc[r].user
    BY <1>1 DEF TypeInv, TypeOK
  <1>9. f \notin opened /\ \A u \in User : f \notin sessions[u]
    BY <1>1, <1>4, <1>7 DEF StoreOK
  <1>10. Grows
    BY <1>1, <1>3, <1>8 DEF Grows, Ended, Indexed, TypeInv, TypeOK
  <1>11. \A s \in Token : rt'[s] # Nil => lineage'[s] = rt'[s].fam /\ owner'[rt'[s].fam] = rt'[s].user
    <2> TAKE s \in Token
    <2>1. CASE s = t
      BY <1>8, <2>1
    <2>2. CASE s # t
      <3>1. rt[s] # Nil => rt[s] \in RefreshData
        BY DEF TypeInv, TypeOK
      <3>2. rt[s] # Nil => owner[rt[s].fam] # Nil
        BY <1>4, <1>7, <3>1 DEF StoreOK, RefreshData
      <3> QED BY <1>1, <1>4, <1>8, <2>2, <3>1, <3>2 DEF StoreOK, RefreshData
    <2> QED BY <2>1, <2>2
  <1>12. \A g \in Family : family'[g] # Nil => owner'[g] = family'[g].user /\ lineage'[family'[g].latest] = g
    <2> TAKE g \in Family
    <2>1. family[g] # Nil => family[g].user \in User /\ family[g].latest \in Token
      BY DEF TypeInv, TypeOK, FamilyData
    <2>2. family[g] # Nil => g # f /\ family[g].latest # t
      BY <1>1, <1>4, <1>7, <2>1 DEF StoreOK
    <2> QED BY <1>3, <1>4, <1>8, <2>1, <2>2 DEF StoreOK
  <1>13. \A s \in Token : consumed'[s] # Nil => consumed'[s] = lineage'[s] /\ rt'[s] = Nil
    <2> TAKE s \in Token
    <2>1. consumed[t] = Nil
      BY <1>1, <1>4 DEF StoreOK
    <2> QED BY <1>3, <1>4, <1>8, <2>1 DEF StoreOK
  <1>14. \A a \in access : owner'[a.fam] = a.user
    <2> TAKE a \in access
    <2>1. a.fam \in opened /\ owner[a.fam] = a.user /\ a.fam \in Family
      BY <1>4 DEF StoreOK, TypeInv, TypeOK, AccessJwt
    <2> QED BY <1>8, <1>9, <2>1
  <1>15. \A s \in cookies : lineage'[s] \in opened
    <2> TAKE s \in cookies
    <2>1. s \in Token /\ lineage[s] \in Family
      BY <1>4 DEF StoreOK, TypeInv, TypeOK
    <2> QED BY <1>1, <1>4, <1>7, <1>8, <2>1 DEF StoreOK
  <1>16. \A s \in Token : lineage'[s] # Nil => owner'[lineage'[s]] # Nil
    BY <1>1, <1>4, <1>7, <1>8 DEF StoreOK, TypeInv, TypeOK
  <1>17. StoreOK'
    <2>1. \A u \in User : \A g \in sessions'[u] : owner'[g] = u /\ g \in opened'
      BY <1>3, <1>4, <1>8, <1>9 DEF StoreOK, TypeInv, TypeOK
    <2>2. \A g \in opened' : owner'[g] # Nil
      BY <1>3, <1>4, <1>8, <1>9 DEF StoreOK, TypeInv, TypeOK
    <2>3. revoked' \subseteq Ended'
      BY <1>3, <1>4 DEF StoreOK, Ended, Indexed
    <2>4. \A a \in access' : owner'[a.fam] = a.user /\ a.fam \in opened' /\ a.ver <= tokenVersion'[a.user]
      BY <1>3, <1>4, <1>14 DEF StoreOK
    <2>5. \A s \in cookies' : lineage'[s] \in opened'
      BY <1>3, <1>15
    <2> QED BY <1>11, <1>12, <1>13, <1>16, <2>1, <2>2, <2>3, <2>4, <2>5 DEF StoreOK
  <1>18. LocalOK(r)'
    BY <1>2, <1>3, <1>5, <1>6, <1>8, <1>9
    DEF LocalOK, HasFam, HasNew, Creating, Publishing, Going, RevokeAllLabel
  <1>19. \A q \in Request \ {r} : pc[q] \in Creating => loc[q].fam \notin opened' /\ loc[q].fam # loc'[r].fam
    <2> TAKE q \in Request \ {r}
    <2>1. pc[q] \in Creating => owner[loc[q].fam] # Nil
      BY Owned DEF HasFam, Creating
    <2> QED BY <1>1, <1>3, <1>5, <1>6, <2>1 DEF SessionInv, LocalOK
  <1> QED BY <1>2, <1>10, <1>17, <1>18, <1>19, StepKeeps

\* rt_family:<family> names the account of the session and a token of it.
LEMMA LoginStoreFamilySafe ==
  ASSUME TypeInv, TypeInv', SessionInv, NEW r \in Request, LoginStoreFamily(r)
  PROVE  SessionInv' /\ Grows
  <1>1. /\ pc[r] = "loginFamily" /\ pc'[r] = "loginIndex" /\ UNCHANGED loc
        /\ \A q \in Request \ {r} : pc'[q] = pc[q]
    BY Moved DEF LoginStoreFamily
  <1>2. UNCHANGED <<rt, consumed, sessions, cookies, access, revoked, owner, lineage, opened, tokenVersion>>
    BY DEF LoginStoreFamily, account, wire, history
  <1>3. LocalOK(r) /\ StoreOK /\ loc[r].fam \in Family
    BY <1>1, LocalsAt DEF SessionInv, HasFam
  <1>4. owner[loc[r].fam] = loc[r].user /\ lineage[loc[r].new] = loc[r].fam
    BY <1>1, <1>3 DEF LocalOK, HasFam, HasNew
  <1>5. \A g \in Family : family'[g] # Nil => owner[g] = family'[g].user /\ lineage[family'[g].latest] = g
    BY <1>3, <1>4 DEF LoginStoreFamily, StoreOK, TypeInv, TypeOK
  <1>6. StoreOK'
    BY <1>2, <1>3, <1>5 DEF StoreOK, Ended, Indexed
  <1>7. Grows
    BY <1>2 DEF Grows, Ended, Indexed, TypeInv, TypeOK
  <1>8. LocalOK(r)'
    BY <1>1, <1>2, <1>3
    DEF LocalOK, HasFam, HasNew, Creating, Publishing, Going, RevokeAllLabel
  <1>9. \A q \in Request \ {r} : pc[q] \in Creating => loc[q].fam \notin opened' /\ loc[q].fam # loc'[r].fam
    BY <1>1, <1>2 DEF SessionInv, LocalOK, CreatesDistinct, Creating
  <1> QED BY <1>1, <1>6, <1>7, <1>8, <1>9, StepKeeps

\* The session enters the index, where it never was.
LEMMA LoginIndexSafe ==
  ASSUME TypeInv, TypeInv', SessionInv, NEW r \in Request, LoginIndex(r)
  PROVE  SessionInv' /\ Grows
  <1>1. /\ pc[r] = "loginIndex" /\ pc'[r] = "loginSign" /\ UNCHANGED loc
        /\ \A q \in Request \ {r} : pc'[q] = pc[q]
    BY Moved DEF LoginIndex
  <1>2. UNCHANGED <<rt, family, consumed, cookies, access, revoked, owner, lineage, tokenVersion>>
    BY DEF LoginIndex, account, tokens, wire
  <1>3. LocalOK(r) /\ StoreOK /\ loc[r].fam \in Family /\ loc[r].user \in User
    BY <1>1, LocalsAt DEF SessionInv, HasFam, HasUser
  <1>4. owner[loc[r].fam] = loc[r].user /\ lineage[loc[r].new] = loc[r].fam /\ loc[r].fam \notin opened
    BY <1>1, <1>3 DEF LocalOK, HasFam, HasNew, Creating
  <1>5. /\ opened' = opened \cup {loc[r].fam}
        /\ \A u \in User : sessions'[u] = sessions[u] \/ (u = loc[r].user /\ sessions'[u] = sessions[u] \cup {loc[r].fam})
    BY DEF LoginIndex, TypeInv, TypeOK
  <1>6. Ended \subseteq Ended'
    BY <1>4, <1>5 DEF Ended, Indexed
  <1>7. owner[loc[r].fam] # Nil
    BY <1>3, <1>4, NilAssumption
  <1>8. StoreOK'
    <2>1. \A u \in User : \A g \in sessions'[u] : owner[g] = u /\ g \in opened'
      BY <1>3, <1>4, <1>5 DEF StoreOK
    <2> QED BY <1>2, <1>3, <1>5, <1>6, <1>7, <2>1 DEF StoreOK
  <1>9. Grows
    BY <1>2, <1>5, <1>6 DEF Grows, TypeInv, TypeOK
  <1>10. LocalOK(r)' /\ pc'[r] \notin Creating
    BY <1>1, <1>2, <1>3, <1>4, <1>5
    DEF LocalOK, HasFam, HasNew, Creating, Publishing, Going, RevokeAllLabel
  <1>11. \A q \in Request \ {r} : pc[q] \in Creating => loc[q].fam \notin opened'
    BY <1>1, <1>5 DEF SessionInv, LocalOK, CreatesDistinct, Creating
  <1> QED BY <1>1, <1>8, <1>9, <1>10, <1>11, StepKeeps

\* A response carries a token of an indexed session and a version no newer
\* than the account's: LoginSign and the end of rotateToken.
LEMMA DeliverSafe ==
  ASSUME TypeInv, TypeInv', SessionInv, NEW r \in Request, LoginSign(r) \/ RotateStoreFamily(r)
  PROVE  SessionInv' /\ Grows
  <1>1. /\ pc[r] \in {"loginSign", "refreshFamily"} /\ pc'[r] = "idle"
        /\ \A q \in Request \ {r} : pc'[q] = pc[q] /\ loc'[q] = loc[q]
    BY Answered DEF LoginSign, RotateStoreFamily
  <1>2. UNCHANGED <<rt, consumed, sessions, revoked, owner, lineage, opened, tokenVersion>>
    BY DEF LoginSign, RotateStoreFamily, account, tokens, history
  <1>3. LocalOK(r) /\ StoreOK /\ loc[r] \in Locals /\ loc[r].fam \in Family /\ loc[r].user \in User
    BY <1>1, LocalsAt DEF SessionInv, HasFam, HasUser
  <1>4. /\ owner[loc[r].fam] = loc[r].user /\ lineage[loc[r].new] = loc[r].fam /\ loc[r].fam \in opened
        /\ pc[r] = "refreshFamily" => loc[r].ver <= tokenVersion[loc[r].user]
    BY <1>1, <1>3 DEF LocalOK, HasFam, HasNew, Creating
  <1>5. PICK v : Deliver(r, v) /\ v <= tokenVersion[loc[r].user]
    <2>1. CASE LoginSign(r)
      <3>1. tokenVersion[loc[r].user] <= tokenVersion[loc[r].user]
        BY <1>3 DEF TypeInv, TypeOK
      <3> QED BY <2>1, <3>1 DEF LoginSign
    <2>2. CASE RotateStoreFamily(r)
      <3>1. pc[r] = "refreshFamily"
        BY <2>2 DEF RotateStoreFamily, Answer, Goto
      <3> QED BY <1>4, <2>2, <3>1 DEF RotateStoreFamily
    <2> QED BY <2>1, <2>2
  <1>6. \A a \in access' : owner[a.fam] = a.user /\ a.fam \in opened /\ a.ver <= tokenVersion[a.user]
    BY <1>3, <1>4, <1>5 DEF Deliver, StoreOK
  <1>7. \A t \in cookies' : lineage[t] \in opened
    BY <1>3, <1>4, <1>5 DEF Deliver, StoreOK
  <1>8. \A g \in Family : family'[g] # Nil => owner[g] = family'[g].user /\ lineage[family'[g].latest] = g
    <2>1. CASE LoginSign(r)
      BY <1>3, <2>1 DEF LoginSign, tokens, StoreOK
    <2>2. CASE RotateStoreFamily(r)
      BY <1>3, <1>4, <2>2 DEF RotateStoreFamily, StoreOK, TypeInv, TypeOK
    <2> QED BY <2>1, <2>2
  <1>9. StoreOK'
    BY <1>2, <1>3, <1>6, <1>7, <1>8 DEF StoreOK, Ended, Indexed
  <1>10. Grows
    BY <1>2 DEF Grows, Ended, Indexed, TypeInv, TypeOK
  <1>11. LocalOK(r)' /\ pc'[r] \notin Creating
    BY <1>1, IdleOK
  <1>12. \A q \in Request : pc[q] \in Creating => loc[q].fam \notin opened'
    BY <1>2 DEF SessionInv, LocalOK
  <1> QED BY <1>1, <1>9, <1>10, <1>11, <1>12, StepKeeps

\* A rotation draws a token nobody holds and no mark names.
LEMMA RotateStoreTokenSafe ==
  ASSUME TypeInv, TypeInv', SessionInv, NEW r \in Request, RotateStoreToken(r)
  PROVE  SessionInv' /\ Grows
  <1>1. PICK t \in Token :
          /\ lineage[t] = Nil
          /\ rt' = [rt EXCEPT ![t] = [user |-> loc[r].user, fam |-> loc[r].fam]]
          /\ loc' = [loc EXCEPT ![r] = [@ EXCEPT !.new = t]]
          /\ lineage' = [lineage EXCEPT ![t] = loc[r].fam]
    BY DEF RotateStoreToken
  <1>2. /\ pc[r] = "refreshStore" /\ pc'[r] = "refreshFamily"
        /\ \A q \in Request \ {r} : pc'[q] = pc[q] /\ loc'[q] = loc[q]
    BY <1>1, Moved DEF RotateStoreToken, TypeInv, TypeOK
  <1>3. UNCHANGED <<family, consumed, sessions, cookies, access, revoked, owner, opened, tokenVersion>>
    BY DEF RotateStoreToken, account, wire
  <1>4. LocalOK(r) /\ StoreOK /\ loc[r] \in Locals /\ loc[r].user \in User /\ loc[r].fam \in Family
    BY <1>2, LocalsAt DEF SessionInv, HasUser, HasFam
  <1> DEFINE l == [loc[r] EXCEPT !.new = t]
  <1>5. l.fam = loc[r].fam /\ l.new = t /\ l.user = loc[r].user /\ l.ver = loc[r].ver
    BY <1>4 DEF Locals
  <1>6. loc'[r] = l
    BY <1>1 DEF TypeInv, TypeOK
  <1> HIDE DEF l
  <1>7. /\ \A s \in Token : s # t => rt'[s] = rt[s] /\ lineage'[s] = lineage[s]
        /\ rt'[t] = [user |-> loc[r].user, fam |-> loc[r].fam] /\ lineage'[t] = loc[r].fam
    BY <1>1 DEF TypeInv, TypeOK
  <1>8. /\ owner[loc[r].fam] = loc[r].user /\ loc[r].fam \in opened /\ loc[r].ver <= tokenVersion[loc[r].user]
        /\ owner[loc[r].fam] # Nil
    BY <1>2, <1>4, NilAssumption DEF LocalOK, HasFam, Creating
  <1>9. Grows
    BY <1>1, <1>3, <1>7 DEF Grows, Ended, Indexed, TypeInv, TypeOK
  <1>10. \A s \in Token : rt'[s] # Nil => lineage'[s] = rt'[s].fam /\ owner'[rt'[s].fam] = rt'[s].user
    BY <1>3, <1>4, <1>7, <1>8 DEF StoreOK
  <1>11. \A g \in Family : family'[g] # Nil => owner'[g] = family'[g].user /\ lineage'[family'[g].latest] = g
    <2> TAKE g \in Family
    <2>1. family[g] # Nil => family[g].latest \in Token
      BY DEF TypeInv, TypeOK, FamilyData
    <2>2. family[g] # Nil => family[g].latest # t
      BY <1>1, <1>4, NilAssumption DEF StoreOK
    <2> QED BY <1>3, <1>4, <1>7, <2>1, <2>2 DEF StoreOK
  <1>12. \A s \in Token : consumed'[s] # Nil => consumed'[s] = lineage'[s] /\ rt'[s] = Nil
    <2> TAKE s \in Token
    <2>1. consumed[t] = Nil
      BY <1>1, <1>4 DEF StoreOK
    <2> QED BY <1>3, <1>4, <1>7, <2>1 DEF StoreOK
  <1>13. \A s \in cookies' : lineage'[s] \in opened'
    BY <1>3, <1>4, <1>7, <1>8 DEF StoreOK, TypeInv, TypeOK
  <1>14. \A s \in Token : lineage'[s] # Nil => owner'[lineage'[s]] # Nil
    BY <1>3, <1>4, <1>7, <1>8 DEF StoreOK
  <1>15. revoked' \subseteq Ended'
    BY <1>3, <1>4 DEF StoreOK, Ended, Indexed
  <1>16. StoreOK'
    BY <1>3, <1>4, <1>10, <1>11, <1>12, <1>13, <1>14, <1>15 DEF StoreOK
  <1>17. LocalOK(r)' /\ pc'[r] \notin Creating
    BY <1>2, <1>3, <1>5, <1>6, <1>7, <1>8
    DEF LocalOK, HasFam, HasNew, Creating, Publishing, Going, RevokeAllLabel
  <1>18. \A q \in Request : pc[q] \in Creating => loc[q].fam \notin opened'
    BY <1>3 DEF SessionInv, LocalOK
  <1> QED BY <1>2, <1>9, <1>16, <1>17, <1>18, StepKeeps

-----------------------------------------------------------------------------
(* The invariant is inductive                                                *)

\* No session exists at first.
LEMMA SessionInit == Init => SessionInv
  <1> SUFFICES ASSUME Init PROVE SessionInv
    OBVIOUS
  <1>1. StoreOK
    BY DEF Init, StoreOK
  <1>2. \A r \in Request : LocalOK(r)
    BY DEF Init, LocalOK, HasFam, HasNew, Creating, Publishing, Going, RevokeAllLabel
  <1>3. CreatesDistinct
    BY DEF Init, CreatesDistinct, Creating
  <1> QED BY <1>1, <1>2, <1>3 DEF SessionInv

\* Every step keeps the invariant and undoes nothing.
LEMMA SessionStep ==
  ASSUME TypeInv, SessionInv, [Next]_vars
  PROVE  SessionInv' /\ Grows
  <1>1. TypeInv'
    BY TypeStep
  <1>2. ASSUME NEW r \in Request, Call(r) PROVE SessionInv' /\ Grows
    BY <1>1, <1>2, LoginCheckSafe, RefreshLookupSafe, LogoutLookupSafe, RevokeEnterSafe, LoopEnterSafe,
       ResetLookupSafe DEF Call
  <1>3. ASSUME NEW r \in Request, Continue(r) PROVE SessionInv' /\ Grows
    BY <1>1, <1>3, LoginStoreTokenSafe, LoginStoreFamilySafe, LoginIndexSafe, DeliverSafe,
       RotateReadUserSafe, RotateDeleteSafe, RotateMarkConsumedSafe, RotateStoreTokenSafe,
       ReuseReadMarkSafe, ReuseReadFamilySafe, DeleteFamilySafe, BumpSafe, UnindexSafe, PublishSafe,
       RevokeLookupSafe, RevokeAllSnapshotSafe, RevokeAllPickSafe, LoopDoneSafe, AccountStepSafe,
       ListSnapshotSafe, ListPickSafe DEF Continue
  <1>4. ASSUME NEW r \in Request, Abort(r) PROVE SessionInv' /\ Grows
    <2>1. UNCHANGED Store /\ Answer(r, pc[r])
      BY <1>4 DEF Abort, Store, account, tokens, wire
    <2> QED BY <1>1, <2>1, QuietAnswer
  <1>5. ASSUME NEW u \in User, SetActive(u) \/ \E k \in ResetKey : ForgotPassword(u, k)
        PROVE SessionInv' /\ Grows
    <2>1. UNCHANGED <<Store, pc, loc>>
      BY <1>5 DEF SetActive, ForgotPassword, Store, account, tokens, wire, history
    <2> QED BY <1>1, <2>1, ElsewhereSafe
  <1>6. CASE Expire
    BY <1>1, <1>6, ExpireSafe
  <1>7. CASE UNCHANGED vars
    <2>1. UNCHANGED <<Store, pc, loc>>
      BY <1>7 DEF vars, Store, account, tokens, wire, history
    <2> QED BY <1>1, <2>1, ElsewhereSafe
  <1> QED BY <1>2, <1>3, <1>4, <1>5, <1>6, <1>7 DEF Next

\* The locals of every request in flight agree with Redis and with the history.
THEOREM SessionsConsistent == Spec => [](TypeInv /\ SessionInv)
  <1>1. Init => TypeInv /\ SessionInv
    BY TypeInit, SessionInit
  <1>2. TypeInv /\ SessionInv /\ [Next]_vars => (TypeInv /\ SessionInv)'
    BY TypeStep, SessionStep
  <1> QED BY <1>1, <1>2, PTL DEF Spec

-----------------------------------------------------------------------------
(* What it implies                                                           *)

\* A refresh token marked as consumed is never live again.
THEOREM ConsumedStaysDead == Spec => []ConsumedIsDead
  <1>1. SessionInv => ConsumedIsDead
    BY DEF SessionInv, StoreOK, ConsumedIsDead
  <1> QED BY <1>1, SessionsConsistent, PTL

\* Every record of a session names the account it was created for, and only
\* tokens of that session.
THEOREM SessionsKeepTheirAccount == Spec => []OneAccountPerSession
  <1>1. TypeInv /\ SessionInv => OneAccountPerSession
    BY DEF SessionInv, StoreOK, OneAccountPerSession
  <1> QED BY <1>1, SessionsConsistent, PTL

\* No client holds a token of a session that was not put in the index first.
THEOREM HeldSessionsAreRevocable == Spec => []HeldSessionsWereIndexed
  <1>1. SessionInv => HeldSessionsWereIndexed
    BY DEF SessionInv, StoreOK, HeldSessionsWereIndexed
  <1> QED BY <1>1, SessionsConsistent, PTL

\* revokeAllSessions removes every session it read but the current one, and
\* never the current one, whatever runs at its awaits.
THEOREM RevokeAllRemovesItsSnapshot == Spec => []RevokeAllIsExact
  <1>1. ASSUME TypeInv, SessionInv, NEW r \in Request, pc[r] \in RevokeAllLabel
        PROVE  LET l     == loc[r]
                   going == IF pc[r] \in {"allDel", "allUnindex", "allStale"} THEN {l.fam} ELSE {}
               IN  /\ (l.ids \ (l.todo \cup {l.keep} \cup going)) \cap sessions[l.user] = {}
                   /\ l.keep \notin going
    <2>1. LocalOK(r) /\ loc[r].user \in User
      BY <1>1, LocalsAt DEF SessionInv, HasUser
    <2>2. \A f \in Ended : f \notin sessions[loc[r].user]
      BY <2>1 DEF Ended, Indexed
    <2>3. \A f \in loc[r].ids : \/ f \in loc[r].todo \cup {loc[r].keep} \/ f \in Ended
                                \/ pc[r] \in Going /\ f = loc[r].fam
      BY <1>1, <2>1 DEF LocalOK
    <2>4. pc[r] \in Going => loc[r].fam # loc[r].keep
      BY <2>1 DEF LocalOK
    <2> QED BY <2>2, <2>3, <2>4 DEF Going
  <1>2. TypeInv /\ SessionInv => RevokeAllIsExact
    BY <1>1 DEF RevokeAllIsExact
  <1> QED BY <1>2, SessionsConsistent, PTL

\* A step does not make a refused access token acceptable: versions only grow and
\* a session does not return to the index.
LEMMA StaleStep ==
  ASSUME TypeInv, SessionInv, [Next]_vars, NEW a \in access, Stale(a)
  PROVE  Stale(a)'
  <1>1. Grows /\ SessionInv' /\ TypeInv' /\ StoreOK
    BY SessionStep, TypeStep DEF SessionInv
  <1>2. /\ a.user \in User /\ a.fam \in opened /\ a.ver \in Nat /\ a.ver <= tokenVersion[a.user]
        /\ owner[a.fam] = a.user
    BY <1>1 DEF StoreOK, TypeInv, TypeOK, AccessJwt
  <1>3. CASE tokenVersion[a.user] # a.ver
    <2>1. tokenVersion[a.user] \in Nat /\ tokenVersion'[a.user] \in Nat
      BY <1>1, <1>2 DEF TypeInv, TypeOK
    <2>2. tokenVersion[a.user] <= tokenVersion'[a.user]
      BY <1>1, <1>2 DEF Grows
    <2>3. tokenVersion'[a.user] # a.ver
      BY <1>2, <1>3, <2>1, <2>2
    <2> QED BY <2>3 DEF Stale
  <1>4. CASE a.fam \notin sessions[a.user]
    <2>1. a.fam \in Ended
      BY <1>1, <1>2, <1>4 DEF Ended, Indexed, StoreOK
    <2>2. a.fam \notin sessions'[a.user]
      BY <1>1, <1>2, <2>1 DEF Grows, Ended, Indexed
    <2> QED BY <2>2 DEF Stale
  <1> QED BY <1>3, <1>4 DEF Stale

\* An access token the guard refuses for its version or its session is refused
\* for ever.
THEOREM RejectedForEver == Spec => RejectionIsFinal
  <1>1. TypeInv /\ SessionInv /\ [Next]_vars => [\A a \in access : Stale(a) => Stale(a)']_vars
    BY StaleStep
  <1> QED BY <1>1, SessionsConsistent, PTL DEF Spec, RejectionIsFinal

-----------------------------------------------------------------------------
(* AuthSessions implements SessionLife                                       *)

\* What one step can do to the index, its history and the announcements
LEMMA IndexMoves ==
  ASSUME TypeInv, SessionInv, [Next]_vars
  PROVE  \/ UNCHANGED <<sessions, opened, revoked>>
         \/ \E f \in Family : /\ f \notin opened /\ opened' = opened \cup {f}
                              /\ Indexed' = Indexed \cup {f} /\ UNCHANGED revoked
         \/ \E f \in Family : Indexed' = Indexed \ {f} /\ UNCHANGED <<opened, revoked>>
         \/ \E f \in Ended : revoked' = revoked \cup {f} /\ UNCHANGED <<sessions, opened>>
  <1>1. ASSUME NEW r \in Request, LoginIndex(r)
        PROVE \E f \in Family : /\ f \notin opened /\ opened' = opened \cup {f}
                                /\ Indexed' = Indexed \cup {f} /\ UNCHANGED revoked
    <2>1. pc[r] = "loginIndex" /\ LocalOK(r) /\ loc[r].fam \in Family /\ loc[r].user \in User
      BY <1>1, LocalsAt DEF LoginIndex, Goto, SessionInv, HasFam, HasUser
    <2>2. loc[r].fam \notin opened
      BY <2>1 DEF LocalOK, Creating
    <2>3. Indexed' = Indexed \cup {loc[r].fam}
      BY <1>1, <2>1 DEF LoginIndex, Indexed, TypeInv, TypeOK
    <2> QED BY <1>1, <2>1, <2>2, <2>3 DEF LoginIndex, wire
  <1>2. ASSUME NEW r \in Request, NEW at \in HasFam \ {"reuseFamily", "revokeGet"}, NEW next, Unindex(r, at, next)
        PROVE \E f \in Family : Indexed' = Indexed \ {f} /\ UNCHANGED <<opened, revoked>>
    <2>1. pc[r] = at /\ LocalOK(r) /\ StoreOK
      BY <1>2 DEF Unindex, Goto, SessionInv
    <2>2. loc[r].fam \in Family /\ owner[loc[r].fam] = loc[r].user /\ loc[r].user \in User
      BY <1>2, <2>1, LocalsAt DEF LocalOK, HasFam, HasUser, RevokeAllLabel
    <2>3. \A u \in User : sessions'[u] = IF u = loc[r].user THEN sessions[u] \ {loc[r].fam} ELSE sessions[u]
      BY <1>2 DEF Unindex, TypeInv, TypeOK
    <2>4. \A u \in User : u # loc[r].user => loc[r].fam \notin sessions[u]
      BY <2>1, <2>2 DEF StoreOK
    <2>5. Indexed' = Indexed \ {loc[r].fam}
      <3>1. \A f : f \in Indexed <=> \E u \in User : f \in sessions[u]
        BY DEF Indexed
      <3>2. \A f : f \in Indexed' <=> \E u \in User : f \in sessions'[u]
        BY DEF Indexed
      <3>3. \A f : f \in Indexed' <=> f \in Indexed /\ f # loc[r].fam
        <4>1. \A f, u : u \in User /\ f \in sessions'[u] => f \in sessions[u] /\ f # loc[r].fam
          BY <2>3, <2>4
        <4>2. \A f, u : u \in User /\ f \in sessions[u] /\ f # loc[r].fam => f \in sessions'[u]
          BY <2>3
        <4> QED BY <3>1, <3>2, <4>1, <4>2
      <3> QED BY <3>3
    <2> QED BY <1>2, <2>2, <2>5 DEF Unindex, wire, history
  <1>3. ASSUME NEW r \in Request, pc[r] \in Publishing, PublishSessionRevoked(r)
        PROVE \/ UNCHANGED <<sessions, opened, revoked>>
              \/ \E f \in Ended : revoked' = revoked \cup {f} /\ UNCHANGED <<sessions, opened>>
    <2>1. LocalOK(r)
      BY DEF SessionInv
    <2>2. loc[r].fam \in Ended
      BY <1>3, <2>1 DEF LocalOK, Ended, HasFam, Creating, Publishing
    <2> QED BY <1>3, <2>2 DEF PublishSessionRevoked, history
  <1>4. ASSUME NEW r \in Request, Call(r)
        PROVE UNCHANGED <<sessions, opened, revoked>>
    BY <1>4 DEF Call, LoginCheck, RefreshLookup, LogoutLookup, ResetLookup, RevokeEnter, RevokeAllEnter,
       PasswordEnter, ListEnter, EnterGuarded, wire, history
  <1>5. ASSUME NEW r \in Request,
               \/ LoginStoreToken(r) \/ LoginStoreFamily(r) \/ LoginSign(r)
               \/ RotateReadUser(r) \/ RotateDelete(r) \/ RotateMarkConsumed(r)
               \/ RotateStoreToken(r) \/ RotateStoreFamily(r)
               \/ ReuseReadMark(r) \/ ReuseReadFamily(r) \/ ReuseDelete(r) \/ ReuseBump(r)
               \/ LogoutDelete(r) \/ RevokeLookup(r) \/ RevokeDelete(r)
               \/ RevokeAllSnapshot(r) \/ RevokeAllPick(r) \/ RevokeAllDelete(r)
               \/ RevokeAllDone(r) \/ RevokeAllBump(r)
               \/ PasswordWrite(r) \/ ResetConsume(r) \/ ResetReadUser(r) \/ ResetWrite(r)
               \/ ListSnapshot(r) \/ ListPick(r) \/ ListDone(r) \/ Abort(r)
        PROVE UNCHANGED <<sessions, opened, revoked>>
    BY <1>5 DEF LoginStoreToken, LoginStoreFamily, LoginSign, RotateReadUser, RotateDelete,
       RotateMarkConsumed, RotateStoreToken, RotateStoreFamily, ReuseReadMark, ReuseReadFamily, ReuseDelete,
       ReuseBump, LogoutDelete, RevokeLookup, RevokeDelete, RevokeAllSnapshot, RevokeAllPick,
       RevokeAllDelete, RevokeAllDone, RevokeAllBump, PasswordWrite, ResetConsume, ResetReadUser,
       ResetWrite, ListSnapshot, ListPick, ListDone, Abort, DeleteFamily, wire, history
  <1>6. ASSUME NEW r \in Request,
               \/ ReuseUnindex(r) \/ LogoutUnindex(r) \/ RevokeUnindex(r) \/ RevokeAllUnindex(r)
               \/ RevokeAllStale(r) \/ ListStale(r)
        PROVE \E f \in Family : Indexed' = Indexed \ {f} /\ UNCHANGED <<opened, revoked>>
    BY <1>2, <1>6 DEF ReuseUnindex, LogoutUnindex, RevokeUnindex, RevokeAllUnindex, RevokeAllStale, ListStale,
       HasFam
  <1>7. ASSUME NEW r \in Request, ReusePublish(r) \/ LogoutPublish(r) \/ RevokePublish(r) \/ RevokeAllPublish(r)
        PROVE \/ UNCHANGED <<sessions, opened, revoked>>
              \/ \E f \in Ended : revoked' = revoked \cup {f} /\ UNCHANGED <<sessions, opened>>
    BY <1>3, <1>7 DEF ReusePublish, LogoutPublish, RevokePublish, RevokeAllPublish, Answer, Goto, Publishing
  <1>8. ASSUME (\E u \in User : SetActive(u) \/ \E k \in ResetKey : ForgotPassword(u, k)) \/ Expire
               \/ UNCHANGED vars
        PROVE UNCHANGED <<sessions, opened, revoked>>
    BY <1>8 DEF SetActive, ForgotPassword, Expire, vars, wire, history
  <1> QED BY <1>1, <1>4, <1>5, <1>6, <1>7, <1>8 DEF Next, Continue

\* Each such step opens, ends or announces a session, or is no step of its life.
LEMMA LifeStep ==
  ASSUME TypeInv, SessionInv, [Next]_vars
  PROVE  [Life!LifeNext]_(Life!lifeVars)
  <1> DEFINE S == [f \in Family |-> IF f \in Indexed THEN "open"
                                    ELSE IF f \in opened THEN "ended" ELSE "unused"]
  <1>1. Indexed \subseteq opened
    BY DEF SessionInv, StoreOK, Indexed
  <1>2. CASE UNCHANGED <<sessions, opened, revoked>>
    BY <1>2 DEF Life!lifeVars, Indexed
  <1>3. ASSUME NEW f \in Family, f \notin opened, opened' = opened \cup {f},
               Indexed' = Indexed \cup {f}, UNCHANGED revoked
        PROVE Life!LifeNext
    <2>1. S[f] = "unused" /\ S' = [S EXCEPT ![f] = "open"]
      BY <1>1, <1>3
    <2> QED BY <1>3, <2>1 DEF Life!LifeNext, Life!Open
  <1>4. ASSUME NEW f \in Family, Indexed' = Indexed \ {f}, UNCHANGED <<opened, revoked>>
        PROVE [Life!LifeNext]_(Life!lifeVars)
    <2>1. CASE f \in Indexed
      <3>1. S[f] = "open" /\ S' = [S EXCEPT ![f] = "ended"]
        BY <1>1, <1>4, <2>1
      <3> QED BY <1>4, <3>1 DEF Life!LifeNext, Life!End
    <2>2. CASE f \notin Indexed
      <3>1. Indexed' = Indexed
        BY <1>4, <2>2
      <3> QED BY <1>4, <3>1 DEF Life!lifeVars
    <2> QED BY <2>1, <2>2
  <1>5. ASSUME NEW f \in Ended, revoked' = revoked \cup {f}, UNCHANGED <<sessions, opened>>
        PROVE Life!LifeNext
    <2>1. f \in Family /\ S[f] = "ended" /\ S' = S
      BY <1>5 DEF Ended, Indexed, TypeInv, TypeOK
    <2> QED BY <1>5, <2>1 DEF Life!LifeNext, Life!Announce
  <1> QED BY <1>2, <1>3, <1>4, <1>5, IndexMoves

\* A session is opened once and ended once, and its end is published only
\* after it: AuthSessions implements SessionLife.
THEOREM SessionsImplementTheirLife == Spec => ImplementsSessionLife
  <1>1. Init => Life!LifeInit
    BY DEF Init, Life!LifeInit, Indexed
  <1> QED BY <1>1, LifeStep, SessionsConsistent, PTL DEF Spec, ImplementsSessionLife, Life!LifeSpec
=============================================================================
