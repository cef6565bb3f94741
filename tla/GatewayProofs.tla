--------------------------- MODULE GatewayProofs ---------------------------
(***************************************************************************)
(* The safety properties of Gateway, for every number of sessions and      *)
(* sockets, every payload, and every assignment of roles.                  *)
(***************************************************************************)
EXTENDS Gateway, TLAPS

\* Every variable of the gateway keeps its type: only what the code can put
\* there is ever in a queue, in client.data.user or on a socket.
THEOREM TypeCorrect == Spec => []TypeOK
<1>1. Init => TypeOK
  BY DEF Init, LifeInit, TypeOK, Stage
<1>2. TypeOK /\ [Next]_vars => TypeOK'
  <2> SUFFICES ASSUME TypeOK, [Next]_vars PROVE TypeOK'
    OBVIOUS
  <2> USE DEF TypeOK, Stage
  <2>1. ASSUME NEW f \in Family, OpenSession(f) PROVE TypeOK'
    BY <2>1 DEF OpenSession, Open, sockets
  <2>2. ASSUME NEW f \in Family, EndSession(f) PROVE TypeOK'
    BY <2>2 DEF EndSession, End, sockets
  <2>3. ASSUME NEW f \in Family, PublishRevoked(f) PROVE TypeOK'
    BY <2>3 DEF PublishRevoked, Announce, sockets
  <2>4. ASSUME NEW f \in Family, HandleSessionRevoked(f) PROVE TypeOK'
    BY <2>4 DEF HandleSessionRevoked, Of, lifeVars
  <2>5. ASSUME NEW c \in Socket, NEW f \in Family, Connect(c, f) PROVE TypeOK'
    BY <2>5 DEF Connect, lifeVars
  <2>6. ASSUME NEW c \in Socket, LookUp(c) PROVE TypeOK'
    BY <2>6 DEF LookUp, Close, lifeVars
  <2>7. ASSUME NEW c \in Socket, Admit(c) PROVE TypeOK'
    BY <2>7 DEF Admit, lifeVars
  <2>8. ASSUME NEW c \in Socket, Drop(c) PROVE TypeOK'
    BY <2>8 DEF Drop, Close, lifeVars
  <2>9. ASSUME NEW p \in Payload, EmitShipmentEvent(p) PROVE TypeOK'
    BY <2>9 DEF EmitShipmentEvent, lifeVars
  <2>10. CASE UNCHANGED vars
    BY <2>10 DEF vars, lifeVars, sockets
  <2> QED
    BY <2>1, <2>2, <2>3, <2>4, <2>5, <2>6, <2>7, <2>8, <2>9, <2>10 DEF Next
<1> QED
  BY <1>1, <1>2, PTL DEF Spec

-----------------------------------------------------------------------------
(* Forced logout                                                             *)

\* What is announced has ended, and stays ended; a socket that passed the look-up
\* before that and is named by a handled announcement was being admitted then.
LogoutInv ==
    /\ \A f \in queue \cup handled : life[f] = "ended"
    /\ \A c \in Socket : stage[c] # "closed" => session[c] \in Family
    /\ \A c \in Socket :
        stage[c] \in {"admitting", "connected"} /\ session[c] \in handled => c \in raced

\* The gateway closes every socket of a revoked session but those whose
\* admission was between its look-up and client.data.user.
THEOREM OnlyRacesOutlive == Spec => []OnlyRacingSocketsOutlive
<1>1. Init => LogoutInv
  BY DEF Init, LogoutInv
<1>2. TypeOK /\ LogoutInv /\ [Next]_vars => LogoutInv'
  <2> SUFFICES ASSUME TypeOK, LogoutInv, [Next]_vars PROVE LogoutInv'
    OBVIOUS
  <2> USE DEF TypeOK, Stage, LogoutInv
  <2>1. ASSUME NEW f \in Family, OpenSession(f) PROVE LogoutInv'
    BY <2>1 DEF OpenSession, Open, sockets
  <2>2. ASSUME NEW f \in Family, EndSession(f) PROVE LogoutInv'
    BY <2>2 DEF EndSession, End, sockets
  <2>3. ASSUME NEW f \in Family, PublishRevoked(f) PROVE LogoutInv'
    BY <2>3 DEF PublishRevoked, Announce, sockets
  <2>4. ASSUME NEW f \in Family, HandleSessionRevoked(f) PROVE LogoutInv'
    BY <2>4 DEF HandleSessionRevoked, Of, lifeVars
  <2>5. ASSUME NEW c \in Socket, NEW f \in Family, Connect(c, f) PROVE LogoutInv'
    BY <2>5 DEF Connect, lifeVars
  <2>6. ASSUME NEW c \in Socket, LookUp(c) PROVE LogoutInv'
    BY <2>6 DEF LookUp, Close, lifeVars
  <2>7. ASSUME NEW c \in Socket, Admit(c) PROVE LogoutInv'
    BY <2>7 DEF Admit, lifeVars
  <2>8. ASSUME NEW c \in Socket, Drop(c) PROVE LogoutInv'
    BY <2>8 DEF Drop, Close, lifeVars
  <2>9. ASSUME NEW p \in Payload, EmitShipmentEvent(p) PROVE LogoutInv'
    BY <2>9 DEF EmitShipmentEvent, lifeVars
  <2>10. CASE UNCHANGED vars
    BY <2>10 DEF vars, lifeVars, sockets
  <2> QED
    BY <2>1, <2>2, <2>3, <2>4, <2>5, <2>6, <2>7, <2>8, <2>9, <2>10 DEF Next
<1>3. LogoutInv => OnlyRacingSocketsOutlive
  BY DEF LogoutInv, OnlyRacingSocketsOutlive
<1> QED
  BY <1>1, <1>2, <1>3, TypeCorrect, PTL DEF Spec

-----------------------------------------------------------------------------
(* Fan-out                                                                   *)

\* canViewShipment is never more generous than the REST API.
LEMMA ViewersMayInspect ==
    ASSUME NEW u \in User, NEW p \in Payload, CanView(u, p)
    PROVE  MayInspect(u, p) \/ Offered(u, p)
  BY DEF CanView, MayInspect, Offered

\* Only a connected socket holds an event, and one its account may see.
ShownInv ==
    /\ \A c \in Socket : stage[c] # "connected" => last[c] = Nil
    /\ \A c \in Socket : stage[c] # "closed" => session[c] \in Family
    /\ ShowsWhatTheApiShows

\* No socket is sent an event of a shipment that the REST API would neither
\* show nor list to its account.
THEOREM FanOutIsPermitted == Spec => []ShowsWhatTheApiShows
<1>1. Init => ShownInv
  BY DEF Init, ShownInv, ShowsWhatTheApiShows
<1>2. TypeOK /\ ShownInv /\ [Next]_vars => ShownInv'
  <2> SUFFICES ASSUME TypeOK, ShownInv, [Next]_vars PROVE ShownInv'
    OBVIOUS
  <2> USE DEF TypeOK, Stage, ShownInv, ShowsWhatTheApiShows
  <2>1. ASSUME UNCHANGED sockets PROVE ShownInv'
    BY <2>1 DEF sockets
  <2>2. ASSUME NEW f \in Family, OpenSession(f) \/ EndSession(f) \/ PublishRevoked(f)
        PROVE  ShownInv'
    BY <2>1, <2>2 DEF OpenSession, EndSession, PublishRevoked
  <2>4. ASSUME NEW f \in Family, HandleSessionRevoked(f) PROVE ShownInv'
    BY <2>4 DEF HandleSessionRevoked, Of
  <2>5. ASSUME NEW c \in Socket, NEW f \in Family, Connect(c, f) PROVE ShownInv'
    BY <2>5 DEF Connect
  <2>6. ASSUME NEW c \in Socket, LookUp(c) PROVE ShownInv'
    BY <2>6 DEF LookUp, Close
  <2>7. ASSUME NEW c \in Socket, Admit(c) PROVE ShownInv'
    BY <2>7 DEF Admit
  <2>8. ASSUME NEW c \in Socket, Drop(c) PROVE ShownInv'
    BY <2>8 DEF Drop, Close
  <2>9. ASSUME NEW p \in Payload, EmitShipmentEvent(p) PROVE ShownInv'
    <3>1. \A c \in Socket :
            stage[c] = "connected" /\ CanView(AccountOf[session[c]], p) =>
                \/ MayInspect(AccountOf[session[c]], p)
                \/ Offered(AccountOf[session[c]], p)
      BY ViewersMayInspect, GatewayAssumption
    <3> QED
      BY <2>9, <3>1 DEF EmitShipmentEvent
  <2>10. CASE UNCHANGED vars
    BY <2>1, <2>10 DEF vars
  <2> QED
    BY <2>2, <2>4, <2>5, <2>6, <2>7, <2>8, <2>9, <2>10 DEF Next
<1> QED
  BY <1>1, <1>2, TypeCorrect, PTL DEF Spec, ShownInv
=============================================================================
