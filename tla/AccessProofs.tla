--------------------------- MODULE AccessProofs ---------------------------
(***************************************************************************)
(* Proofs about who may do what.  OAuth, for any clients, authorizations,  *)
(* token requests, refresh rows, epochs and restarts: no token is          *)
(* exchanged twice, what was revoked is refused, and the authorizations    *)
(* follow their contract.  Capability, for every set of calls, providers   *)
(* and configurations: what a provider carries out is on record and        *)
(* allowed, however the file and the descriptions change while calls are   *)
(* under way.                                                              *)
(***************************************************************************)
EXTENDS OAuth, Capability, TLAPS

CodeRows ==
  [held : {FALSE}, used : BOOLEAN]
  \cup [held : {TRUE}, used : {TRUE}, client : Clients, offline : BOOLEAN, expires : Nat]
SigningRows == [pc : {"signing"}, grant : Grants, aud : Nat, epoch : Nat, parent : Nat, insert : BOOLEAN]
RefreshRows == [grant : Grants, resource : Nat, parent : Nat, valid : BOOLEAN]
Tokens      == [grant : Grants, aud : Nat, claim : Nat, delivered : Nat, served : Nat]

Typed ==
  /\ clients \subseteq Clients /\ auds.mcp # auds.console
  /\ epoch \in 1..MaxEpoch /\ now \in 0..MaxNow /\ restarts \in 0..MaxRestart
  /\ endpoint \in 1..(restarts + 1)
  /\ codes \in [Grants -> CodeRows]
  /\ requests \in [Requests -> {Idle} \cup SigningRows]
  /\ refresh \in Seq(RefreshRows)
  /\ access \subseteq Tokens
  /\ redeemed \in [Grants -> Nat]

Signs(q) == requests[q].pc = "signing"

\* A row descends from an earlier one, issued for an endpoint served by then.
RowsInOrder ==
  \A k \in DOMAIN refresh : refresh[k].parent < k /\ refresh[k].resource \in 1..endpoint

\* A row was spent before its successor was inserted, and has only one.
SpentBefore ==
  \A h, k \in DOMAIN refresh : refresh[k].parent = h => ~refresh[h].valid

\* What a request took it holds alone: its code, or a row spent and without successor.
HoldsAlone ==
  /\ \A q \in Requests : Signs(q) =>
       /\ requests[q].aud = endpoint /\ requests[q].epoch <= epoch
       /\ codes[requests[q].grant].used
       /\ requests[q].parent = 0 => redeemed[requests[q].grant] = 0
       /\ requests[q].parent # 0 =>
            /\ requests[q].parent \in DOMAIN refresh /\ requests[q].insert
            /\ ~refresh[requests[q].parent].valid
            /\ \A k \in DOMAIN refresh : refresh[k].parent # requests[q].parent
  /\ \A p, q \in Requests :
       Signs(p) /\ Signs(q) /\ requests[p].parent = requests[q].parent
       /\ (requests[p].parent = 0 => requests[p].grant = requests[q].grant) => p = q

\* A token claims no later epoch than the one it was delivered in, for the endpoint that made it.
TokensTrue == \A t \in access : t.claim <= t.delivered /\ t.aud = t.served

\* Nothing carries an authorization whose code is out, or that has none.
Unclaimed(g) == codes[g].held \/ ~codes[g].used
NothingBeforeClaim ==
  \A g \in Grants : Unclaimed(g) =>
    /\ redeemed[g] = 0 /\ ValidRows(g) = {}
    /\ \A q \in Requests : ~(Signs(q) /\ requests[q].grant = g)

\* One request at its signature or one valid row carries an authorization, not both.
OneCarrier ==
  \A g \in Grants :
    /\ \A p, q \in InFlight(g) : p = q
    /\ \A h, k \in ValidRows(g) : h = k
    /\ InFlight(g) = {} \/ ValidRows(g) = {}

OInv ==
  /\ Typed
  /\ RowsInOrder /\ SpentBefore /\ RotationIsLinear
  /\ HoldsAlone /\ TokensTrue
  /\ NothingBeforeClaim /\ OneCarrier
  /\ OwnDoor
-----------------------------------------------------------------------------
(* The operations on refresh rows.                                          *)

\* Rows have positions, and each is a row.
LEMMA Rows ==
  ASSUME Typed
  PROVE  /\ DOMAIN refresh = 1..Len(refresh) /\ Len(refresh) \in Nat
         /\ \A k \in DOMAIN refresh : refresh[k] \in RefreshRows /\ k \in Nat \ {0}
         /\ \A k \in DOMAIN refresh : refresh[k].grant \in Grants /\ refresh[k].resource \in Nat
                                      /\ refresh[k].parent \in Nat /\ refresh[k].valid \in BOOLEAN
<1>1. refresh \in Seq(RefreshRows)
  BY DEF Typed
<1>2. DOMAIN refresh = 1..Len(refresh) /\ Len(refresh) \in Nat
  BY <1>1
<1>3. \A k \in DOMAIN refresh : refresh[k] \in RefreshRows
  BY <1>1
<1>4. \A k \in DOMAIN refresh : k \in Nat \ {0}
  BY <1>2
<1> QED
  BY <1>2, <1>3, <1>4 DEF RefreshRows

\* Invalidating rows changes nothing else of them.
LEMMA RowsInvalidated ==
  ASSUME Typed, NEW S, refresh' = Invalidated(S)
  PROVE  /\ refresh' \in Seq(RefreshRows) /\ DOMAIN refresh' = DOMAIN refresh /\ Len(refresh') = Len(refresh)
         /\ \A k \in DOMAIN refresh :
              /\ refresh'[k].grant = refresh[k].grant /\ refresh'[k].parent = refresh[k].parent
              /\ refresh'[k].resource = refresh[k].resource
              /\ refresh'[k].valid <=> (refresh[k].valid /\ k \notin S)
<1>1. refresh' = [k \in 1..Len(refresh) |->
        IF k \in S THEN [refresh[k] EXCEPT !.valid = FALSE] ELSE refresh[k]]
  BY Rows DEF Invalidated
<1>2. \A k \in 1..Len(refresh) :
        /\ refresh'[k] \in RefreshRows
        /\ refresh'[k].grant = refresh[k].grant /\ refresh'[k].parent = refresh[k].parent
        /\ refresh'[k].resource = refresh[k].resource
        /\ refresh'[k].valid <=> (refresh[k].valid /\ k \notin S)
  <2> SUFFICES ASSUME NEW k \in 1..Len(refresh)
               PROVE  /\ refresh'[k] \in RefreshRows
                      /\ refresh'[k].grant = refresh[k].grant /\ refresh'[k].parent = refresh[k].parent
                      /\ refresh'[k].resource = refresh[k].resource
                      /\ refresh'[k].valid <=> (refresh[k].valid /\ k \notin S)
    OBVIOUS
  <2>1. refresh[k] \in RefreshRows
    BY Rows
  <2>2. refresh'[k] = IF k \in S THEN [refresh[k] EXCEPT !.valid = FALSE] ELSE refresh[k]
    BY <1>1
  <2>3. CASE k \in S
    BY <2>1, <2>2, <2>3 DEF RefreshRows
  <2>4. CASE k \notin S
    BY <2>1, <2>2, <2>4
  <2> QED
    BY <2>3, <2>4
<1>3. Len(refresh) \in Nat /\ DOMAIN refresh = 1..Len(refresh)
  BY Rows
<1>4. refresh' \in Seq(RefreshRows) /\ Len(refresh') = Len(refresh) /\ DOMAIN refresh' = 1..Len(refresh)
  BY <1>1, <1>2, <1>3
<1> QED
  BY <1>2, <1>3, <1>4

\* A request at its signature holds a record of what it will answer.
LEMMA Signing1 ==
  ASSUME Typed, NEW q \in Requests
  PROVE  /\ Signs(q) => requests[q] \in SigningRows
         /\ Signs(q) => /\ requests[q].grant \in Grants /\ requests[q].aud \in Nat /\ requests[q].epoch \in Nat
                        /\ requests[q].parent \in Nat /\ requests[q].insert \in BOOLEAN
         /\ ~Signs(q) => requests[q] = Idle /\ requests[q].pc = "idle"
  BY DEF Typed, Signs, SigningRows, Idle

-----------------------------------------------------------------------------
(* Every step keeps the invariant.                                          *)

\* Invalidating refresh rows, whichever, leaves every authorization a carrier less or the same.
LEMMA InvalidationKeeps ==
  ASSUME OInv, NEW S, refresh' = Invalidated(S), epoch' \in 1..MaxEpoch, epoch' >= epoch,
         UNCHANGED <<auds, now, restarts, clients, endpoint, codes, requests, access, redeemed>>, OwnDoor'
  PROVE  OInv'
<1>0. Typed /\ RowsInOrder /\ SpentBefore /\ RotationIsLinear /\ HoldsAlone /\ NothingBeforeClaim /\ OneCarrier
  BY DEF OInv
<1>1. /\ refresh' \in Seq(RefreshRows) /\ DOMAIN refresh' = DOMAIN refresh
      /\ \A k \in DOMAIN refresh :
           /\ refresh'[k].grant = refresh[k].grant /\ refresh'[k].parent = refresh[k].parent
           /\ refresh'[k].resource = refresh[k].resource
           /\ refresh'[k].valid => refresh[k].valid
  BY <1>0, RowsInvalidated
<1>2. Typed'
  BY <1>0, <1>1 DEF Typed
<1>3. RowsInOrder' /\ SpentBefore' /\ RotationIsLinear'
  BY <1>0, <1>1 DEF RowsInOrder, SpentBefore, RotationIsLinear
<1>4. HoldsAlone'
  <2>1. \A q \in Requests : Signs(q)' <=> Signs(q)
    BY DEF Signs
  <2>2. epoch \in Nat /\ epoch' \in Nat /\ \A q \in Requests : Signs(q) => requests[q].epoch \in Nat
    BY <1>0, <1>2, Signing1 DEF Typed
  <2> QED
    BY <1>0, <1>1, <2>1, <2>2 DEF HoldsAlone
<1>5. \A g \in Grants : ValidRows(g)' \subseteq ValidRows(g) /\ InFlight(g)' = InFlight(g)
  BY <1>1 DEF ValidRows, InFlight
<1>6. NothingBeforeClaim'
  BY <1>0, <1>5 DEF NothingBeforeClaim, Unclaimed, Signs
<1>7. OneCarrier'
  BY <1>0, <1>5 DEF OneCarrier
<1>8. TokensTrue'
  BY DEF OInv, TokensTrue
<1> QED
  BY <1>2, <1>3, <1>4, <1>6, <1>7, <1>8 DEF OInv

\* Time passes, a client registers, or the epoch goes up.
LEMMA QuietKeeps ==
  ASSUME OInv, epoch' \in 1..MaxEpoch, epoch' >= epoch, now' \in 0..MaxNow, clients' \subseteq Clients,
         clients \subseteq clients',
         UNCHANGED <<auds, entered, restarts, endpoint, codes, refresh, requests, access, redeemed>>
  PROVE  OInv'
<1>0. Typed /\ RowsInOrder /\ SpentBefore /\ RotationIsLinear /\ HoldsAlone /\ NothingBeforeClaim /\ OneCarrier
  BY DEF OInv
<1>1. Typed'
  BY <1>0 DEF Typed
<1>2. RowsInOrder' /\ SpentBefore' /\ RotationIsLinear'
  BY <1>0 DEF RowsInOrder, SpentBefore, RotationIsLinear
<1>3. HoldsAlone'
  <2>1. \A q \in Requests : Signs(q)' <=> Signs(q)
    BY DEF Signs
  <2>2. epoch \in Nat /\ epoch' \in Nat /\ \A q \in Requests : Signs(q) => requests[q].epoch \in Nat
    BY <1>0, <1>1, Signing1 DEF Typed
  <2> QED
    BY <1>0, <2>1, <2>2 DEF HoldsAlone
<1>4. NothingBeforeClaim'
  BY <1>0 DEF NothingBeforeClaim, Unclaimed, Signs, ValidRows
<1>5. OneCarrier'
  BY <1>0 DEF OneCarrier, InFlight, ValidRows
<1>6. TokensTrue' /\ OwnDoor'
  BY DEF OInv, TokensTrue, OwnDoor
<1> QED
  BY <1>1, <1>2, <1>3, <1>4, <1>5, <1>6 DEF OInv

\* A door is opened only by an assertion for its own application.
LEMMA DoorsApart ==
  ASSUME OInv, NEW door \in Doors, NEW app \in Doors, Approved(door, app), UNCHANGED auds,
         entered' = entered \cup {<<door, app>>}
  PROVE  OwnDoor'
  BY DEF OInv, Typed, OwnDoor, Approved, Doors

\* A fresh code for an authorization that had none.
LEMMA AuthorizeKeeps ==
  ASSUME OInv, NEW g \in Grants, NEW c \in Clients, NEW app \in Doors, NEW o \in BOOLEAN, Authorize(g, c, app, o)
  PROVE  OInv'
<1>0. Typed /\ RowsInOrder /\ SpentBefore /\ RotationIsLinear /\ HoldsAlone /\ NothingBeforeClaim /\ OneCarrier
  BY DEF OInv
<1> DEFINE row == [held |-> TRUE, used |-> TRUE, client |-> c, offline |-> o, expires |-> now + CodeLife]
<1>1. /\ c \in clients /\ ~codes[g].held /\ ~codes[g].used /\ codes' = [codes EXCEPT ![g] = row]
      /\ UNCHANGED <<auds, now, restarts, clients, endpoint, refresh, epoch, requests, access, redeemed>>
  BY DEF Authorize, world
<1>2. row \in CodeRows /\ row.held /\ row.used
  <2>1. now \in Nat /\ now + CodeLife \in Nat
    BY <1>0, BoundAssumption DEF Typed
  <2>2. row \in [held : {TRUE}, used : {TRUE}, client : Clients, offline : BOOLEAN, expires : Nat]
    BY <2>1
  <2> QED
    BY <2>2 DEF CodeRows
<1> HIDE DEF row
<1>3. codes' \in [Grants -> CodeRows] /\ \A h \in Grants : h # g => codes'[h] = codes[h]
  BY <1>0, <1>1, <1>2 DEF Typed
<1>4. codes'[g] = row
  BY <1>0, <1>1 DEF Typed
<1>5. Typed'
  BY <1>0, <1>1, <1>3 DEF Typed
<1>6. RowsInOrder' /\ SpentBefore' /\ RotationIsLinear' /\ TokensTrue'
  BY <1>0, <1>1 DEF OInv, RowsInOrder, SpentBefore, RotationIsLinear, TokensTrue
<1>7. HoldsAlone'
  <2>1. \A q \in Requests : Signs(q)' <=> Signs(q)
    BY <1>1 DEF Signs
  <2>2. \A h \in Grants : codes[h].used => codes'[h].used
    BY <1>2, <1>3, <1>4
  <2>3. \A q \in Requests : Signs(q) => requests[q].grant \in Grants
    BY <1>0, Signing1
  <2> QED
    BY <1>0, <1>1, <2>1, <2>2, <2>3 DEF HoldsAlone
<1>8. NothingBeforeClaim'
  BY <1>0, <1>1, <1>3, <1>4 DEF NothingBeforeClaim, Unclaimed, Signs, ValidRows
<1>9. OneCarrier'
  BY <1>0, <1>1 DEF OneCarrier, InFlight, ValidRows
<1>10. OwnDoor'
  BY <1>1, DoorsApart DEF Authorize, Doors
<1> QED
  BY <1>5, <1>6, <1>7, <1>8, <1>9, <1>10 DEF OInv

\* The claim of a code takes it before anything else can.
LEMMA ExchangeCodeKeeps ==
  ASSUME OInv, NEW q \in Requests, NEW g \in Grants, NEW c \in Clients, NEW m \in BOOLEAN, ExchangeCode(q, g, c, m)
  PROVE  OInv'
<1>0. Typed /\ RowsInOrder /\ SpentBefore /\ RotationIsLinear /\ HoldsAlone /\ NothingBeforeClaim /\ OneCarrier
  BY DEF OInv
<1> DEFINE r == Signing(g, endpoint, 0, codes[g].offline)
<1>1. /\ ~Signs(q) /\ codes[g].held /\ codes' = [codes EXCEPT ![g] = [held |-> FALSE, used |-> TRUE]]
      /\ UNCHANGED <<auds, now, restarts, clients, endpoint, entered, refresh, epoch, access, redeemed>>
      /\ requests' = requests \/ requests' = [requests EXCEPT ![q] = r]
  BY DEF ExchangeCode, Claimed, world, Signs
<1>2. /\ r \in SigningRows /\ r.pc = "signing" /\ r.grant = g /\ r.aud = endpoint /\ r.epoch = epoch
      /\ r.parent = 0
  <2>1. codes[g].offline \in BOOLEAN
    BY <1>0, <1>1 DEF Typed, CodeRows
  <2> QED
    BY <1>0, <2>1 DEF Typed, Signing, SigningRows
<1> HIDE DEF r
<1>3. /\ codes' \in [Grants -> CodeRows] /\ ~codes'[g].held /\ codes'[g].used
      /\ \A h \in Grants : h # g => codes'[h] = codes[h]
  <2>1. [held |-> FALSE, used |-> TRUE] \in CodeRows
    BY DEF CodeRows
  <2> QED
    BY <1>0, <1>1, <2>1 DEF Typed
<1>4. requests' \in [Requests -> {Idle} \cup SigningRows]
      /\ \A p \in Requests : p # q => requests'[p] = requests[p]
  BY <1>0, <1>1, <1>2 DEF Typed
<1>5. requests'[q] = requests[q] \/ requests'[q] = r
  BY <1>0, <1>1 DEF Typed
<1>6. Typed'
  BY <1>0, <1>1, <1>3, <1>4 DEF Typed
<1>7. RowsInOrder' /\ SpentBefore' /\ RotationIsLinear' /\ TokensTrue' /\ OwnDoor'
  BY <1>0, <1>1 DEF OInv, RowsInOrder, SpentBefore, RotationIsLinear, TokensTrue, OwnDoor
<1>8. /\ redeemed[g] = 0 /\ ValidRows(g) = {} /\ \A p \in Requests : ~(Signs(p) /\ requests[p].grant = g)
  BY <1>0, <1>1 DEF NothingBeforeClaim, Unclaimed
<1>9. \A p \in Requests : /\ p # q => (Signs(p)' <=> Signs(p)) /\ requests'[p] = requests[p]
                          /\ p = q /\ Signs(p)' => requests'[p] = r
  BY <1>1, <1>4, <1>5 DEF Signs
<1>10. HoldsAlone'
  <2>1. ASSUME NEW p \in Requests, Signs(p)'
        PROVE  /\ requests'[p].aud = endpoint' /\ requests'[p].epoch <= epoch'
               /\ codes'[requests'[p].grant].used
               /\ requests'[p].parent = 0 => redeemed'[requests'[p].grant] = 0
               /\ requests'[p].parent # 0 =>
                   /\ requests'[p].parent \in DOMAIN refresh' /\ requests'[p].insert
                   /\ ~refresh'[requests'[p].parent].valid
                   /\ \A k \in DOMAIN refresh' : refresh'[k].parent # requests'[p].parent
    <3>1. CASE p = q
      <4>1. epoch <= epoch
        BY <1>0 DEF Typed
      <4> QED
        BY <1>1, <1>2, <1>3, <1>8, <1>9, <2>1, <3>1, <4>1
    <3>2. CASE p # q
      <4>1. Signs(p) /\ requests'[p] = requests[p] /\ requests[p].grant \in Grants /\ requests[p].grant # g
        BY <1>0, <1>8, <1>9, <2>1, <3>2, Signing1
      <4> QED
        BY <1>0, <1>1, <1>3, <4>1 DEF HoldsAlone
    <3> QED
      BY <3>1, <3>2
  <2>2. ASSUME NEW p \in Requests, NEW s \in Requests, Signs(p)', Signs(s)',
               requests'[p].parent = requests'[s].parent,
               requests'[p].parent = 0 => requests'[p].grant = requests'[s].grant
        PROVE  p = s
    BY <1>0, <1>2, <1>8, <1>9, <2>2 DEF HoldsAlone
  <2> QED
    BY <2>1, <2>2 DEF HoldsAlone
<1>11. NothingBeforeClaim'
  <2> SUFFICES ASSUME NEW h \in Grants, Unclaimed(h)'
               PROVE  /\ redeemed'[h] = 0 /\ ValidRows(h)' = {}
                      /\ \A p \in Requests : ~(Signs(p)' /\ requests'[p].grant = h)
    BY DEF NothingBeforeClaim
  <2>1. h # g /\ Unclaimed(h)
    BY <1>3 DEF Unclaimed
  <2> QED
    BY <1>0, <1>1, <1>2, <1>9, <2>1 DEF NothingBeforeClaim, ValidRows
<1>12. OneCarrier'
  <2>1. \A h \in Grants : ValidRows(h)' = ValidRows(h)
    BY <1>1 DEF ValidRows
  <2>2. InFlight(g)' \subseteq {q}
    BY <1>8, <1>9 DEF InFlight, Signs
  <2>3. \A h \in Grants : h # g => InFlight(h)' \subseteq InFlight(h)
    BY <1>2, <1>9 DEF InFlight, Signs
  <2> QED
    BY <1>0, <1>8, <2>1, <2>2, <2>3 DEF OneCarrier
<1> QED
  BY <1>6, <1>7, <1>10, <1>11, <1>12 DEF OInv

\* A rotation spends the one valid row of its authorization, and takes it along.
LEMMA RotateKeeps ==
  ASSUME OInv, NEW q \in Requests, NEW h \in 1..MaxRefresh, Rotate(q, h)
  PROVE  OInv'
<1>0. Typed /\ RowsInOrder /\ SpentBefore /\ RotationIsLinear /\ HoldsAlone /\ NothingBeforeClaim /\ OneCarrier
  BY DEF OInv
<1> DEFINE r == Signing(refresh[h].grant, refresh[h].resource, h, TRUE)
<1>1. /\ ~Signs(q) /\ h \in DOMAIN refresh /\ refresh[h].valid /\ refresh[h].resource = endpoint
      /\ refresh' = Invalidated({h}) /\ requests' = [requests EXCEPT ![q] = r]
      /\ UNCHANGED <<auds, now, restarts, clients, endpoint, entered, codes, epoch, access, redeemed>>
  BY DEF Rotate, world, Signs
<1>2. PICK g \in Grants : g = refresh[h].grant /\ h \in Nat \ {0}
  BY <1>0, <1>1, Rows
<1>3. /\ r \in SigningRows /\ r.pc = "signing" /\ r.grant = g /\ r.aud = endpoint /\ r.epoch = epoch
      /\ r.parent = h /\ r.insert
  BY <1>0, <1>1, <1>2 DEF Typed, Signing, SigningRows
<1>4. /\ refresh' \in Seq(RefreshRows) /\ DOMAIN refresh' = DOMAIN refresh
      /\ \A k \in DOMAIN refresh :
           /\ refresh'[k].grant = refresh[k].grant /\ refresh'[k].parent = refresh[k].parent
           /\ refresh'[k].resource = refresh[k].resource
           /\ refresh'[k].valid <=> (refresh[k].valid /\ k # h)
  BY <1>0, <1>1, RowsInvalidated
<1>5. h \in ValidRows(g) /\ \A k \in ValidRows(g) : k = h
  BY <1>0, <1>1, <1>2 DEF ValidRows, OneCarrier
<1>6. InFlight(g) = {} /\ ~Unclaimed(g)
  BY <1>0, <1>2, <1>5 DEF OneCarrier, NothingBeforeClaim
<1>7. \A p \in Requests : Signs(p) => requests[p].parent # h
  BY <1>0, <1>1, <1>2 DEF HoldsAlone
<1> HIDE DEF r
<1>8. /\ requests' \in [Requests -> {Idle} \cup SigningRows] /\ requests'[q] = r /\ Signs(q)'
      /\ \A p \in Requests : p # q => requests'[p] = requests[p] /\ (Signs(p)' <=> Signs(p))
  BY <1>0, <1>1, <1>3 DEF Typed, Signs
<1>9. Typed'
  BY <1>0, <1>1, <1>4, <1>8 DEF Typed
<1>10. RowsInOrder' /\ SpentBefore' /\ RotationIsLinear' /\ TokensTrue' /\ OwnDoor'
  <2>0. endpoint' = endpoint
    BY <1>1
  <2>1. RowsInOrder'
    BY <1>0, <1>4, <2>0 DEF RowsInOrder
  <2>3. RotationIsLinear'
    BY <1>0, <1>4 DEF RotationIsLinear
  <2>2. SpentBefore'
    BY <1>0, <1>4 DEF SpentBefore
  <2> QED
    BY <1>1, <2>1, <2>2, <2>3 DEF OInv, TokensTrue, OwnDoor
<1>11. HoldsAlone'
  <2>1. ASSUME NEW p \in Requests, Signs(p)'
        PROVE  /\ requests'[p].aud = endpoint' /\ requests'[p].epoch <= epoch'
               /\ codes'[requests'[p].grant].used
               /\ requests'[p].parent = 0 => redeemed'[requests'[p].grant] = 0
               /\ requests'[p].parent # 0 =>
                   /\ requests'[p].parent \in DOMAIN refresh' /\ requests'[p].insert
                   /\ ~refresh'[requests'[p].parent].valid
                   /\ \A k \in DOMAIN refresh' : refresh'[k].parent # requests'[p].parent
    <3>1. CASE p = q
      <4>1. epoch <= epoch
        BY <1>0 DEF Typed
      <4>2. codes[g].used
        BY <1>6 DEF Unclaimed
      <4>3. \A k \in DOMAIN refresh : refresh[k].parent # h
        BY <1>0, <1>1 DEF SpentBefore
      <4>4. /\ ~refresh'[h].valid /\ h \in DOMAIN refresh'
            /\ \A k \in DOMAIN refresh' : refresh'[k].parent # h
        BY <1>1, <1>4, <4>3
      <4>5. requests'[p] = r /\ endpoint' = endpoint /\ epoch' = epoch /\ codes' = codes
        BY <1>1, <1>8, <3>1
      <4> QED
        BY <1>2, <1>3, <4>1, <4>2, <4>4, <4>5
    <3>2. CASE p # q
      <4>1. Signs(p) /\ requests'[p] = requests[p]
        BY <1>8, <2>1, <3>2
      <4>2. endpoint' = endpoint /\ epoch' = epoch /\ codes' = codes /\ redeemed' = redeemed
        BY <1>1
      <4>3. requests[p].parent # 0 =>
              /\ requests[p].parent \in DOMAIN refresh /\ requests[p].insert
              /\ ~refresh[requests[p].parent].valid
              /\ \A k \in DOMAIN refresh : refresh[k].parent # requests[p].parent
        BY <1>0, <4>1 DEF HoldsAlone
      <4>4. requests[p].parent # 0 =>
              /\ requests[p].parent \in DOMAIN refresh' /\ requests[p].insert
              /\ ~refresh'[requests[p].parent].valid
              /\ \A k \in DOMAIN refresh' : refresh'[k].parent # requests[p].parent
        BY <1>4, <4>3
      <4>5. /\ requests[p].aud = endpoint /\ requests[p].epoch <= epoch
            /\ codes[requests[p].grant].used
            /\ requests[p].parent = 0 => redeemed[requests[p].grant] = 0
        BY <1>0, <4>1 DEF HoldsAlone
      <4> QED
        BY <4>1, <4>2, <4>4, <4>5
    <3> QED
      BY <3>1, <3>2
  <2>2. ASSUME NEW p \in Requests, NEW s \in Requests, Signs(p)', Signs(s)',
               requests'[p].parent = requests'[s].parent,
               requests'[p].parent = 0 => requests'[p].grant = requests'[s].grant
        PROVE  p = s
    <3>1. CASE p # q /\ s # q
      BY <1>0, <1>8, <2>2, <3>1 DEF HoldsAlone
    <3>2. CASE p = q \/ s = q
      BY <1>3, <1>7, <1>8, <2>2, <3>2
    <3> QED
      BY <3>1, <3>2
  <2> QED
    BY <2>1, <2>2 DEF HoldsAlone
<1>12. NothingBeforeClaim'
  <2> SUFFICES ASSUME NEW a \in Grants, Unclaimed(a)'
               PROVE  /\ redeemed'[a] = 0 /\ ValidRows(a)' = {}
                      /\ \A p \in Requests : ~(Signs(p)' /\ requests'[p].grant = a)
    BY DEF NothingBeforeClaim
  <2>1. a # g /\ Unclaimed(a)
    BY <1>1, <1>6 DEF Unclaimed
  <2>2. ValidRows(a)' = {}
    BY <1>0, <1>4, <2>1 DEF NothingBeforeClaim, ValidRows
  <2> QED
    BY <1>0, <1>1, <1>3, <1>8, <2>1, <2>2 DEF NothingBeforeClaim
<1>13. OneCarrier'
  <2>1. ValidRows(g)' = {}
    BY <1>4, <1>5 DEF ValidRows
  <2>2. InFlight(g)' \subseteq {q}
    BY <1>6, <1>8 DEF InFlight, Signs
  <2>3. \A a \in Grants : a # g => InFlight(a)' \subseteq InFlight(a)
    BY <1>3, <1>8 DEF InFlight, Signs
  <2>4. \A a \in Grants : ValidRows(a)' \subseteq ValidRows(a)
    BY <1>4 DEF ValidRows
  <2> QED
    BY <1>0, <2>1, <2>2, <2>3, <2>4 DEF OneCarrier
<1> QED
  BY <1>9, <1>10, <1>11, <1>12, <1>13 DEF OInv

\* The answer turns what its request held into a token and, if one was asked for, a new row.
LEMMA AnswerKeeps ==
  ASSUME OInv, NEW q \in Requests, Answer(q)
  PROVE  OInv'
<1>0. Typed /\ RowsInOrder /\ SpentBefore /\ RotationIsLinear /\ HoldsAlone /\ NothingBeforeClaim /\ OneCarrier
  BY DEF OInv
<1>g. PICK g \in Grants : Signs(q) /\ g = requests[q].grant
  BY <1>0, Signing1 DEF Answer, Signs
<1> DEFINE r == requests[q]
           row == RefreshRow(g, r.aud, r.parent)
           n == Len(refresh) + 1
           token == [grant |-> g, aud |-> r.aud, claim |-> r.epoch, delivered |-> epoch, served |-> endpoint]
<1>1. /\ Signs(q) /\ requests' = [requests EXCEPT ![q] = Idle]
      /\ refresh' = IF r.insert THEN Append(refresh, row) ELSE refresh
      /\ access' = access \cup {token}
      /\ redeemed' = IF r.parent = 0 THEN [redeemed EXCEPT ![g] = @ + 1] ELSE redeemed
      /\ UNCHANGED <<auds, now, restarts, clients, endpoint, entered, codes, epoch>>
  BY <1>g DEF Answer, world, Signs
<1>2. /\ r \in SigningRows /\ r.grant = g /\ r.aud \in Nat /\ r.epoch \in Nat /\ r.parent \in Nat
      /\ r.insert \in BOOLEAN /\ r.pc = "signing"
  BY <1>0, <1>g, Signing1 DEF Signs
<1>3. /\ r.aud = endpoint /\ r.epoch <= epoch /\ codes[g].used
      /\ r.parent = 0 => redeemed[g] = 0
      /\ r.parent # 0 => /\ r.parent \in DOMAIN refresh /\ r.insert /\ ~refresh[r.parent].valid
                         /\ \A k \in DOMAIN refresh : refresh[k].parent # r.parent
  BY <1>0, <1>g DEF HoldsAlone
<1>4. row \in RefreshRows /\ row.grant = g /\ row.resource = r.aud /\ row.parent = r.parent /\ row.valid
  BY <1>2 DEF RefreshRow, RefreshRows
<1>5. token \in Tokens /\ token.claim <= token.delivered /\ token.aud = token.served
  BY <1>0, <1>2, <1>3 DEF Typed, Tokens
<1>6. ~Unclaimed(g)
  BY <1>0, <1>g DEF NothingBeforeClaim
<1>7. r.insert => /\ q \in InFlight(g) /\ ValidRows(g) = {} /\ \A p \in InFlight(g) : p = q
  BY <1>0, <1>1, <1>2 DEF InFlight, OneCarrier, Signs
<1>8. DOMAIN refresh = 1..Len(refresh) /\ Len(refresh) \in Nat
  BY <1>0, Rows
<1> HIDE DEF token, row
<1>9. /\ refresh' \in Seq(RefreshRows)
      /\ DOMAIN refresh' = IF r.insert THEN DOMAIN refresh \cup {n} ELSE DOMAIN refresh
      /\ \A k \in DOMAIN refresh : refresh'[k] = refresh[k]
      /\ r.insert => refresh'[n] = row
  <2>1. refresh \in Seq(RefreshRows)
    BY <1>0 DEF Typed
  <2>2. CASE r.insert
    <3>1. refresh' = Append(refresh, row)
      BY <1>1, <2>2
    <3>2. /\ refresh' \in Seq(RefreshRows) /\ Len(refresh') = Len(refresh) + 1
          /\ \A k \in 1..Len(refresh) : refresh'[k] = refresh[k]
          /\ refresh'[Len(refresh) + 1] = row
      BY <1>4, <2>1, <3>1
    <3>3. DOMAIN refresh' = 1..Len(refresh')
      BY <3>2
    <3>4. DOMAIN refresh' = DOMAIN refresh \cup {n}
      BY <1>8, <3>2, <3>3
    <3> QED
      BY <1>8, <2>2, <3>2, <3>4
  <2>3. CASE ~r.insert
    BY <1>1, <2>1, <2>3
  <2> QED
    BY <2>2, <2>3
<1>10. n \notin DOMAIN refresh /\ r.parent # n /\ r.parent < n /\ n \in Nat
  BY <1>2, <1>3, <1>8
<1>11. redeemed' \in [Grants -> Nat] /\ \A a \in Grants : a # g => redeemed'[a] = redeemed[a]
  BY <1>0, <1>1, <1>2 DEF Typed
<1>12. r.parent # 0 => redeemed' = redeemed
  BY <1>1
<1> HIDE DEF n
<1>13. /\ requests' \in [Requests -> {Idle} \cup SigningRows] /\ ~Signs(q)'
       /\ \A p \in Requests : p # q => requests'[p] = requests[p] /\ (Signs(p)' <=> Signs(p))
  BY <1>0, <1>1 DEF Typed, Signs, Idle
<1>14. Typed'
  BY <1>0, <1>1, <1>5, <1>9, <1>11, <1>13 DEF Typed
<1>15. RowsInOrder'
  <2>1. endpoint \in Nat \ {0}
    BY <1>0 DEF Typed
  <2> QED
    BY <1>0, <1>1, <1>3, <1>4, <1>9, <1>10, <2>1 DEF RowsInOrder
<1>16. SpentBefore'
  <2> SUFFICES ASSUME NEW h \in DOMAIN refresh', NEW k \in DOMAIN refresh', refresh'[k].parent = h
               PROVE  ~refresh'[h].valid
    BY DEF SpentBefore
  <2>1. CASE k \in DOMAIN refresh
    <3>1. h \in DOMAIN refresh
      <4>1. refresh[k].parent < k /\ k <= Len(refresh)
        BY <1>0, <1>8, <2>1 DEF RowsInOrder
      <4>2. h # n
        BY <1>8, <1>9, <2>1, <4>1, Rows, <1>0 DEF n
      <4> QED
        BY <1>9, <4>2
    <3> QED
      BY <1>0, <1>9, <2>1, <3>1 DEF SpentBefore
  <2>2. CASE k \notin DOMAIN refresh
    <3>1. k = n /\ r.insert /\ h = r.parent /\ h # n
      BY <1>2, <1>4, <1>9, <1>10, <2>2
    <3>2. h \in DOMAIN refresh /\ h # 0
      BY <1>0, <1>9, <3>1, Rows
    <3> QED
      BY <1>3, <1>9, <3>1, <3>2
  <2> QED
    BY <2>1, <2>2
<1>17. RotationIsLinear'
  BY <1>0, <1>3, <1>4, <1>9 DEF RotationIsLinear
<1>18. HoldsAlone'
  <2>1. ASSUME NEW p \in Requests, Signs(p)'
        PROVE  /\ requests'[p].aud = endpoint' /\ requests'[p].epoch <= epoch'
               /\ codes'[requests'[p].grant].used
               /\ requests'[p].parent = 0 => redeemed'[requests'[p].grant] = 0
               /\ requests'[p].parent # 0 =>
                   /\ requests'[p].parent \in DOMAIN refresh' /\ requests'[p].insert
                   /\ ~refresh'[requests'[p].parent].valid
                   /\ \A k \in DOMAIN refresh' : refresh'[k].parent # requests'[p].parent
    <3>1. p # q /\ Signs(p) /\ requests'[p] = requests[p] /\ requests[p].grant \in Grants
      BY <1>0, <1>13, <2>1, Signing1
    <3>2. r.parent = requests[p].parent => r.parent = 0 /\ requests[p].grant # g
      BY <1>0, <1>g, <3>1 DEF HoldsAlone
    <3>3. requests[p].parent = 0 => redeemed'[requests[p].grant] = 0
      BY <1>0, <1>11, <1>12, <3>1, <3>2 DEF HoldsAlone
    <3>4. requests[p].parent # 0 => \A k \in DOMAIN refresh' : refresh'[k].parent # requests[p].parent
      BY <1>0, <1>4, <1>9, <3>1, <3>2 DEF HoldsAlone
    <3> QED
      BY <1>0, <1>1, <1>9, <3>1, <3>3, <3>4 DEF HoldsAlone
  <2>2. ASSUME NEW p \in Requests, NEW s \in Requests, Signs(p)', Signs(s)',
               requests'[p].parent = requests'[s].parent,
               requests'[p].parent = 0 => requests'[p].grant = requests'[s].grant
        PROVE  p = s
    BY <1>0, <1>13, <2>2 DEF HoldsAlone
  <2> QED
    BY <2>1, <2>2 DEF HoldsAlone
<1>19. \A a \in Grants : a # g => ValidRows(a)' = ValidRows(a)
  BY <1>4, <1>9 DEF ValidRows
<1>20. NothingBeforeClaim'
  <2> SUFFICES ASSUME NEW a \in Grants, Unclaimed(a)'
               PROVE  /\ redeemed'[a] = 0 /\ ValidRows(a)' = {}
                      /\ \A p \in Requests : ~(Signs(p)' /\ requests'[p].grant = a)
    BY DEF NothingBeforeClaim
  <2>1. a # g /\ Unclaimed(a)
    BY <1>1, <1>6 DEF Unclaimed
  <2> QED
    BY <1>0, <1>11, <1>13, <1>19, <2>1 DEF NothingBeforeClaim
<1>21. OneCarrier'
  <2>1. \A a \in Grants : InFlight(a)' \subseteq InFlight(a) /\ q \notin InFlight(a)'
    BY <1>13 DEF InFlight, Signs
  <2>2. CASE ~r.insert
    <3>1. \A a \in Grants : ValidRows(a)' = ValidRows(a)
      BY <1>1, <2>2 DEF ValidRows
    <3> QED
      BY <1>0, <2>1, <3>1 DEF OneCarrier
  <2>3. CASE r.insert
    <3>1. InFlight(g)' = {} /\ ValidRows(g)' \subseteq {n}
      BY <1>2, <1>7, <1>9, <2>1, <2>3 DEF ValidRows
    <3> QED
      BY <1>0, <1>19, <2>1, <3>1 DEF OneCarrier
  <2> QED
    BY <2>2, <2>3
<1>22. TokensTrue' /\ OwnDoor'
  BY <1>1, <1>5 DEF OInv, TokensTrue, OwnDoor
<1> QED
  BY <1>14, <1>15, <1>16, <1>17, <1>18, <1>20, <1>21, <1>22 DEF OInv

\* A restart drops the codes that were out and the requests under way.
LEMMA StoppedKeeps ==
  ASSUME OInv, Stopped, epoch' \in 1..MaxEpoch, epoch' >= epoch, OwnDoor'
  PROVE  OInv'
<1>0. Typed /\ RowsInOrder /\ SpentBefore /\ RotationIsLinear /\ HoldsAlone /\ NothingBeforeClaim /\ OneCarrier
  BY DEF OInv
<1>1. /\ restarts < MaxRestart /\ restarts' = restarts + 1 /\ endpoint' \in {endpoint, endpoint + 1}
      /\ codes' = [g \in Grants |-> [held |-> FALSE, used |-> codes[g].used]]
      /\ requests' = [q \in Requests |-> Idle]
      /\ UNCHANGED <<auds, clients, refresh, access, redeemed, now>>
  BY DEF Stopped
<1>2. restarts \in Nat /\ restarts' \in 0..MaxRestart /\ endpoint \in 1..(restarts + 1)
      /\ endpoint' \in 1..(restarts' + 1) /\ endpoint' \in Nat /\ endpoint <= endpoint'
  BY <1>0, <1>1, BoundAssumption DEF Typed
<1>3. codes' \in [Grants -> CodeRows]
  <2>1. \A g \in Grants : codes[g].used \in BOOLEAN
    BY <1>0 DEF Typed, CodeRows
  <2> QED
    BY <1>1, <2>1 DEF CodeRows
<1>4. requests' \in [Requests -> {Idle} \cup SigningRows] /\ \A q \in Requests : ~Signs(q)'
  BY <1>1 DEF Signs, Idle
<1>5. Typed'
  BY <1>0, <1>1, <1>2, <1>3, <1>4 DEF Typed
<1>6. RowsInOrder'
  BY <1>0, <1>1, <1>2 DEF RowsInOrder
<1>7. SpentBefore' /\ RotationIsLinear' /\ TokensTrue'
  BY <1>0, <1>1 DEF OInv, SpentBefore, RotationIsLinear, TokensTrue
<1>8. HoldsAlone'
  BY <1>4 DEF HoldsAlone
<1>9. \A g \in Grants : ValidRows(g)' = ValidRows(g) /\ InFlight(g)' = {}
  BY <1>1, <1>4 DEF ValidRows, InFlight, Signs
<1>10. NothingBeforeClaim'
  <2>1. \A g \in Grants : Unclaimed(g)' => Unclaimed(g)
    BY <1>1 DEF Unclaimed
  <2> QED
    BY <1>0, <1>1, <1>4, <1>9, <2>1 DEF NothingBeforeClaim
<1>11. OneCarrier'
  BY <1>0, <1>9 DEF OneCarrier
<1> QED
  BY <1>5, <1>6, <1>7, <1>8, <1>10, <1>11 DEF OInv

\* The invariant holds at the start.
LEMMA OInit == Init => OInv
<1> SUFFICES ASSUME Init PROVE OInv
  OBVIOUS
<1>1. Typed
  <2>1. codes \in [Grants -> CodeRows]
    BY DEF Init, Unused, CodeRows
  <2> QED
    BY <2>1, BoundAssumption DEF Init, Typed, NoEpochRow
<1>2. DOMAIN refresh = {} /\ \A q \in Requests : ~Signs(q)
  BY DEF Init, Signs, Idle
<1>3. RowsInOrder /\ SpentBefore /\ RotationIsLinear /\ HoldsAlone
  BY <1>2 DEF RowsInOrder, SpentBefore, RotationIsLinear, HoldsAlone
<1>4. NothingBeforeClaim /\ OneCarrier
  BY <1>2 DEF Init, NothingBeforeClaim, OneCarrier, ValidRows, InFlight, Signs
<1>5. TokensTrue /\ OwnDoor
  BY DEF Init, TokensTrue, OwnDoor
<1> QED
  BY <1>1, <1>3, <1>4, <1>5 DEF OInv

\* Every step keeps the invariant.
LEMMA OStep == OInv /\ [Next]_ovars => OInv'
<1> SUFFICES ASSUME OInv, [Next]_ovars PROVE OInv'
  OBVIOUS
<1>0. /\ epoch \in 1..MaxEpoch /\ epoch <= epoch /\ now \in 0..MaxNow /\ clients \subseteq Clients
      /\ epoch < MaxEpoch => epoch + 1 \in 1..MaxEpoch /\ epoch <= epoch + 1
      /\ now < MaxNow => now + 1 \in 0..MaxNow
  BY BoundAssumption DEF OInv, Typed
<1>1. ASSUME NEW c \in Clients, Register(c) PROVE OInv'
  BY <1>0, <1>1, QuietKeeps DEF Register
<1>2. ASSUME NEW g \in Grants, NEW c \in Clients, NEW app \in Doors, NEW o \in BOOLEAN, Authorize(g, c, app, o)
      PROVE OInv'
  BY <1>2, AuthorizeKeeps
<1>3. ASSUME NEW q \in Requests, NEW g \in Grants, NEW c \in Clients, NEW m \in BOOLEAN, ExchangeCode(q, g, c, m)
      PROVE OInv'
  BY <1>3, ExchangeCodeKeeps
<1>4. ASSUME NEW h \in 1..MaxRefresh, ReuseRefresh(h) PROVE OInv'
  <2>1. OwnDoor'
    BY <1>4 DEF ReuseRefresh, OInv, OwnDoor
  <2> QED
    BY <1>0, <1>4, <2>1, InvalidationKeeps DEF ReuseRefresh, world
<1>5. ASSUME NEW h \in 1..MaxRefresh, RefreshOutdated(h) PROVE OInv'
  <2>1. OwnDoor'
    BY <1>5 DEF RefreshOutdated, OInv, OwnDoor
  <2> QED
    BY <1>0, <1>5, <2>1, InvalidationKeeps DEF RefreshOutdated, world
<1>6. ASSUME NEW q \in Requests, NEW h \in 1..MaxRefresh, Rotate(q, h) PROVE OInv'
  BY <1>6, RotateKeeps
<1>7. ASSUME NEW q \in Requests, Answer(q) PROVE OInv'
  BY <1>7, AnswerKeeps
<1>8. ASSUME NEW app \in Doors, RevokeAll(app) PROVE OInv'
  <2>1. OwnDoor'
    BY <1>8, DoorsApart DEF RevokeAll, Doors, world
  <2> QED
    BY <1>0, <1>8, <2>1, InvalidationKeeps DEF RevokeAll, world
<1>9. ASSUME NEW app \in Doors, RevokeAllCut(app) PROVE OInv'
  <2>1. OwnDoor'
    BY <1>9, DoorsApart DEF RevokeAllCut, Stopped, Doors
  <2> QED
    BY <1>0, <1>9, <2>1, StoppedKeeps DEF RevokeAllCut
<1>10. CASE Revoke
  BY <1>0, <1>10, QuietKeeps DEF Revoke, world
<1>11. CASE Restart
  <2>1. OwnDoor'
    BY <1>11 DEF Restart, OInv, OwnDoor
  <2> QED
    BY <1>0, <1>11, <2>1, StoppedKeeps DEF Restart
<1>12. CASE Tick
  BY <1>0, <1>12, QuietKeeps DEF Tick
<1>13. CASE UNCHANGED ovars
  BY <1>0, <1>13, QuietKeeps DEF ovars
<1> QED
  BY <1>1, <1>2, <1>3, <1>4, <1>5, <1>6, <1>7, <1>8, <1>9, <1>10, <1>11, <1>12, <1>13 DEF Next

\* The invariant holds in every state of the OAuth server.
THEOREM OInvAlways == Spec => []OInv
<1>1. Init => OInv
  BY OInit
<1>2. OInv /\ [Next]_ovars => OInv'
  BY OStep
<1> QED
  BY <1>1, <1>2, PTL DEF Spec

\* Every token refused or usable as it should be, rotation linear, and each door its own, always.
THEOREM AccessAlways == Spec => []AccessInv
<1>1. OInv => AccessInv
  <2> SUFFICES ASSUME OInv PROVE AccessInv
    OBVIOUS
  <2>0. Typed /\ RowsInOrder /\ TokensTrue /\ RotationIsLinear /\ OwnDoor
    BY DEF OInv
  <2>1. TypeOK
    <3>1. \A h \in DOMAIN refresh :
            refresh[h] \in [grant : Grants, resource : 1..endpoint, parent : 0..(h - 1), valid : BOOLEAN]
      <4> SUFFICES ASSUME NEW h \in DOMAIN refresh
                   PROVE  refresh[h] \in [grant : Grants, resource : 1..endpoint, parent : 0..(h - 1),
                                          valid : BOOLEAN]
        OBVIOUS
      <4>1. refresh[h] \in RefreshRows /\ h \in Nat \ {0} /\ refresh[h].parent \in Nat
        BY <2>0, Rows
      <4>2. refresh[h].parent \in 0..(h - 1) /\ refresh[h].resource \in 1..endpoint
        BY <2>0, <4>1 DEF RowsInOrder
      <4> QED
        BY <4>1, <4>2 DEF RefreshRows
    <3>2. \A q \in Requests : requests[q].pc \in {"idle", "signing"}
      BY <2>0, Signing1 DEF Signs
    <3>3. endpoint \in 1..(MaxRestart + 1)
      BY <2>0, BoundAssumption DEF Typed
    <3> QED
      BY <2>0, <3>1, <3>2, <3>3 DEF TypeOK, Typed
  <2>2. RevokedIsRefused /\ IssuedIsUsable
    <3>1. \A t \in access : t.claim \in Nat /\ t.delivered \in Nat
      BY <2>0 DEF Typed, Tokens
    <3>2. epoch \in Nat
      BY <2>0 DEF Typed
    <3> QED
      BY <2>0, <3>1, <3>2 DEF RevokedIsRefused, IssuedIsUsable, Accepts, EpochCurrent, TokensTrue
  <2> QED
    BY <2>0, <2>1, <2>2 DEF AccessInv
<1> QED
  BY <1>1, OInvAlways, PTL

-----------------------------------------------------------------------------
(* What is taken back is taken back whole.                                  *)

\* The walk down a chain of rows is defined: the least set of rows closed under it.
LEMMA WalkDefined ==
  ASSUME Typed, RowsInOrder, NEW h
  PROVE  \E f : f = [k \in 1..Len(refresh) |->
           /\ refresh[k].valid
           /\ refresh[k].parent = h \/ (refresh[k].parent # 0 /\ f[refresh[k].parent])]
<1> DEFINE All == 1..Len(refresh)
           Under(S) == {k \in All : /\ refresh[k].valid
                                    /\ refresh[k].parent = h
                                       \/ (refresh[k].parent # 0 /\ refresh[k].parent \in S)}
           Least == {k \in All : \A S \in SUBSET All : Under(S) \subseteq S => k \in S}
           f == [k \in All |-> k \in Least]
<1>1. Under(Least) \subseteq Least
  <2> SUFFICES ASSUME NEW k \in Under(Least), NEW S \in SUBSET All, Under(S) \subseteq S
               PROVE  k \in S
    OBVIOUS
  <2>1. Least \subseteq S
    OBVIOUS
  <2>2. k \in Under(S)
    BY <2>1
  <2> QED
    BY <2>2
<1>2. Least \subseteq Under(Least)
  <2>1. Under(Under(Least)) \subseteq Under(Least)
    BY <1>1
  <2>2. Under(Least) \in SUBSET All
    OBVIOUS
  <2> DEFINE U == Under(Least)
  <2>3. U \in SUBSET All /\ Under(U) \subseteq U
    BY <2>1, <2>2
  <2> HIDE DEF U
  <2>4. Least \subseteq U
    BY <2>3
  <2> QED
    BY <2>4 DEF U
<1>3. \A k \in All : refresh[k].parent # 0 => refresh[k].parent \in All
  <2> SUFFICES ASSUME NEW k \in All, refresh[k].parent # 0
               PROVE  refresh[k].parent \in All
    OBVIOUS
  <2>1. k \in DOMAIN refresh /\ Len(refresh) \in Nat /\ refresh[k].parent \in Nat
    BY Rows
  <2>2. refresh[k].parent < k
    BY <2>1 DEF RowsInOrder
  <2> QED
    BY <2>1, <2>2
<1>4. \A k \in All : k \in Least <=> k \in Under(Least)
  BY <1>1, <1>2
<1> DEFINE body(k) == /\ refresh[k].valid
                      /\ refresh[k].parent = h \/ (refresh[k].parent # 0 /\ f[refresh[k].parent])
<1>5. \A k \in All : (k \in Least) = body(k)
  <2> SUFFICES ASSUME NEW k \in All PROVE (k \in Least) = body(k)
    OBVIOUS
  <2>1. k \in Least <=> k \in Under(Least)
    BY <1>4
  <2> HIDE DEF Least
  <2>2. refresh[k].parent # 0 => (f[refresh[k].parent] <=> refresh[k].parent \in Least)
    BY <1>3
  <2> HIDE DEF f
  <2>3. (k \in Least) <=> body(k)
    BY <2>1, <2>2
  <2> HIDE DEF body
  <2>4. body(k) \in BOOLEAN
    BY DEF body
  <2> QED
    BY <2>3, <2>4
<1>6. f = [k \in All |-> body(k)]
  <2> HIDE DEF Least, body
  <2> QED
    BY <1>5
<1> QED
  BY <1>6

\* A successor that is still valid is found by the walk.
LEMMA SuccessorReached ==
  ASSUME Typed, RowsInOrder, NEW h, NEW k \in DOMAIN refresh, refresh[k].valid, refresh[k].parent = h
  PROVE  k \in ChainBelow(h)
<1> DEFINE Walk(f) == f = [j \in 1..Len(refresh) |->
              /\ refresh[j].valid
              /\ refresh[j].parent = h \/ (refresh[j].parent # 0 /\ f[refresh[j].parent])]
           reached == CHOOSE f : Walk(f)
<1>1. \E f : Walk(f)
  BY WalkDefined
<1>2. Walk(reached)
  <2> HIDE DEF Walk
  <2> QED
    BY <1>1
<1>3. ChainBelow(h) = {j \in 1..Len(refresh) : reached[j]}
  BY DEF ChainBelow
<1>4. k \in 1..Len(refresh)
  BY Rows
<1> HIDE DEF reached
<1>5. reached[k]
  BY <1>2, <1>4
<1> QED
  BY <1>3, <1>4, <1>5

\* What was disconnected has nothing left to carry it on, and its tokens are of an earlier epoch.
GoneFor(g) ==
  /\ codes[g].used /\ ~codes[g].held /\ InFlight(g) = {} /\ ValidRows(g) = {}
  /\ \A q \in Requests : Signs(q) /\ requests[q].grant = g => requests[q].epoch < epoch
  /\ \A t \in access : t.grant = g => t.claim < epoch

\* ... and no token claims an epoch that has not come yet.
DInv ==
  /\ disconnected \subseteq Grants /\ \A g \in disconnected : GoneFor(g)
  /\ \A t \in access : t.claim <= epoch

\* The epoch, the claims and what a request signs are numbers.
LEMMA Claims ==
  ASSUME OInv
  PROVE  /\ epoch \in Nat /\ access \subseteq Tokens /\ \A t \in access : t.claim \in Nat
         /\ \A q \in Requests : Signs(q) => requests[q].epoch \in Nat /\ requests[q].epoch <= epoch
                                            /\ requests[q].grant \in Grants /\ requests[q].insert \in BOOLEAN
<1>1. Typed /\ HoldsAlone
  BY DEF OInv
<1>2. epoch \in Nat /\ access \subseteq Tokens
  BY <1>1 DEF Typed
<1>3. \A t \in access : t.claim \in Nat
  BY <1>2 DEF Tokens
<1> QED
  BY <1>1, <1>2, <1>3, Signing1 DEF HoldsAlone

\* A step that starts no request, opens no code and makes no row or token valid leaves what is gone gone.
LEMMA GoneKept ==
  ASSUME OInv, DInv, UNCHANGED <<access, disconnected>>, epoch' \in Nat, epoch' >= epoch,
         \A g \in disconnected : codes'[g].used /\ ~codes'[g].held,
         \A g \in disconnected : ValidRows(g)' \subseteq ValidRows(g),
         \A q \in Requests : Signs(q)' => requests'[q] = requests[q] \/ requests'[q].grant \notin disconnected
  PROVE  DInv'
<1>1. ASSUME NEW g \in disconnected PROVE GoneFor(g)'
  <2>0. GoneFor(g) /\ g \in Grants
    BY <1>1 DEF DInv
  <2>1. \A q \in Requests : Signs(q)' /\ requests'[q].grant = g => requests'[q] = requests[q] /\ Signs(q)
    BY <1>1 DEF Signs
  <2>2. InFlight(g)' = {}
    BY <2>0, <2>1 DEF GoneFor, InFlight, Signs
  <2>3. \A q \in Requests : Signs(q)' /\ requests'[q].grant = g => requests'[q].epoch < epoch'
    BY <2>0, <2>1, Claims DEF GoneFor
  <2>4. \A t \in access' : t.grant = g => t.claim < epoch'
    BY <2>0, Claims DEF GoneFor
  <2> QED
    BY <1>1, <2>0, <2>2, <2>3, <2>4 DEF GoneFor
<1>2. \A t \in access' : t.claim <= epoch'
  BY Claims DEF DInv
<1> QED
  BY <1>1, <1>2 DEF DInv

\* Fewer valid rows of every authorization after an invalidation.
LEMMA FewerValid ==
  ASSUME Typed, NEW S, refresh' = Invalidated(S)
  PROVE  \A g \in Grants : ValidRows(g)' \subseteq ValidRows(g)
  BY RowsInvalidated DEF ValidRows

\* An answer adds a token of the epoch its request read, and a row only for what is not gone.
LEMMA AnswerGone ==
  ASSUME OInv, DInv, NEW q \in Requests, Answer(q)
  PROVE  DInv'
<1> DEFINE r == requests[q]
           token == [grant |-> r.grant, aud |-> r.aud, claim |-> r.epoch, delivered |-> epoch, served |-> endpoint]
<1>1. /\ Signs(q) /\ requests' = [requests EXCEPT ![q] = Idle]
      /\ refresh' = IF r.insert THEN Append(refresh, RefreshRow(r.grant, r.aud, r.parent)) ELSE refresh
      /\ access' = access \cup {token}
      /\ UNCHANGED <<codes, epoch, disconnected>>
  BY DEF Answer, world, Signs
<1>2. r.epoch \in Nat /\ r.epoch <= epoch /\ r.grant \in Grants
  BY <1>1, Claims
<1>3. token.grant = r.grant /\ token.claim = r.epoch
  OBVIOUS
<1> HIDE DEF token
<1>4. \A p \in Requests : Signs(p)' => p # q /\ requests'[p] = requests[p] /\ Signs(p)
  BY <1>1 DEF OInv, Typed, Signs, Idle
<1>5. ASSUME NEW g \in disconnected PROVE GoneFor(g)'
  <2>0. GoneFor(g) /\ g \in Grants
    BY <1>5 DEF DInv
  <2>1. InFlight(g)' = {}
    BY <1>4, <2>0 DEF GoneFor, InFlight, Signs
  <2>2. r.insert => r.grant # g
    BY <1>1, <2>0 DEF GoneFor, InFlight, Signs
  <2>3. ValidRows(g)' = {}
    <3>1. CASE ~r.insert
      BY <1>1, <2>0, <3>1 DEF GoneFor, ValidRows
    <3>2. CASE r.insert
      <4> DEFINE row == RefreshRow(r.grant, r.aud, r.parent)
      <4>0. row.grant = r.grant
        BY DEF RefreshRow
      <4> HIDE DEF row
      <4>1. refresh' = Append(refresh, row) /\ refresh \in Seq(RefreshRows)
        BY <1>1, <3>2 DEF OInv, Typed, row
      <4>2. \A k \in DOMAIN refresh' : k = Len(refresh) + 1 \/ (k \in DOMAIN refresh /\ refresh'[k] = refresh[k])
        BY <4>1
      <4>3. refresh'[Len(refresh) + 1] = row
        BY <4>1
      <4> QED
        BY <2>0, <2>2, <3>2, <4>0, <4>2, <4>3 DEF GoneFor, ValidRows
    <3> QED
      BY <3>1, <3>2
  <2>4. \A p \in Requests : Signs(p)' /\ requests'[p].grant = g => requests'[p].epoch < epoch'
    BY <1>1, <1>4, <2>0 DEF GoneFor
  <2>5. \A t \in access' : t.grant = g => t.claim < epoch'
    BY <1>1, <1>3, <2>0 DEF GoneFor
  <2> QED
    BY <1>1, <1>5, <2>0, <2>1, <2>3, <2>4, <2>5 DEF GoneFor
<1>6. \A t \in access' : t.claim <= epoch'
  BY <1>1, <1>2, <1>3 DEF DInv
<1> QED
  BY <1>1, <1>5, <1>6 DEF DInv

\* A completed revoke-all: no row stays valid, and every token out is of an earlier epoch.
LEMMA RevokeAllGone ==
  ASSUME OInv, DInv, NEW app \in Doors, RevokeAll(app)
  PROVE  DInv'
<1>0. Typed
  BY DEF OInv
<1>1. /\ epoch' = epoch + 1 /\ refresh' = Invalidated(DOMAIN refresh)
      /\ disconnected' = disconnected \cup Settled
      /\ UNCHANGED <<codes, requests, access>>
  BY DEF RevokeAll
<1>2. \A g \in Grants : ValidRows(g)' = {}
  <2> DEFINE S == DOMAIN refresh
  <2>1. refresh' = Invalidated(S)
    BY <1>1
  <2> HIDE DEF S
  <2>2. DOMAIN refresh' = DOMAIN refresh /\ \A k \in DOMAIN refresh : refresh'[k].valid => k \notin S
    BY <1>0, <2>1, RowsInvalidated
  <2> QED
    BY <2>2 DEF ValidRows, S
<1>3. ASSUME NEW g \in disconnected' PROVE g \in Grants /\ GoneFor(g)'
  <2>1. g \in Grants /\ codes[g].used /\ ~codes[g].held /\ InFlight(g) = {}
    BY <1>1, <1>3 DEF DInv, GoneFor, Settled
  <2>2. InFlight(g)' = {}
    BY <1>1, <2>1 DEF InFlight
  <2>3. \A q \in Requests : Signs(q)' => requests'[q].epoch < epoch'
    BY <1>1, Claims DEF Signs
  <2>4. \A t \in access' : t.claim < epoch'
    BY <1>1, Claims DEF DInv
  <2> QED
    BY <1>1, <1>2, <2>1, <2>2, <2>3, <2>4 DEF GoneFor
<1>4. \A t \in access' : t.claim <= epoch'
  BY <1>1, Claims DEF DInv
<1> QED
  BY <1>3, <1>4 DEF DInv

\* Every step leaves what was disconnected gone.
LEMMA GoneStep == OInv /\ DInv /\ [Next]_ovars => DInv'
<1> SUFFICES ASSUME OInv, DInv, [Next]_ovars PROVE DInv'
  OBVIOUS
<1>0. /\ Typed /\ epoch \in Nat /\ epoch >= epoch /\ epoch + 1 \in Nat /\ epoch + 1 >= epoch
      /\ \A g \in disconnected : g \in Grants /\ codes[g].used /\ ~codes[g].held
  BY Claims DEF OInv, DInv, GoneFor
<1>1. ASSUME UNCHANGED <<codes, refresh, requests, access, disconnected>>, epoch' \in {epoch, epoch + 1}
      PROVE  DInv'
  BY <1>0, <1>1, GoneKept DEF ValidRows, Signs
<1>2. ASSUME NEW g \in Grants, NEW c \in Clients, NEW app \in Doors, NEW o \in BOOLEAN, Authorize(g, c, app, o)
      PROVE  DInv'
  <2>1. /\ g \notin disconnected /\ \A h \in disconnected : codes'[h] = codes[h]
        /\ UNCHANGED <<refresh, epoch, requests, access, disconnected>>
    BY <1>0, <1>2 DEF Authorize, Typed
  <2> QED
    BY <1>0, <2>1, GoneKept DEF ValidRows, Signs
<1>3. ASSUME NEW q \in Requests, NEW g \in Grants, NEW c \in Clients, NEW m \in BOOLEAN, ExchangeCode(q, g, c, m)
      PROVE  DInv'
  <2>1. /\ g \notin disconnected /\ \A h \in disconnected : codes'[h] = codes[h]
        /\ UNCHANGED <<refresh, epoch, access, disconnected>>
    BY <1>0, <1>3 DEF ExchangeCode, Claimed, Typed
  <2>2. \A p \in Requests : requests'[p] = requests[p] \/ requests'[p].grant = g
    BY <1>0, <1>3 DEF ExchangeCode, Signing, Typed
  <2> QED
    BY <1>0, <2>1, <2>2, GoneKept DEF ValidRows
<1>4. ASSUME NEW h \in 1..MaxRefresh, ReuseRefresh(h) \/ RefreshOutdated(h) PROVE DInv'
  <2>1. PICK S : refresh' = Invalidated(S)
    BY <1>4 DEF ReuseRefresh, RefreshOutdated
  <2>2. UNCHANGED <<codes, epoch, requests, access, disconnected>>
    BY <1>4 DEF ReuseRefresh, RefreshOutdated
  <2> QED
    BY <1>0, <2>1, <2>2, FewerValid, GoneKept DEF Signs
<1>5. ASSUME NEW q \in Requests, NEW h \in 1..MaxRefresh, Rotate(q, h) PROVE DInv'
  <2>1. /\ h \in DOMAIN refresh /\ refresh[h].valid /\ refresh' = Invalidated({h})
        /\ requests' = [requests EXCEPT ![q] = Signing(refresh[h].grant, refresh[h].resource, h, TRUE)]
        /\ UNCHANGED <<codes, epoch, access, disconnected>>
    BY <1>5 DEF Rotate
  <2>2. refresh[h].grant \notin disconnected
    BY <2>1 DEF DInv, GoneFor, ValidRows
  <2>3. \A p \in Requests : requests'[p] = requests[p] \/ requests'[p].grant = refresh[h].grant
    BY <1>0, <2>1 DEF Signing, Typed
  <2> QED
    BY <1>0, <2>1, <2>2, <2>3, FewerValid, GoneKept
<1>6. ASSUME NEW q \in Requests, Answer(q) PROVE DInv'
  BY <1>6, AnswerGone
<1>7. ASSUME NEW app \in Doors, RevokeAll(app) PROVE DInv'
  BY <1>7, RevokeAllGone
<1>8. ASSUME Stopped, epoch' \in {epoch, epoch + 1}, UNCHANGED disconnected PROVE DInv'
  <2>1. /\ codes' = [g \in Grants |-> [held |-> FALSE, used |-> codes[g].used]]
        /\ requests' = [q \in Requests |-> Idle] /\ UNCHANGED <<refresh, access>>
    BY <1>8 DEF Stopped
  <2>2. \A q \in Requests : ~Signs(q)'
    BY <2>1 DEF Signs, Idle
  <2> QED
    BY <1>0, <1>8, <2>1, <2>2, GoneKept DEF ValidRows
<1>9. ASSUME NEW app \in Doors, RevokeAllCut(app) PROVE DInv'
  BY <1>8, <1>9 DEF RevokeAllCut, Stopped
<1>10. CASE Restart
  BY <1>8, <1>10 DEF Restart, Stopped
<1>11. CASE Revoke \/ Tick \/ UNCHANGED ovars \/ \E c \in Clients : Register(c)
  BY <1>1, <1>11 DEF Revoke, Tick, Register, ovars
<1> QED
  BY <1>2, <1>3, <1>4, <1>5, <1>6, <1>7, <1>9, <1>10, <1>11 DEF Next

\* Presenting a spent row spends its successor.
LEMMA ReuseStep ==
  ASSUME OInv, [Next]_ovars
  PROVE  \A h \in reused' \ reused :
           \A k \in DOMAIN refresh : refresh[k].parent = h => ~refresh'[k].valid
<1>0. Typed /\ RowsInOrder
  BY DEF OInv
<1> SUFFICES ASSUME NEW h \in reused' \ reused, NEW k \in DOMAIN refresh, refresh[k].parent = h
             PROVE  ~refresh'[k].valid
  OBVIOUS
<1>1. ReuseRefresh(h)
  <2>1. PICK i \in 1..MaxRefresh : ReuseRefresh(i)
    BY DEF Next, ovars, Register, Authorize, ExchangeCode, RefreshOutdated, Rotate, Answer, RevokeAll,
           RevokeAllCut, Stopped, Revoke, Restart, Tick
  <2> QED
    BY <2>1 DEF ReuseRefresh
<1>2. refresh' = Invalidated(ChainBelow(h))
  BY <1>1 DEF ReuseRefresh
<1>3. refresh[k].valid => k \in ChainBelow(h)
  BY <1>0, SuccessorReached
<1> DEFINE S == ChainBelow(h)
<1>4. refresh' = Invalidated(S) /\ (refresh[k].valid => k \in S)
  BY <1>2, <1>3
<1> HIDE DEF S
<1> QED
  BY <1>0, <1>4, RowsInvalidated

\* The successor goes with its spent parent, and what a completed revoke-all ended stays ended.
THEOREM RevocationAlwaysWhole == Spec => RevocationIsWhole
<1> DEFINE Reuse == \A h \in reused' \ reused :
                      \A k \in DOMAIN refresh : refresh[k].parent = h => ~refresh'[k].valid
<1>1. OInv /\ [Next]_ovars => [Reuse]_ovars
  BY ReuseStep
<1>2. Init => DInv
  BY DEF Init, DInv
<1>3. OInv /\ DInv /\ [Next]_ovars => DInv'
  BY GoneStep
<1>4. OInv /\ DInv => DisconnectedForGood
  <2> SUFFICES ASSUME OInv, DInv, NEW g \in disconnected, NEW t \in access, t.grant = g
               PROVE  ~Accepts(t)
    BY DEF DisconnectedForGood, DInv, GoneFor
  <2> QED
    BY Claims DEF DInv, GoneFor, Accepts, EpochCurrent
<1>5. Spec => [][Reuse]_ovars /\ [][DisconnectedForGood']_ovars
  <2> HIDE DEF Reuse
  <2> QED
    BY <1>1, <1>2, <1>3, <1>4, OInvAlways, PTL DEF Spec
<1> QED
  BY <1>5 DEF RevocationIsWhole, ReuseEndsSuccessor

-----------------------------------------------------------------------------
(* The authorizations follow their contract.                                *)

Carried(g) == InFlight(g) # {} \/ ValidRows(g) # {}

\* The stage of an authorization: under the invariant, it is never forked.
Plain(g) ==
  IF ~codes[g].used THEN "none"
  ELSE IF codes[g].held THEN "offered"
  ELSE IF Carried(g) THEN "live" ELSE "ended"

\* What a code's flags say of what carries its authorization.
LEMMA CodeFlags ==
  ASSUME OInv, NEW g \in Grants
  PROVE  /\ codes[g].held \in BOOLEAN /\ codes[g].used \in BOOLEAN
         /\ codes[g].held => codes[g].used
         /\ Unclaimed(g) => ~Carried(g) /\ redeemed[g] = 0
<1>1. codes[g] \in CodeRows
  BY DEF OInv, Typed
<1>2. Unclaimed(g) => ~Carried(g) /\ redeemed[g] = 0
  BY DEF OInv, NothingBeforeClaim, Carried, InFlight, Signs
<1> QED
  BY <1>1, <1>2 DEF CodeRows

\* The stage as the abstraction computes it is the plain one.
LEMMA StageIsPlain ==
  ASSUME OInv
  PROVE  [g \in Grants |-> Stage(g)] = [g \in Grants |-> Plain(g)]
<1> SUFFICES ASSUME NEW g \in Grants PROVE Stage(g) = Plain(g)
  OBVIOUS
<1>1. CASE ~codes[g].used
  BY <1>1 DEF Stage, Plain
<1>2. CASE codes[g].used /\ codes[g].held
  <2>1. InFlight(g) = {} /\ ValidRows(g) = {}
    BY <1>2, CodeFlags DEF Unclaimed, Carried
  <2> QED
    BY <1>2, <2>1 DEF Stage, Plain
<1>3. CASE codes[g].used /\ ~codes[g].held /\ ~Carried(g)
  <2>1. InFlight(g) = {} /\ ValidRows(g) = {}
    BY <1>3 DEF Carried
  <2>2. ~(\E q \in Requests : InFlight(g) = {q}) /\ ~(\E h \in DOMAIN refresh : ValidRows(g) = {h})
    BY <2>1
  <2> QED
    BY <1>3, <2>1, <2>2 DEF Stage, Plain
<1>4. CASE codes[g].used /\ ~codes[g].held /\ Carried(g)
  <2>0. OneCarrier
    BY DEF OInv
  <2>1. CASE InFlight(g) # {}
    <3>1. PICK q \in Requests : q \in InFlight(g)
      BY <2>1 DEF InFlight
    <3>2. InFlight(g) = {q} /\ ValidRows(g) = {}
      BY <2>0, <3>1 DEF OneCarrier
    <3> QED
      BY <1>4, <3>2 DEF Stage, Plain
  <2>2. CASE InFlight(g) = {}
    <3>1. PICK h \in DOMAIN refresh : h \in ValidRows(g)
      BY <1>4, <2>2 DEF ValidRows, Carried
    <3>2. ValidRows(g) = {h}
      BY <2>0, <3>1 DEF OneCarrier
    <3> QED
      BY <1>4, <2>2, <3>2 DEF Stage, Plain
  <2> QED
    BY <2>1, <2>2
<1> QED
  BY <1>1, <1>2, <1>3, <1>4

Abstract == [g \in Grants |-> Plain(g)]

\* One authorization moves, or none.
LEMMA OthersStay ==
  ASSUME NEW g \in Grants, \A a \in Grants : a # g => Plain(a)' = Plain(a)
  PROVE  Abstract' = [Abstract EXCEPT ![g] = Plain(g)']
  BY DEF Abstract

\* Invalidations, restarts and revocations end authorizations, and leave the others as they were.
LEMMA Ending ==
  ASSUME OInv, OInv', redeemed' = redeemed,
         \A g \in Grants : /\ codes'[g].used = codes[g].used
                           /\ codes'[g].held => codes[g].held
                           /\ Carried(g)' => Carried(g)
  PROVE  \/ Abstract' = Abstract
         \/ \E S \in SUBSET Grants :
              /\ S # {} /\ \A g \in S : Abstract[g] \in {"offered", "live"}
              /\ Abstract' = [g \in Grants |-> IF g \in S THEN "ended" ELSE Abstract[g]]
<1> DEFINE S == {g \in Grants : Plain(g)' # Plain(g)}
<1>1. ASSUME NEW g \in Grants, Plain(g)' # Plain(g)
      PROVE  Plain(g) \in {"offered", "live"} /\ Plain(g)' = "ended"
  <2>1. /\ codes'[g].used = codes[g].used /\ codes'[g].held => codes[g].held
        /\ Carried(g)' => Carried(g)
    OBVIOUS
  <2>2. codes[g].held => codes[g].used /\ ~Carried(g)
    BY CodeFlags DEF Unclaimed
  <2> HIDE DEF Carried
  <2> QED
    BY <1>1, <2>1, <2>2 DEF Plain
<1>2. Abstract' = [g \in Grants |-> IF g \in S THEN "ended" ELSE Abstract[g]]
  BY <1>1 DEF Abstract
<1>3. \A g \in S : Abstract[g] \in {"offered", "live"}
  BY <1>1 DEF Abstract
<1>4. CASE S = {}
  BY <1>2, <1>4 DEF Abstract
<1>5. CASE S # {}
  BY <1>2, <1>3, <1>5
<1> QED
  BY <1>4, <1>5

\* Spent rows carry nothing more.
LEMMA InvalidationEnds ==
  ASSUME Typed, NEW S, refresh' = Invalidated(S), UNCHANGED requests, NEW g \in Grants
  PROVE  Carried(g)' => Carried(g)
<1>1. ValidRows(g)' \subseteq ValidRows(g)
  BY RowsInvalidated DEF ValidRows
<1>2. InFlight(g)' = InFlight(g)
  BY DEF InFlight
<1> QED
  BY <1>1, <1>2 DEF Carried

\* A new code offers its authorization.
LEMMA AuthorizeOffers ==
  ASSUME OInv, NEW g \in Grants, NEW c \in Clients, NEW app \in Doors, NEW o \in BOOLEAN, Authorize(g, c, app, o)
  PROVE  Abstract[g] = "none" /\ Abstract' = [Abstract EXCEPT ![g] = "offered"] /\ redeemed' = redeemed
<1>1. /\ ~codes[g].used /\ redeemed' = redeemed
      /\ codes' = [codes EXCEPT ![g] = [held |-> TRUE, used |-> TRUE, client |-> c, offline |-> o,
                                        expires |-> now + CodeLife]]
      /\ UNCHANGED <<refresh, requests>>
  BY DEF Authorize, world
<1>2. codes'[g].held /\ codes'[g].used /\ \A a \in Grants : a # g => codes'[a] = codes[a]
  BY <1>1 DEF OInv, Typed
<1>3. \A a \in Grants : Carried(a)' = Carried(a)
  BY <1>1 DEF Carried, InFlight, ValidRows
<1>4. Plain(g) = "none" /\ Plain(g)' = "offered" /\ \A a \in Grants : a # g => Plain(a)' = Plain(a)
  BY <1>1, <1>2, <1>3 DEF Plain
<1>5. Abstract' = [Abstract EXCEPT ![g] = Plain(g)']
  BY <1>4, OthersStay
<1> QED
  BY <1>1, <1>4, <1>5 DEF Abstract

\* The exchange of a code claims its authorization, whatever comes of it.
LEMMA ExchangeClaims ==
  ASSUME OInv, NEW q \in Requests, NEW g \in Grants, NEW c \in Clients, NEW m \in BOOLEAN, ExchangeCode(q, g, c, m)
  PROVE  /\ Abstract[g] = "offered" /\ redeemed' = redeemed
         /\ \E s \in {"live", "ended"} : Abstract' = [Abstract EXCEPT ![g] = s]
<1>1. /\ codes[g].held /\ codes' = [codes EXCEPT ![g] = [held |-> FALSE, used |-> TRUE]]
      /\ UNCHANGED <<refresh, redeemed>> /\ requests[q].pc = "idle"
      /\ requests' = requests \/ requests' = [requests EXCEPT ![q] = Signing(g, endpoint, 0, codes[g].offline)]
  BY DEF ExchangeCode, Claimed, world
<1>2. /\ ~codes'[g].held /\ codes'[g].used /\ \A a \in Grants : a # g => codes'[a] = codes[a]
      /\ codes[g].used
  BY <1>1, CodeFlags DEF OInv, Typed
<1>3. \A a \in Grants : a # g => InFlight(a)' = InFlight(a)
  <2> DEFINE r == Signing(g, endpoint, 0, codes[g].offline)
  <2>1. r.grant = g
    BY DEF Signing
  <2>2. \A p \in Requests : requests'[p] = requests[p] \/ (p = q /\ requests'[p] = r)
    <3>1. requests \in [Requests -> {Idle} \cup SigningRows]
      BY DEF OInv, Typed
    <3> HIDE DEF r
    <3>2. CASE requests' = requests
      BY <3>2
    <3>3. CASE requests' = [requests EXCEPT ![q] = r]
      BY <3>1, <3>3
    <3> QED
      BY <1>1, <3>2, <3>3 DEF r
  <2> HIDE DEF r
  <2>3. \A p \in Requests : p # q => requests'[p] = requests[p]
    BY <2>2
  <2>4. ASSUME NEW a \in Grants, a # g, NEW p \in Requests
        PROVE  p \in InFlight(a)' <=> p \in InFlight(a)
    <3>1. CASE p # q
      BY <2>3, <3>1 DEF InFlight
    <3>2. CASE p = q
      BY <1>1, <2>1, <2>2, <2>4, <3>2 DEF InFlight
    <3> QED
      BY <3>1, <3>2
  <2> QED
    BY <2>4 DEF InFlight
<1>4. \A a \in Grants : a # g => Carried(a)' = Carried(a)
  BY <1>1, <1>3 DEF Carried, ValidRows
<1>5. Plain(g) = "offered" /\ Plain(g)' \in {"live", "ended"} /\ \A a \in Grants : a # g => Plain(a)' = Plain(a)
  BY <1>1, <1>2, <1>4 DEF Plain
<1>6. Abstract' = [Abstract EXCEPT ![g] = Plain(g)']
  BY <1>5, OthersStay
<1> QED
  BY <1>1, <1>5, <1>6 DEF Abstract

\* A rotation hands the authorization from its row to its request.
LEMMA RotationCarriesOn ==
  ASSUME OInv, NEW q \in Requests, NEW h \in 1..MaxRefresh, Rotate(q, h)
  PROVE  Abstract' = Abstract /\ redeemed' = redeemed
<1>1. PICK g \in Grants : g = refresh[h].grant
  BY Rows DEF OInv, Rotate
<1> DEFINE r == Signing(g, refresh[h].resource, h, TRUE)
<1>2. /\ requests[q].pc = "idle" /\ h \in DOMAIN refresh /\ refresh[h].valid
      /\ refresh' = Invalidated({h}) /\ requests' = [requests EXCEPT ![q] = r]
      /\ codes' = codes /\ redeemed' = redeemed
  BY <1>1 DEF Rotate, world
<1>3. r.pc = "signing" /\ r.grant = g /\ r.insert
  BY DEF Signing
<1> HIDE DEF r
<1>4. requests'[q] = r /\ \A p \in Requests : p # q => requests'[p] = requests[p]
  BY <1>2 DEF OInv, Typed
<1>5. Carried(g) /\ Carried(g)'
  BY <1>1, <1>2, <1>3, <1>4 DEF Carried, ValidRows, InFlight
<1>6. \A a \in Grants : a # g => InFlight(a)' = InFlight(a)
  BY <1>2, <1>3, <1>4 DEF InFlight
<1>7. \A a \in Grants : a # g => ValidRows(a)' = ValidRows(a)
  <2>1. /\ DOMAIN refresh' = DOMAIN refresh
        /\ \A k \in DOMAIN refresh : /\ refresh'[k].grant = refresh[k].grant
                                     /\ refresh'[k].valid <=> (refresh[k].valid /\ k # h)
    BY <1>2, RowsInvalidated DEF OInv
  <2> QED
    BY <1>1, <2>1 DEF ValidRows
<1>8. \A a \in Grants : Carried(a)' = Carried(a)
  BY <1>5, <1>6, <1>7 DEF Carried
<1>9. \A a \in Grants : Plain(a)' = Plain(a)
  BY <1>2, <1>8 DEF Plain
<1> QED
  BY <1>2, <1>9 DEF Abstract

\* An answer redeems the code it was asked with; one to a rotation only hands the authorization on.
LEMMA AnswerRedeems ==
  ASSUME OInv, NEW q \in Requests, Answer(q)
  PROVE  /\ Abstract' = Abstract
         /\ \/ redeemed' = redeemed
            \/ \E g \in Grants : /\ Abstract[g] \in {"live", "ended"} /\ redeemed[g] = 0
                                 /\ redeemed' = [redeemed EXCEPT ![g] = 1]
<1>0. Typed /\ HoldsAlone
  BY DEF OInv
<1>1. PICK g \in Grants : Signs(q) /\ g = requests[q].grant
  BY <1>0, Signing1 DEF Answer, Signs
<1> DEFINE r == requests[q]
           row == RefreshRow(g, r.aud, r.parent)
<1>2. /\ requests' = [requests EXCEPT ![q] = Idle] /\ codes' = codes
      /\ refresh' = IF r.insert THEN Append(refresh, row) ELSE refresh
      /\ redeemed' = IF r.parent = 0 THEN [redeemed EXCEPT ![g] = @ + 1] ELSE redeemed
  BY <1>1 DEF Answer, world
<1>3. ~Unclaimed(g) /\ r.insert \in BOOLEAN
  BY <1>0, <1>1, Signing1 DEF OInv, NothingBeforeClaim
<1>4. row.grant = g /\ row.valid /\ row \in RefreshRows
  BY <1>0, <1>1, Signing1 DEF RefreshRow, RefreshRows
<1> HIDE DEF row
<1>5. /\ requests'[q] = Idle /\ \A p \in Requests : p # q => requests'[p] = requests[p]
  BY <1>0, <1>2 DEF Typed
<1>6. ASSUME NEW a \in Grants PROVE Carried(a)' = Carried(a)
  <2>1. InFlight(a)' = InFlight(a) \ {q}
    BY <1>5 DEF InFlight, Idle
  <2>2. CASE ~r.insert
    BY <1>2, <2>1, <2>2 DEF Carried, ValidRows, InFlight
  <2>3. CASE r.insert
    <3>1. refresh' = Append(refresh, row) /\ refresh \in Seq(RefreshRows)
      BY <1>0, <1>2, <2>3 DEF Typed
    <3>2. /\ Len(refresh) \in Nat /\ Len(refresh') = Len(refresh) + 1 /\ DOMAIN refresh = 1..Len(refresh)
          /\ \A k \in 1..Len(refresh) : refresh'[k] = refresh[k]
          /\ refresh'[Len(refresh) + 1] = row /\ refresh' \in Seq(RefreshRows)
      BY <1>4, <3>1
    <3>3. DOMAIN refresh' = DOMAIN refresh \cup {Len(refresh) + 1}
      <4>1. DOMAIN refresh' = 1..(Len(refresh) + 1)
        BY <3>2
      <4> QED
        BY <3>2, <4>1
    <3>4. CASE a = g
      <4>1. q \in InFlight(a)
        BY <1>1, <2>3, <3>4 DEF InFlight, Signs
      <4>2. (Len(refresh) + 1) \in ValidRows(a)'
        BY <1>4, <3>2, <3>3, <3>4 DEF ValidRows
      <4> QED
        BY <4>1, <4>2 DEF Carried
    <3>5. CASE a # g
      <4>1. q \notin InFlight(a)
        BY <1>1, <3>5 DEF InFlight
      <4>2. ValidRows(a)' = ValidRows(a)
        BY <1>4, <3>2, <3>3, <3>5 DEF ValidRows
      <4> QED
        BY <2>1, <4>1, <4>2 DEF Carried
    <3> QED
      BY <3>4, <3>5
  <2> QED
    BY <1>3, <2>2, <2>3
<1>7. Abstract' = Abstract
  BY <1>2, <1>6 DEF Abstract, Plain
<1>8. Abstract[g] \in {"live", "ended"}
  BY <1>3 DEF Abstract, Plain, Unclaimed
<1>9. r.parent = 0 => redeemed[g] = 0 /\ redeemed' = [redeemed EXCEPT ![g] = 1]
  <2>1. r.parent = 0 => redeemed[g] = 0
    BY <1>0, <1>1 DEF HoldsAlone
  <2>2. r.parent = 0 => redeemed' = [redeemed EXCEPT ![g] = redeemed[g] + 1]
    BY <1>2
  <2>3. redeemed[g] = 0 => redeemed[g] + 1 = 1
    OBVIOUS
  <2> HIDE DEF r
  <2> QED
    BY <2>1, <2>2, <2>3
<1> QED
  BY <1>2, <1>7, <1>8, <1>9

\* Every step is one of the contract's, or changes nothing it sees.
LEMMA ContractStep ==
  ASSUME OInv, OInv', [Next]_ovars
  PROVE  \/ Abstract' = Abstract /\ redeemed' = redeemed
         \/ \E g \in Grants :
              \/ /\ Abstract[g] = "none" /\ redeemed' = redeemed
                 /\ Abstract' = [Abstract EXCEPT ![g] = "offered"]
              \/ /\ Abstract[g] = "offered" /\ redeemed' = redeemed
                 /\ \E s \in {"live", "ended"} : Abstract' = [Abstract EXCEPT ![g] = s]
              \/ /\ Abstract[g] \in {"live", "ended"} /\ redeemed[g] = 0
                 /\ redeemed' = [redeemed EXCEPT ![g] = 1] /\ Abstract' = Abstract
         \/ \E S \in SUBSET Grants :
              /\ S # {} /\ \A g \in S : Abstract[g] \in {"offered", "live"}
              /\ Abstract' = [g \in Grants |-> IF g \in S THEN "ended" ELSE Abstract[g]]
              /\ redeemed' = redeemed
<1> DEFINE Over == \/ Abstract' = Abstract /\ redeemed' = redeemed
                   \/ \E S \in SUBSET Grants :
                        /\ S # {} /\ \A g \in S : Abstract[g] \in {"offered", "live"}
                        /\ Abstract' = [g \in Grants |-> IF g \in S THEN "ended" ELSE Abstract[g]]
                        /\ redeemed' = redeemed
<1>0. Typed
  BY DEF OInv
<1>1. ASSUME NEW S, refresh' = Invalidated(S), UNCHANGED <<codes, requests, redeemed>> PROVE Over
  <2>1. \A g \in Grants : Carried(g)' => Carried(g)
    BY <1>0, <1>1, InvalidationEnds
  <2> QED
    BY <1>1, <2>1, Ending
<1>2. ASSUME Stopped PROVE Over
  <2>1. /\ codes' = [g \in Grants |-> [held |-> FALSE, used |-> codes[g].used]]
        /\ requests' = [q \in Requests |-> Idle] /\ UNCHANGED <<refresh, redeemed>>
    BY <1>2 DEF Stopped
  <2>2. \A g \in Grants : Carried(g)' => Carried(g)
    BY <2>1 DEF Carried, InFlight, ValidRows, Idle
  <2> QED
    BY <2>1, <2>2, Ending
<1>3. ASSUME UNCHANGED <<codes, refresh, requests, redeemed>> PROVE Over
  BY <1>3 DEF Abstract, Plain, Carried, InFlight, ValidRows
<1>4. ASSUME NEW h \in 1..MaxRefresh, ReuseRefresh(h) \/ RefreshOutdated(h) PROVE Over
  <2>1. \E S : refresh' = Invalidated(S)
    BY <1>4 DEF ReuseRefresh, RefreshOutdated
  <2> QED
    BY <1>1, <1>4, <2>1 DEF ReuseRefresh, RefreshOutdated
<1>5. ASSUME NEW app \in Doors, RevokeAll(app) \/ RevokeAllCut(app) PROVE Over
  <2>1. CASE RevokeAll(app)
    BY <1>1, <2>1 DEF RevokeAll
  <2> QED
    BY <1>2, <1>5, <2>1 DEF RevokeAllCut
<1>6. ASSUME Revoke \/ Tick \/ UNCHANGED ovars \/ \E c \in Clients : Register(c) PROVE Over
  BY <1>3, <1>6 DEF Revoke, Tick, Register, ovars
<1>7. ASSUME Restart PROVE Over
  BY <1>2, <1>7 DEF Restart
<1>8. Over \/ \E g \in Grants :
              \/ /\ Abstract[g] = "none" /\ redeemed' = redeemed
                 /\ Abstract' = [Abstract EXCEPT ![g] = "offered"]
              \/ /\ Abstract[g] = "offered" /\ redeemed' = redeemed
                 /\ \E s \in {"live", "ended"} : Abstract' = [Abstract EXCEPT ![g] = s]
              \/ /\ Abstract[g] \in {"live", "ended"} /\ redeemed[g] = 0
                 /\ redeemed' = [redeemed EXCEPT ![g] = 1] /\ Abstract' = Abstract
  <2> HIDE DEF Over
  <2>4. CASE \E g \in Grants, c \in Clients, app \in Doors, o \in BOOLEAN : Authorize(g, c, app, o)
    BY <2>4, AuthorizeOffers
  <2>5. CASE \E q \in Requests, g \in Grants, c \in Clients, m \in BOOLEAN : ExchangeCode(q, g, c, m)
    BY <2>5, ExchangeClaims
  <2>6. CASE \E q \in Requests, h \in 1..MaxRefresh : Rotate(q, h)
    BY <2>6, RotationCarriesOn DEF Over
  <2>7. CASE \E q \in Requests : Answer(q)
    BY <2>7, AnswerRedeems DEF Over
  <2>8. CASE \E h \in 1..MaxRefresh : ReuseRefresh(h) \/ RefreshOutdated(h)
    BY <1>4, <2>8
  <2>9. CASE \E app \in Doors : RevokeAll(app) \/ RevokeAllCut(app)
    BY <1>5, <2>9
  <2>10. \/ \E c \in Clients : Register(c)
         \/ \E g \in Grants, c \in Clients, app \in Doors, o \in BOOLEAN : Authorize(g, c, app, o)
         \/ \E q \in Requests, g \in Grants, c \in Clients, m \in BOOLEAN : ExchangeCode(q, g, c, m)
         \/ \E h \in 1..MaxRefresh : ReuseRefresh(h) \/ RefreshOutdated(h)
         \/ \E q \in Requests, h \in 1..MaxRefresh : Rotate(q, h)
         \/ \E q \in Requests : Answer(q)
         \/ \E app \in Doors : RevokeAll(app) \/ RevokeAllCut(app)
         \/ Revoke \/ Restart \/ Tick \/ UNCHANGED ovars
    BY DEF Next
  <2> QED
    BY <1>6, <1>7, <2>4, <2>5, <2>6, <2>7, <2>8, <2>9, <2>10
<1> QED
  BY <1>8

\* Every authorization is redeemed once at most, carried by one token at a time, and never comes back.
THEOREM OAuthImplementsContract == Spec => ImplementsContract
<1>1. Init => Contract!Init
  <2> SUFFICES ASSUME Init PROVE Contract!Init
    OBVIOUS
  <2>1. \A g \in Grants : ~codes[g].used
    BY DEF Init, Unused
  <2>2. \A g \in Grants : Plain(g) = "none"
    BY <2>1 DEF Plain
  <2>3. [g \in Grants |-> Stage(g)] = [g \in Grants |-> "none"]
    BY <2>2, OInit, StageIsPlain
  <2> QED
    BY <2>3 DEF Init, Contract!Init
<1>2. OInv /\ OInv' /\ [Next]_ovars => [Contract!Next]_Contract!cvars
  <2> SUFFICES ASSUME OInv, OInv', [Next]_ovars PROVE [Contract!Next]_Contract!cvars
    OBVIOUS
  <2> DEFINE stages == [g \in Grants |-> Stage(g)]
  <2>1. stages = Abstract
    BY StageIsPlain DEF Abstract
  <2>2. stages' = Abstract'
    <3>1. (OInv => [g \in Grants |-> Stage(g)] = [g \in Grants |-> Plain(g)])'
      BY StageIsPlain, PTL
    <3> QED
      BY <3>1 DEF Abstract
  <2>3. \/ stages' = stages /\ redeemed' = redeemed
        \/ \E g \in Grants :
             \/ /\ stages[g] = "none" /\ redeemed' = redeemed
                /\ stages' = [stages EXCEPT ![g] = "offered"]
             \/ /\ stages[g] = "offered" /\ redeemed' = redeemed
                /\ \E s \in {"live", "ended"} : stages' = [stages EXCEPT ![g] = s]
             \/ /\ stages[g] \in {"live", "ended"} /\ redeemed[g] = 0
                /\ redeemed' = [redeemed EXCEPT ![g] = 1] /\ stages' = stages
        \/ \E S \in SUBSET Grants :
             /\ S # {} /\ \A g \in S : stages[g] \in {"offered", "live"}
             /\ stages' = [g \in Grants |-> IF g \in S THEN "ended" ELSE stages[g]]
             /\ redeemed' = redeemed
    <3> HIDE DEF stages
    <3> QED
      BY <2>1, <2>2, ContractStep
  <2> QED
    BY <2>3 DEF Contract!Next, Contract!cvars, Contract!Offer, Contract!Claim, Contract!Redeem, Contract!End
<1> QED
  BY <1>1, <1>2, OInvAlways, PTL DEF Spec, ImplementsContract, Contract!Spec

-----------------------------------------------------------------------------
(* Calls of capabilities (Capability).                                     *)

CallRecord ==
  [pc : {"idle", "inspect", "relist", "sent", "done", "dead"}, provider : Providers,
   task : BOOLEAN, config : Configs \cup {Builtin}, inspected : Risks \cup {"none"},
   listed : Risks \cup {"none"}, row : AuditRow \cup {NoRow}]

OnRecord(call) ==
  call.row.decision = "ALLOWED" /\ call.row.state # "INTENT" /\ call.task

\* What the gate has established of a call that waits for the second listing.
Gated(call) == call.inspected = "read" \/ OnRecord(call)

\* What it has established of a call that may be carried out.
Vouched(call) ==
  /\ call.listed = "read" \/ Gated(call)
  /\ (call.listed \in Guarded /\ call.provider # Native) => call.listed \in call.config.allow

Early == {"idle", "inspect", "relist"}

CallOK(c) ==
  /\ calls[c].pc = "relist" => Gated(calls[c])
  /\ calls[c].pc = "sent" \/ c \in pending \/ c \in effects => Vouched(calls[c])
  /\ calls[c].pc \in {"inspect", "relist"} => calls[c].provider \in Remotes
  /\ c \in pending => calls[c].pc \notin Early /\ (calls[c].provider \in Remotes \/ calls[c].pc = "sent")
  /\ c \in effects => calls[c].pc \notin Early
  /\ c \in answers => calls[c].pc = "done" /\ c \notin pending

CallIsTyped ==
  /\ config \in [Remotes \cup Skills -> Configs \cup {Absent}]
  /\ hint \in [{Native} \cup Remotes -> Hints \cup {"gone"}] /\ hint[Native] # "gone"
  /\ calls \in [Calls -> CallRecord]
  /\ pending \subseteq Calls /\ effects \subseteq Calls /\ answers \subseteq Calls
  /\ changes \in 0..MaxChanges

\* A call that may still be carried out, or was, has passed the gate: the inductive invariant.
CInv == CallIsTyped /\ \A c \in Calls : CallOK(c)

\* The four risks, the rows, and what an entry of the file holds.
LEMMA Values ==
  /\ Risks = {"read", "write", "destructive", "production"}
  /\ Hints \subseteq Risks
  /\ \A entry \in Configs \cup {Builtin} : entry.risk \in Risks /\ entry.allow \in SUBSET Guarded
  BY CapabilityAssumption DEF Risks, Order, Builtin, Guarded

\* A tool that is there is described by one of the risks.
LEMMA DescribedTyped ==
  ASSUME CallIsTyped, NEW p \in Providers, NEW entry \in Configs \cup {Builtin},
         p \in Remotes => hint[p] # "gone"
  PROVE  Described(p, entry) \in Risks
<1>1. entry.risk \in Risks
  BY Values
<1>2. p \notin Skills => hint[p] \in Risks
  BY Values DEF CallIsTyped, Providers
<1> QED
  BY <1>1, <1>2 DEF Described, MaxRisk

\* Ending a call keeps what is on record of it.
LEMMA EndedCall ==
  ASSUME CallIsTyped, NEW c \in Calls, Ends(c)
  PROVE  /\ calls'[c] \in CallRecord
         /\ calls'[c].pc = "done"
         /\ calls'[c].provider = calls[c].provider
         /\ Vouched(calls[c]) => Vouched(calls'[c])
<1> DEFINE r == IF calls[c].row = NoRow THEN NoRow ELSE Failed(calls[c].row)
<1>1. calls[c] \in CallRecord
  BY DEF CallIsTyped
<1>2. calls'[c] = [calls[c] EXCEPT !.pc = "done", !.row = r]
  BY DEF Ends, Update, CallIsTyped
<1>3. r \in AuditRow \cup {NoRow}
  BY <1>1 DEF CallRecord, Failed, AuditRow, AuditState, AuditDecision
<1>4. /\ calls'[c] \in CallRecord /\ calls'[c].pc = "done" /\ calls'[c].row = r
      /\ calls'[c].provider = calls[c].provider /\ calls'[c].task = calls[c].task
      /\ calls'[c].config = calls[c].config
      /\ calls'[c].inspected = calls[c].inspected /\ calls'[c].listed = calls[c].listed
  <2> HIDE DEF r
  <2> QED
    BY <1>1, <1>2, <1>3 DEF CallRecord
<1>5. OnRecord(calls[c]) => r.decision = "ALLOWED" /\ r.state # "INTENT"
  BY <1>1 DEF OnRecord, CallRecord, Failed, AuditRow, Finished, NoRow
<1> QED
  BY <1>4, <1>5 DEF Vouched, Gated, OnRecord

\* Passing the gate establishes what the rest of the call relies on.
LEMMA ClearedCall ==
  ASSUME CallIsTyped, NEW c \in Calls, NEW call \in CallRecord, NEW risk \in Risks,
         Cleared(c, call, risk)
  PROVE  /\ calls'[c] \in CallRecord
         /\ calls'[c].provider = call.provider
         /\ call.provider \in Remotes => calls'[c].pc = "relist" /\ Gated(calls'[c])
         /\ call.provider \notin Remotes => calls'[c].pc = "sent" /\ Vouched(calls'[c])
<1> DEFINE r == IF Recorded(risk) THEN Executing(Allowed(BeginAudit)) ELSE call.row
           remote == call.provider \in Remotes
           pc == IF remote THEN "relist" ELSE "sent"
           listed == IF remote THEN "none" ELSE risk
<1>1. calls'[c] = [call EXCEPT !.pc = pc, !.inspected = risk, !.listed = listed, !.row = r]
  BY DEF Cleared, Update, CallIsTyped
<1>2. /\ Executing(Allowed(BeginAudit)) = [decision |-> "ALLOWED", state |-> "EXECUTING"]
      /\ Executing(Allowed(BeginAudit)) \in AuditRow
  BY DEF Executing, Allowed, BeginAudit, MayExecute, Undecided, AuditRow, AuditDecision, AuditState
<1>3. r \in AuditRow \cup {NoRow}
  BY <1>2 DEF CallRecord
<1>4. /\ calls'[c] \in CallRecord /\ calls'[c].pc = pc /\ calls'[c].row = r
      /\ calls'[c].provider = call.provider /\ calls'[c].task = call.task
      /\ calls'[c].config = call.config
      /\ calls'[c].inspected = risk /\ calls'[c].listed = listed
  <2>1. pc \in {"relist", "sent"} /\ listed \in Risks \cup {"none"}
    OBVIOUS
  <2> HIDE DEF r, pc, listed
  <2> QED
    BY <1>1, <1>3, <2>1 DEF CallRecord
<1>5. Gated(calls'[c])
  BY <1>2, <1>4 DEF Gated, OnRecord, Recorded, Cleared
<1>6. ~remote => Vouched(calls'[c])
  BY <1>4, <1>5 DEF Vouched, Cleared, Permitted
<1> QED
  BY <1>4, <1>5, <1>6

-----------------------------------------------------------------------------
(* Each step of a call.  The other calls keep what is known of them.        *)

\* What is on record of a call only looks at its own entry and row, which another call leaves alone.
LEMMA OthersKeep ==
  ASSUME CInv, NEW c \in Calls, NEW call, Update(c, call),
         NEW d \in Calls \ {c},
         d \in pending' <=> d \in pending,
         d \in effects' <=> d \in effects,
         d \in answers' <=> d \in answers
  PROVE  CallOK(d)'
  BY DEF CInv, CallIsTyped, Update, CallOK

\* The table of calls stays typed when one call changes to a typed one.
LEMMA CallsTyped ==
  ASSUME CallIsTyped, NEW c \in Calls, NEW call, Update(c, call), calls'[c] \in CallRecord
  PROVE  calls' \in [Calls -> CallRecord]
  BY DEF CallIsTyped, Update

\* A new call has the entry the file holds now, and nothing has been vouched for.
LEMMA BeginKeeps ==
  ASSUME CInv, NEW c \in Calls, NEW p \in Providers, NEW task \in BOOLEAN, Begin(c, p, task)
  PROVE  CInv'
<1> DEFINE call == [NoCall EXCEPT !.pc = "inspect", !.provider = p, !.task = task,
                                  !.config = Entry(p)]
<1> USE DEF CInv
<1>1. Entry(p) \in Configs \cup {Builtin}
  BY CapabilityAssumption DEF Begin, Entry, Providers, CallIsTyped
<1>2. /\ call \in CallRecord
      /\ call.pc = "inspect" /\ call.provider = p /\ call.config = Entry(p)
  BY <1>1 DEF CallRecord, NoCall, Providers
<1>3. c \notin pending /\ c \notin effects /\ c \notin answers
  BY DEF Begin, CallOK, Early
<1>4. CASE p \in Remotes
  <2>1. Update(c, call) /\ UNCHANGED <<pending, effects, answers>>
    BY <1>4 DEF Begin
  <2>2. calls'[c] = call
    BY <2>1 DEF Update, CallIsTyped
  <2> HIDE DEF call
  <2>3. CallIsTyped'
    BY <1>2, <2>1, <2>2, CallsTyped DEF CallIsTyped, Begin
  <2>4. CallOK(c)'
    BY <1>2, <1>3, <1>4, <2>1, <2>2 DEF CallOK
  <2>5. \A d \in Calls \ {c} : CallOK(d)'
    BY <2>1, OthersKeep
  <2> QED
    BY <2>3, <2>4, <2>5
<1>5. CASE p \notin Remotes
  <2> DEFINE risk == Described(p, Entry(p))
  <2>1. Cleared(c, call, risk) /\ pending' = pending \cup {c} /\ UNCHANGED <<effects, answers>>
    BY <1>2, <1>5 DEF Begin
  <2>2. risk \in Risks
    BY <1>1, <1>5, DescribedTyped
  <2> HIDE DEF call, risk
  <2>3. calls'[c] \in CallRecord /\ calls'[c].pc = "sent" /\ Vouched(calls'[c])
    BY <1>2, <1>5, <2>1, <2>2, ClearedCall
  <2>4. PICK new : Update(c, new)
    BY <2>1 DEF Cleared
  <2>5. CallIsTyped'
    BY <2>1, <2>3, <2>4, CallsTyped DEF CallIsTyped, Begin
  <2>6. CallOK(c)'
    BY <1>3, <2>1, <2>3 DEF CallOK, Early
  <2>7. \A d \in Calls \ {c} : CallOK(d)'
    BY <2>1, <2>4, OthersKeep
  <2> QED
    BY <2>5, <2>6, <2>7
<1> QED
  BY <1>4, <1>5

\* What is known of a call whose provider answers the first listing.
LEMMA InspectedKeeps ==
  ASSUME CInv, NEW c \in Calls, Inspected(c)
  PROVE  CInv'
<1> DEFINE call == calls[c]
           risk == Described(call.provider, call.config)
<1> USE DEF CInv
<1>1. /\ call \in CallRecord /\ call.pc = "inspect" /\ call.provider \in Remotes
      /\ c \notin pending /\ c \notin effects /\ c \notin answers
      /\ UNCHANGED <<config, hint, pending, effects, answers, changes>>
  BY DEF Inspected, CallIsTyped, CallOK, Early
<1>2. risk \in Risks
  BY <1>1, DescribedTyped DEF Inspected, CallRecord
<1>3. CASE Cleared(c, call, risk)
  <2> HIDE DEF call, risk
  <2>1. calls'[c] \in CallRecord /\ calls'[c].pc = "relist" /\ calls'[c].provider \in Remotes
        /\ Gated(calls'[c])
    BY <1>1, <1>2, <1>3, ClearedCall
  <2>2. PICK new : Update(c, new)
    BY <1>3 DEF Cleared
  <2>3. CallIsTyped'
    BY <1>1, <2>1, <2>2, CallsTyped DEF CallIsTyped
  <2>4. CallOK(c)'
    BY <1>1, <2>1 DEF CallOK
  <2>5. \A d \in Calls \ {c} : CallOK(d)'
    BY <1>1, <2>2, OthersKeep
  <2> QED
    BY <2>3, <2>4, <2>5
<1>4. CASE Ends(c)
  <2> HIDE DEF call, risk
  <2>1. calls'[c] \in CallRecord /\ calls'[c].pc = "done"
    BY <1>4, EndedCall
  <2>2. PICK new : Update(c, new)
    BY <1>4 DEF Ends
  <2>3. CallIsTyped'
    BY <1>1, <2>1, <2>2, CallsTyped DEF CallIsTyped
  <2>4. CallOK(c)'
    BY <1>1, <2>1 DEF CallOK
  <2>5. \A d \in Calls \ {c} : CallOK(d)'
    BY <1>1, <2>2, OthersKeep
  <2> QED
    BY <2>3, <2>4, <2>5
<1> QED
  BY <1>3, <1>4 DEF Inspected

\* The listing before the send drops the call unless the tool is still the one that was cleared.
LEMMA RelistedKeeps ==
  ASSUME CInv, NEW c \in Calls, Relisted(c)
  PROVE  CInv'
<1> DEFINE call == calls[c]
           risk == Described(call.provider, call.config)
           new == [call EXCEPT !.pc = "sent", !.listed = risk]
<1> USE DEF CInv
<1>1. /\ call \in CallRecord /\ call.pc = "relist" /\ call.provider \in Remotes /\ Gated(call)
      /\ c \notin pending /\ c \notin effects /\ c \notin answers
      /\ UNCHANGED <<config, hint, effects, answers, changes>>
  BY DEF Relisted, CallIsTyped, CallOK, Early
<1>2. risk \in Risks
  BY <1>1, DescribedTyped DEF Relisted, CallRecord
<1>3. CASE Permitted(call.provider, call.config, risk)
  <2>1. Update(c, new) /\ pending' = pending \cup {c}
    BY <1>3 DEF Relisted
  <2>2. calls'[c] = new
    BY <2>1 DEF Update, CallIsTyped
  <2> HIDE DEF risk
  <2>3. /\ new \in CallRecord /\ new.pc = "sent" /\ new.provider = call.provider
        /\ new.listed = risk /\ new.config = call.config /\ new.inspected = call.inspected
        /\ new.row = call.row /\ new.task = call.task
    BY <1>1, <1>2 DEF CallRecord
  <2>4. Vouched(new)
    BY <1>1, <1>3, <2>3 DEF Vouched, Gated, OnRecord, Permitted
  <2> HIDE DEF call, new
  <2>5. CallIsTyped'
    BY <1>1, <2>1, <2>2, <2>3, CallsTyped DEF CallIsTyped
  <2>6. CallOK(c)'
    BY <1>1, <2>1, <2>2, <2>3, <2>4 DEF CallOK, Early
  <2>7. \A d \in Calls \ {c} : CallOK(d)'
    BY <1>1, <2>1, OthersKeep
  <2> QED
    BY <2>5, <2>6, <2>7
<1>4. CASE ~Permitted(call.provider, call.config, risk)
  <2>1. Ends(c) /\ UNCHANGED pending
    BY <1>4 DEF Relisted
  <2> HIDE DEF call, risk, new
  <2>2. calls'[c] \in CallRecord /\ calls'[c].pc = "done"
    BY <2>1, EndedCall
  <2>3. PICK ended : Update(c, ended)
    BY <2>1 DEF Ends
  <2>4. CallIsTyped'
    BY <1>1, <2>1, <2>2, <2>3, CallsTyped DEF CallIsTyped
  <2>5. CallOK(c)'
    BY <1>1, <2>1, <2>2 DEF CallOK
  <2>6. \A d \in Calls \ {c} : CallOK(d)'
    BY <1>1, <2>1, <2>3, OthersKeep
  <2> QED
    BY <2>4, <2>5, <2>6
<1> QED
  BY <1>3, <1>4

\* A call given up may still be carried out by a remote provider: what was vouched for stays.
LEMMA FailsKeeps ==
  ASSUME CInv, NEW c \in Calls, Fails(c)
  PROVE  CInv'
<1> USE DEF CInv
<1>1. /\ UNCHANGED <<config, hint, effects, answers, changes>>
      /\ pending' \subseteq pending /\ (c \in pending' => calls[c].provider \in Remotes)
      /\ \A d \in Calls \ {c} : d \in pending' <=> d \in pending
      /\ c \notin answers
  BY DEF Fails, CallOK
<1>2. /\ calls'[c] \in CallRecord /\ calls'[c].pc = "done"
      /\ calls'[c].provider = calls[c].provider
      /\ Vouched(calls[c]) => Vouched(calls'[c])
  BY EndedCall DEF Fails
<1>3. PICK ended : Update(c, ended)
  BY DEF Fails, Ends
<1>4. CallIsTyped'
  BY <1>1, <1>2, <1>3, CallsTyped DEF CallIsTyped
<1>5. CallOK(c)'
  BY <1>1, <1>2 DEF CallOK, Early
<1>6. \A d \in Calls \ {c} : CallOK(d)'
  BY <1>1, <1>3, OthersKeep
<1> QED
  BY <1>4, <1>5, <1>6

\* The provider carries out a request only once, and nothing else of the call changes.
LEMMA CarriesKeeps ==
  ASSUME CInv, NEW c \in Calls, Carries(c)
  PROVE  CInv'
<1>1. CallIsTyped'
  BY DEF CInv, Carries, CallIsTyped
<1>2. \A d \in Calls : CallOK(d)'
  BY DEF CInv, Carries, CallOK, Vouched, Gated, OnRecord
<1> QED
  BY <1>1, <1>2 DEF CInv

\* The answer, and the listing after it, decide how the call ends on record.
LEMMA AnsweredKeeps ==
  ASSUME CInv, NEW c \in Calls, Answered(c)
  PROVE  CInv'
<1> DEFINE call == calls[c]
           r == IF call.row = NoRow THEN NoRow ELSE Succeeded(call.row)
           new == [call EXCEPT !.pc = "done", !.row = r]
<1> USE DEF CInv
<1>1. /\ call \in CallRecord /\ call.pc = "sent" /\ Vouched(call)
      /\ Update(c, new) /\ pending' = pending \ {c} /\ answers' = answers \cup {c}
      /\ UNCHANGED <<config, hint, effects, changes>>
  BY DEF Answered, CallIsTyped, CallOK
<1>2. r \in AuditRow \cup {NoRow}
  BY <1>1 DEF CallRecord, Succeeded, AuditRow, AuditState, AuditDecision
<1>3. OnRecord(call) => r.decision = "ALLOWED" /\ r.state # "INTENT"
  BY <1>1 DEF OnRecord, CallRecord, Succeeded, AuditRow, NoRow
<1> HIDE DEF r
<1>4. /\ new \in CallRecord /\ new.pc = "done" /\ new.row = r
      /\ new.provider = call.provider /\ new.config = call.config /\ new.task = call.task
      /\ new.inspected = call.inspected /\ new.listed = call.listed
  BY <1>1, <1>2 DEF CallRecord
<1>5. Vouched(new)
  BY <1>1, <1>3, <1>4 DEF Vouched, Gated, OnRecord
<1>6. calls'[c] = new
  BY <1>1 DEF Update, CallIsTyped
<1> HIDE DEF call, new
<1>7. CallIsTyped'
  BY <1>1, <1>4, <1>6, CallsTyped DEF CallIsTyped
<1>8. CallOK(c)'
  BY <1>1, <1>4, <1>5, <1>6 DEF CallOK, Early
<1>9. \A d \in Calls \ {c} : CallOK(d)'
  BY <1>1, OthersKeep
<1> QED
  BY <1>7, <1>8, <1>9

-----------------------------------------------------------------------------
(* What happens around the calls.                                           *)

\* An edit of the file changes nothing for a call under way, which keeps the entry it read.
LEMMA EditKeeps ==
  ASSUME CInv, NEW p \in Remotes \cup Skills, EditConfig(p)
  PROVE  CInv'
<1>1. CallIsTyped'
  BY CapabilityAssumption DEF CInv, CallIsTyped, EditConfig, Spend
<1>2. \A d \in Calls : CallOK(d)'
  BY DEF CInv, EditConfig, CallOK, Vouched, Gated, OnRecord
<1> QED
  BY <1>1, <1>2 DEF CInv

\* A provider that describes a tool differently changes none of the calls.
LEMMA RedescribeKeeps ==
  ASSUME CInv, NEW p \in Remotes, Redescribe(p)
  PROVE  CInv'
<1>1. CallIsTyped'
  BY CapabilityAssumption DEF CInv, CallIsTyped, Redescribe, Spend
<1>2. \A d \in Calls : CallOK(d)'
  BY DEF CInv, Redescribe, CallOK, Vouched, Gated, OnRecord
<1> QED
  BY <1>1, <1>2 DEF CInv

\* A crash ends the calls and keeps their rows, for the requests that are on their way.
LEMMA CrashKeeps ==
  ASSUME CInv, Crash
  PROVE  CInv'
<1> USE DEF CInv
<1>1. ASSUME NEW d \in Calls
      PROVE  /\ calls'[d] \in CallRecord /\ calls'[d].pc \in {"idle", "done", "dead"}
             /\ calls'[d].pc \in {"idle", "done"} => calls'[d] = calls[d]
             /\ calls[d].pc \in {"idle", "done"} => calls'[d] = calls[d]
             /\ calls'[d].provider = calls[d].provider
             /\ Vouched(calls[d]) => Vouched(calls'[d])
  <2>1. calls[d] \in CallRecord
    BY DEF CallIsTyped
  <2>2. calls'[d] = IF calls[d].pc \in {"idle", "done"} THEN calls[d]
                    ELSE [calls[d] EXCEPT !.pc = "dead"]
    BY DEF Crash
  <2> QED
    BY <2>1, <2>2 DEF CallRecord, Vouched, Gated, OnRecord
<1>2. calls' = [d \in Calls |-> calls'[d]]
  BY DEF Crash
<1>3. /\ pending' = {c \in pending : calls[c].provider \in Remotes}
      /\ UNCHANGED <<config, hint, effects, answers>> /\ changes' \in 0..MaxChanges
  BY CapabilityAssumption DEF Crash, Spend, CallIsTyped
<1>4. CallIsTyped'
  BY <1>1, <1>2, <1>3 DEF CallIsTyped
<1>5. ASSUME NEW d \in Calls PROVE CallOK(d)'
  BY <1>1, <1>3 DEF CallOK, Early
<1> QED
  BY <1>4, <1>5

-----------------------------------------------------------------------------
(* What the row of a call says.                                             *)

\* A call under way has no finished row, and a finished row tells whether the answer came.
RowTells(c) ==
  /\ calls[c].pc \in {"idle", "inspect"} => calls[c].row = NoRow
  /\ calls[c].pc \in {"relist", "sent"} => calls[c].row.state \notin Finished
  /\ calls[c].row.state \in Finished => (calls[c].row.state = "SUCCEEDED" <=> c \in answers)

\* The rows of a ledger: what ends is not yet ended, and ends as it is told.
LEMMA LedgerRows ==
  ASSUME NEW row \in AuditRow \cup {NoRow}, row.state \notin Finished
  PROVE  /\ row # NoRow /\ Failed(row).state \in Finished => Failed(row).state = "FAILED"
         /\ row # NoRow /\ Succeeded(row).state \in Finished => Succeeded(row).state = "SUCCEEDED"
         /\ NoRow.state \notin Finished
  BY DEF Failed, Succeeded, AuditRow, AuditState, AuditDecision, NoRow, Finished

\* A call that ends without an answer is not recorded as answered (invokeTool's catch).
LEMMA EndsTells ==
  ASSUME CInv, NEW c \in Calls, RowTells(c), Ends(c), UNCHANGED answers,
         calls[c].pc \in {"inspect", "relist", "sent"}
  PROVE  RowTells(c)'
<1> DEFINE row == calls[c].row
           r == IF row = NoRow THEN NoRow ELSE Failed(row)
<1>1. calls[c] \in CallRecord /\ row \in AuditRow \cup {NoRow} /\ c \notin answers
  BY DEF CInv, CallIsTyped, CallRecord, CallOK
<1>2. row.state \notin Finished
  BY DEF RowTells, NoRow, Finished
<1>3. r.state \in Finished => r.state = "FAILED"
  BY <1>1, <1>2, LedgerRows
<1>4. calls'[c] = [calls[c] EXCEPT !.pc = "done", !.row = r]
  BY DEF Ends, Update, CInv, CallIsTyped
<1> HIDE DEF row, r
<1>5. calls'[c].pc = "done" /\ calls'[c].row = r
  BY <1>1, <1>4 DEF CallRecord
<1> QED
  BY <1>1, <1>3, <1>5 DEF RowTells

\* A call that passes the gate has a row that is being executed, or none.
LEMMA ClearedTells ==
  ASSUME CallIsTyped, NEW c \in Calls, NEW call \in CallRecord, NEW risk \in Risks,
         Cleared(c, call, risk), call.row = NoRow
  PROVE  RowTells(c)'
<1> DEFINE r == IF Recorded(risk) THEN Executing(Allowed(BeginAudit)) ELSE call.row
           pc == IF call.provider \in Remotes THEN "relist" ELSE "sent"
           listed == IF call.provider \in Remotes THEN "none" ELSE risk
<1>1. calls'[c] = [call EXCEPT !.pc = pc, !.inspected = risk, !.listed = listed, !.row = r]
  BY DEF Cleared, Update, CallIsTyped
<1>2. r.state \notin Finished
  BY DEF Executing, Allowed, BeginAudit, MayExecute, Undecided, NoRow, Finished
<1>3. pc \in {"relist", "sent"}
  OBVIOUS
<1> HIDE DEF r, pc, listed
<1>4. calls'[c].pc = pc /\ calls'[c].row = r
  BY <1>1 DEF CallRecord
<1> QED
  BY <1>2, <1>3, <1>4 DEF RowTells

\* Another call's row is not touched.
LEMMA OthersTell ==
  ASSUME CallIsTyped, NEW c \in Calls, NEW call, Update(c, call),
         NEW d \in Calls \ {c}, RowTells(d), d \in answers' <=> d \in answers
  PROVE  RowTells(d)'
  BY DEF CallIsTyped, Update, RowTells

\* Each step of a call leaves a row that tells the truth.
LEMMA CallTells ==
  ASSUME CInv, \A d \in Calls : RowTells(d), NEW c \in Calls,
         \/ \E p \in Providers, task \in BOOLEAN : Begin(c, p, task)
         \/ Goes(c)
  PROVE  \A d \in Calls : RowTells(d)'
<1> USE DEF CInv
<1>1. calls[c] \in CallRecord
  BY DEF CallIsTyped
<1>2. ASSUME NEW p \in Providers, NEW task \in BOOLEAN, Begin(c, p, task)
      PROVE  \A d \in Calls : RowTells(d)'
  <2> DEFINE call == [NoCall EXCEPT !.pc = "inspect", !.provider = p, !.task = task,
                                    !.config = Entry(p)]
             risk == Described(p, Entry(p))
  <2>1. Entry(p) \in Configs \cup {Builtin}
    BY <1>2, CapabilityAssumption DEF Begin, Entry, Providers, CallIsTyped
  <2>2. /\ call \in CallRecord /\ call.row = NoRow
        /\ call.pc = "inspect" /\ call.provider = p /\ call.config = Entry(p)
    BY <2>1 DEF CallRecord, NoCall, Providers
  <2>3. UNCHANGED answers
    BY <1>2 DEF Begin
  <2>4. CASE p \in Remotes
    <3>1. Update(c, call)
      BY <1>2, <2>4 DEF Begin
    <3>2. calls'[c] = call
      BY <3>1 DEF Update, CallIsTyped
    <3> HIDE DEF call
    <3>3. RowTells(c)'
      BY <2>2, <3>2 DEF RowTells, NoRow, Finished
    <3> QED
      BY <2>3, <3>1, <3>3, OthersTell
  <2>5. CASE p \notin Remotes
    <3>1. Cleared(c, call, risk)
      BY <1>2, <2>2, <2>5 DEF Begin
    <3>2. risk \in Risks
      BY <2>1, <2>5, DescribedTyped
    <3> HIDE DEF call, risk
    <3>3. RowTells(c)'
      BY <2>2, <3>1, <3>2, ClearedTells
    <3>4. PICK new : Update(c, new)
      BY <3>1 DEF Cleared
    <3> QED
      BY <2>3, <3>3, <3>4, OthersTell
  <2> QED
    BY <2>4, <2>5
<1>3. ASSUME Ends(c), UNCHANGED answers, calls[c].pc \in {"inspect", "relist", "sent"}
      PROVE  \A d \in Calls : RowTells(d)'
  <2>1. RowTells(c)'
    BY <1>3, EndsTells
  <2>2. PICK new : Update(c, new)
    BY <1>3 DEF Ends
  <2> QED
    BY <1>3, <2>1, <2>2, OthersTell
<1>4. CASE Inspected(c)
  <2> DEFINE call == calls[c]
             risk == Described(call.provider, call.config)
  <2>1. /\ call.pc = "inspect" /\ call.row = NoRow /\ call.provider \in Remotes
        /\ UNCHANGED answers
    BY <1>4 DEF Inspected, RowTells, CallOK
  <2>2. risk \in Risks
    BY <1>1, <1>4, <2>1, DescribedTyped DEF Inspected, CallRecord
  <2>3. CASE Cleared(c, call, risk)
    <3> HIDE DEF call, risk
    <3>1. call \in CallRecord
      BY <1>1 DEF call
    <3>2. RowTells(c)'
      BY <2>1, <2>2, <2>3, <3>1, ClearedTells
    <3>3. PICK new : Update(c, new)
      BY <2>3 DEF Cleared
    <3> QED
      BY <2>1, <3>2, <3>3, OthersTell
  <2> QED
    BY <1>3, <1>4, <2>1, <2>3 DEF Inspected
<1>5. CASE Relisted(c)
  <2> DEFINE call == calls[c]
             risk == Described(call.provider, call.config)
             new == [call EXCEPT !.pc = "sent", !.listed = risk]
  <2>1. call.pc = "relist" /\ call.row.state \notin Finished /\ UNCHANGED answers
    BY <1>5 DEF Relisted, RowTells
  <2>2. CASE Update(c, new)
    <3>1. calls'[c] = new
      BY <2>2 DEF Update, CallIsTyped
    <3> HIDE DEF risk
    <3>2. new.pc = "sent" /\ new.row = call.row
      BY <1>1 DEF CallRecord
    <3> HIDE DEF new
    <3>3. RowTells(c)'
      BY <2>1, <3>1, <3>2 DEF RowTells
    <3> QED
      BY <2>1, <2>2, <3>3, OthersTell
  <2> QED
    BY <1>3, <1>5, <2>1, <2>2 DEF Relisted
<1>6. CASE Fails(c)
  BY <1>3, <1>6 DEF Fails
<1>7. CASE Answered(c)
  <2> DEFINE row == calls[c].row
             r == IF row = NoRow THEN NoRow ELSE Succeeded(row)
             new == [calls[c] EXCEPT !.pc = "done", !.row = r]
  <2>1. Update(c, new) /\ answers' = answers \cup {c} /\ row.state \notin Finished
    BY <1>7 DEF Answered, RowTells
  <2>2. row \in AuditRow \cup {NoRow}
    BY <1>1 DEF CallRecord
  <2>3. r.state \in Finished => r.state = "SUCCEEDED"
    BY <2>1, <2>2, LedgerRows
  <2>4. calls'[c] = new
    BY <2>1 DEF Update, CallIsTyped
  <2> HIDE DEF row, r
  <2>5. new.pc = "done" /\ new.row = r
    BY <1>1 DEF CallRecord
  <2> HIDE DEF new
  <2>6. RowTells(c)'
    BY <2>1, <2>3, <2>4, <2>5 DEF RowTells
  <2>7. \A d \in Calls \ {c} : RowTells(d)'
    BY <2>1, OthersTell
  <2> QED
    BY <2>6, <2>7
<1> QED
  BY <1>2, <1>4, <1>5, <1>6, <1>7 DEF Goes

\* Nothing else writes a row: the provider, the operator and a crash leave them as they are.
LEMMA RowsStep ==
  ASSUME CInv, \A d \in Calls : RowTells(d), [CallsNext]_vars
  PROVE  \A d \in Calls : RowTells(d)'
<1>1. CASE \E c \in Calls : Goes(c) \/ \E p \in Providers, task \in BOOLEAN : Begin(c, p, task)
  BY <1>1, CallTells
<1>2. ASSUME UNCHANGED <<calls, answers>> PROVE \A d \in Calls : RowTells(d)'
  BY <1>2 DEF RowTells
<1>3. CASE Crash
  <2>1. ASSUME NEW d \in Calls
        PROVE  /\ calls'[d].row = calls[d].row
               /\ calls'[d].pc = calls[d].pc \/ calls'[d].pc = "dead"
    <3>1. calls[d] \in CallRecord
      BY DEF CInv, CallIsTyped
    <3>2. calls'[d] = IF calls[d].pc \in {"idle", "done"} THEN calls[d]
                      ELSE [calls[d] EXCEPT !.pc = "dead"]
      BY <1>3 DEF Crash
    <3> QED
      BY <3>1, <3>2 DEF CallRecord
  <2>2. UNCHANGED answers
    BY <1>3 DEF Crash
  <2> QED
    BY <2>1, <2>2 DEF RowTells
<1> QED
  BY <1>1, <1>2, <1>3 DEF CallsNext, Carries, EditConfig, Redescribe, vars

-----------------------------------------------------------------------------
(* The theorems.                                                            *)

\* Without calls the invariant is about the typed tables only.
LEMMA CapabilityInit == CallsInit => CInv
<1> SUFFICES ASSUME CallsInit PROVE CInv
  OBVIOUS
<1>1. NoCall \in CallRecord /\ NoCall.pc = "idle"
  BY DEF NoCall, CallRecord, Providers
<1>2. CallIsTyped
  BY <1>1, CapabilityAssumption DEF CallsInit, CallIsTyped
<1>3. \A c \in Calls : CallOK(c)
  BY <1>1 DEF CallsInit, CallOK
<1> QED
  BY <1>2, <1>3 DEF CInv

\* Every step of the capability gate keeps the invariant.
LEMMA CapabilityStep == CInv /\ [CallsNext]_vars => CInv'
<1> SUFFICES ASSUME CInv, [CallsNext]_vars PROVE CInv'
  OBVIOUS
<1>1. ASSUME NEW c \in Calls, NEW p \in Providers, NEW task \in BOOLEAN, Begin(c, p, task)
      PROVE  CInv'
  BY <1>1, BeginKeeps
<1>2. ASSUME NEW c \in Calls, Goes(c) \/ Carries(c) PROVE CInv'
  BY <1>2, InspectedKeeps, RelistedKeeps, FailsKeeps, AnsweredKeeps, CarriesKeeps DEF Goes
<1>3. ASSUME NEW p \in Remotes \cup Skills, EditConfig(p) PROVE CInv'
  BY <1>3, EditKeeps
<1>4. ASSUME NEW p \in Remotes, Redescribe(p) PROVE CInv'
  BY <1>4, RedescribeKeeps
<1>5. CASE Crash
  BY <1>5, CrashKeeps
<1>6. CASE UNCHANGED vars
  BY <1>6 DEF vars, CInv, CallIsTyped, CallOK, Vouched, Gated, OnRecord
<1> QED
  BY <1>1, <1>2, <1>3, <1>4, <1>5, <1>6 DEF CallsNext

\* The inductive invariant: what the gate has established, and what the rows tell.
CallsInv == CInv /\ \A c \in Calls : RowTells(c)

\* A call that has not begun has no row.
LEMMA CallsInvInit == CallsInit => CallsInv
<1> SUFFICES ASSUME CallsInit PROVE CallsInv
  OBVIOUS
<1>1. \A c \in Calls : RowTells(c)
  BY DEF CallsInit, RowTells, NoCall, NoRow, Finished
<1> QED
  BY <1>1, CapabilityInit DEF CallsInv

\* The gate's findings and the rows are what the properties ask for.
LEMMA CapabilityMeaning == CallsInv => CallInv
<1> SUFFICES ASSUME CallsInv PROVE CallInv
  OBVIOUS
<1>1. CallsTypeOK
  BY DEF CallsInv, CInv, CallIsTyped, CallOK, CallsTypeOK, CallRecord
<1>2. EffectsHaveRows /\ GuardedIsAllowed
  BY DEF CallsInv, CInv, CallIsTyped, CallOK, Vouched, Gated, OnRecord, EffectsHaveRows, GuardedIsAllowed
<1>3. OutcomeIsTheAnswer
  BY DEF CallsInv, RowTells, OutcomeIsTheAnswer
<1> QED
  BY <1>1, <1>2, <1>3 DEF CallInv

\* Whatever is carried out by a provider is on record and allowed by the entry the call began
\* with, and a row is recorded as succeeded if and only if its answer came, for any providers,
\* configurations and interleaving of calls, edits and crashes (grande_capability_invoke).
THEOREM CallsAreCleared == CallsSpec => []CallInv
<1>1. CallsInv /\ [CallsNext]_vars => CallsInv'
  BY CapabilityStep, RowsStep DEF CallsInv
<1> QED
  BY <1>1, CallsInvInit, CapabilityMeaning, PTL DEF CallsSpec
=============================================================================
