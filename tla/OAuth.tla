------------------------------- MODULE OAuth -------------------------------
(***************************************************************************)
(* The OAuth server of the Gateway (src/src/oauth.ts), the token epoch     *)
(* (tokenEpoch.ts), the Access gates of its doors (accessGate.ts,          *)
(* consoleAuth.ts) and the two ways of revoking (cli.ts, consoleRoutes.ts).*)
(*                                                                         *)
(* /token signs a JWT with an await: what stands before it (claim the      *)
(* code, spend the refresh token, read the epoch) and what follows it      *)
(* (insert the next refresh token, answer) are two actions.  Codes are in  *)
(* memory, clients, refresh tokens and the epoch in the database.          *)
(***************************************************************************)
EXTENDS Naturals, Sequences

CONSTANTS
  Clients, Grants,   \* client ids; authorization codes, one for each authorization
  Requests,          \* concurrent POST /token requests
  CodeLife,          \* a code's lifetime in clock units (10 minutes)
  MaxRefresh,        \* bound: rows of oauth_refresh
  MaxEpoch,          \* bound: the token epoch
  MaxNow,            \* bound: the clock
  MaxRestart         \* bound: Gateway restarts

ASSUME BoundAssumption ==
  /\ {CodeLife, MaxEpoch} \subseteq Nat \ {0}
  /\ {MaxRefresh, MaxNow, MaxRestart} \subseteq Nat

VARIABLES
  auds,       \* configuration: the Access audience of /authorize and of the Console
  entered,    \* history: the doors passed, with the application whose assertion opened them
  clients,    \* table oauth_client
  endpoint,   \* the endpoint the issuer setting gives this process
  codes,      \* in memory: the code of each authorization
  refresh,    \* table oauth_refresh, in the order of insertion
  epoch,      \* table oauth_epoch
  requests,   \* the POST /token requests, at their await
  access,     \* the access tokens delivered
  reused,     \* history: the refresh rows presented again after they were spent
  disconnected, \* history: the authorizations a completed revoke-all ended
  redeemed,   \* history: how often each code was turned into tokens
  now, restarts

ovars == <<auds, entered, clients, endpoint, codes, refresh, epoch, requests, access, reused, disconnected,
           redeemed, now, restarts>>
world == <<auds, now, restarts, clients, endpoint>>

(* A refresh row names the row it replaces (parent, 0 for none); grant is   *)
(* history: the authorization it descends from.                             *)
RefreshRow(g, res, parent) == [grant |-> g, resource |-> res, parent |-> parent, valid |-> TRUE]
Idle == [pc |-> "idle"]
Unused == [held |-> FALSE, used |-> FALSE]

(* currentEpoch of a database nobody has revoked in yet.                    *)
NoEpochRow == 1

Init ==
  /\ auds \in [mcp : {"a", "b"}, console : {"a", "b"}]
  /\ auds.mcp # auds.console
  /\ entered = {}
  /\ clients = {}
  /\ endpoint = 1
  /\ codes = [g \in Grants |-> Unused]
  /\ refresh = <<>>
  /\ epoch = NoEpochRow
  /\ requests = [q \in Requests |-> Idle]
  /\ access = {}
  /\ reused = {}
  /\ disconnected = {}
  /\ redeemed = [g \in Grants |-> 0]
  /\ now = 0 /\ restarts = 0

-----------------------------------------------------------------------------
(* assertApproved: the assertion must carry the audience of this door.      *)
Approved(door, app) == auds[app] = auds[door]

Register(c) ==
  /\ c \notin clients
  /\ clients' = clients \cup {c}
  /\ UNCHANGED <<auds, entered, endpoint, codes, refresh, epoch, requests, access, reused, disconnected, redeemed,
                 now, restarts>>

(* GET /authorize: the gate, then a registered client, then a fresh code.   *)
Authorize(g, c, app, offline) ==
  /\ Approved("mcp", app)
  /\ c \in clients
  /\ ~codes[g].held /\ ~codes[g].used
  /\ codes' = [codes EXCEPT ![g] = [held |-> TRUE, used |-> TRUE, client |-> c,
                                    offline |-> offline, expires |-> now + CodeLife]]
  /\ entered' = entered \cup {<<"mcp", app>>}
  /\ UNCHANGED <<world, refresh, epoch, requests, access, reused, disconnected, redeemed>>

Claimed(g) == [codes EXCEPT ![g] = [held |-> FALSE, used |-> TRUE]]

Signing(g, aud, parent, insert) ==
  [pc |-> "signing", grant |-> g, aud |-> aud, epoch |-> epoch, parent |-> parent, insert |-> insert]

\* Mutant: the code is deleted only once the tokens are there.
ExchangeCode_LateDelete(q, g, c, matches) ==
  /\ requests[q].pc = "idle"
  /\ codes[g].held
  /\ now <= codes[g].expires /\ matches /\ c = codes[g].client
  /\ requests' = [requests EXCEPT ![q] = Signing(g, endpoint, 0, codes[g].offline)]
  /\ UNCHANGED <<world, entered, codes, refresh, epoch, access, reused, disconnected, redeemed>>

(* grant_type=authorization_code, up to the signature: the code is looked   *)
(* up and deleted before anything about it is checked, so one wrong         *)
(* verifier, client or redirect uses it up.                                 *)
ExchangeCode(q, g, c, matches) ==
  /\ requests[q].pc = "idle"
  /\ codes[g].held
  /\ codes' = Claimed(g)
  /\ requests' = IF now <= codes[g].expires /\ matches /\ c = codes[g].client
                 THEN [requests EXCEPT ![q] = Signing(g, endpoint, 0, codes[g].offline)]
                 ELSE requests
  /\ UNCHANGED <<world, entered, refresh, epoch, access, reused, disconnected, redeemed>>

(* invalidateChain: the rows reached from h through children still valid.   *)
ChainBelow(h) ==
  LET reached[k \in 1..Len(refresh)] ==
        /\ refresh[k].valid
        /\ refresh[k].parent = h \/ (refresh[k].parent # 0 /\ reached[refresh[k].parent])
  IN {k \in 1..Len(refresh) : reached[k]}

Invalidated(S) == [k \in DOMAIN refresh |-> IF k \in S THEN [refresh[k] EXCEPT !.valid = FALSE] ELSE refresh[k]]

(* grant_type=refresh_token with a row that was spent before.               *)
ReuseRefresh(h) ==
  /\ h \in DOMAIN refresh
  /\ ~refresh[h].valid
  /\ refresh' = Invalidated(ChainBelow(h))
  /\ reused' = reused \cup {h}
  /\ UNCHANGED <<world, entered, codes, epoch, requests, access, disconnected, redeemed>>

(* ... with a row of an endpoint this process no longer serves.             *)
RefreshOutdated(h) ==
  /\ h \in DOMAIN refresh
  /\ refresh[h].valid
  /\ refresh[h].resource # endpoint
  /\ refresh' = Invalidated({h})
  /\ UNCHANGED <<world, entered, codes, epoch, requests, access, reused, disconnected, redeemed>>

(* ... with a valid row: it is spent before the signature.                  *)
Rotate(q, h) ==
  /\ requests[q].pc = "idle"
  /\ h \in DOMAIN refresh
  /\ refresh[h].valid
  /\ refresh[h].resource = endpoint
  /\ refresh' = Invalidated({h})
  /\ requests' = [requests EXCEPT ![q] = Signing(refresh[h].grant, refresh[h].resource, h, TRUE)]
  /\ UNCHANGED <<world, entered, codes, epoch, access, reused, disconnected, redeemed>>

(* After the signature: the next refresh row, if any, and the answer.       *)
Answer(q) ==
  LET r == requests[q] IN
  /\ r.pc = "signing"
  /\ r.insert => Len(refresh) < MaxRefresh
  /\ refresh' = IF r.insert THEN Append(refresh, RefreshRow(r.grant, r.aud, r.parent)) ELSE refresh
  /\ access' = access \cup {[grant |-> r.grant, aud |-> r.aud, claim |-> r.epoch,
                               delivered |-> epoch, served |-> endpoint]}
  /\ redeemed' = IF r.parent = 0 THEN [redeemed EXCEPT ![r.grant] = @ + 1] ELSE redeemed
  /\ requests' = [requests EXCEPT ![q] = Idle]
  /\ UNCHANGED <<world, entered, codes, epoch, reused, disconnected>>

-----------------------------------------------------------------------------
\* Mutant: a claim equal to the epoch before is good enough.
EpochCurrent_Lenient(claim) == claim + 1 >= epoch

(* isEpochCurrent, read from the database for every request.                *)
EpochCurrent(claim) == claim >= epoch

(* verifyBearer                                                             *)
Accepts(t) == t.aud = endpoint /\ EpochCurrent(t.claim)

(* grande revoke --yes, from a process of its own: bumpEpoch only.          *)
Revoke ==
  /\ epoch < MaxEpoch
  /\ epoch' = epoch + 1
  /\ UNCHANGED <<world, entered, codes, refresh, requests, access, reused, disconnected, redeemed>>

(* The authorizations nothing under way can carry on: their code is gone,   *)
(* and no request that inserts a refresh row is at its signature.           *)
InFlight(g) == {q \in Requests : requests[q].pc = "signing" /\ requests[q].grant = g /\ requests[q].insert}
Settled == {g \in Grants : codes[g].used /\ ~codes[g].held /\ InFlight(g) = {}}

\* Mutant: what the command line does; the statement on the refresh rows is missing.
RevokeAll_EpochOnly(app) ==
  /\ Approved("console", app)
  /\ epoch < MaxEpoch
  /\ epoch' = epoch + 1
  /\ entered' = entered \cup {<<"console", app>>}
  /\ disconnected' = disconnected \cup Settled
  /\ UNCHANGED <<world, codes, refresh, requests, access, reused, redeemed>>

(* POST /console/revoke-all: the epoch, then every valid refresh row.       *)
RevokeAll(app) ==
  /\ Approved("console", app)
  /\ epoch < MaxEpoch
  /\ epoch' = epoch + 1
  /\ refresh' = Invalidated(DOMAIN refresh)
  /\ entered' = entered \cup {<<"console", app>>}
  /\ disconnected' = disconnected \cup Settled
  /\ UNCHANGED <<world, codes, requests, access, reused, redeemed>>

(* The Gateway restarts: codes and requests are gone; the issuer setting    *)
(* may give another endpoint.                                               *)
Stopped ==
  /\ restarts < MaxRestart
  /\ restarts' = restarts + 1
  /\ endpoint' \in {endpoint, endpoint + 1}
  /\ codes' = [g \in Grants |-> [held |-> FALSE, used |-> codes[g].used]]
  /\ requests' = [q \in Requests |-> Idle]
  /\ UNCHANGED <<auds, clients, refresh, access, reused, disconnected, redeemed, now>>

Restart == Stopped /\ UNCHANGED <<epoch, entered>>

(* ... and it may stop between the two statements of a revoke-all: the      *)
(* epoch is up, the refresh rows stay valid, and nothing was disconnected.  *)
RevokeAllCut(app) ==
  /\ Approved("console", app)
  /\ epoch < MaxEpoch
  /\ epoch' = epoch + 1
  /\ entered' = entered \cup {<<"console", app>>}
  /\ Stopped

Tick ==
  /\ now < MaxNow
  /\ now' = now + 1
  /\ UNCHANGED <<auds, entered, clients, endpoint, codes, refresh, epoch, requests, access, reused, disconnected,
                 redeemed, restarts>>

Doors == {"mcp", "console"}

Next ==
  \/ \E c \in Clients : Register(c)
  \/ \E g \in Grants, c \in Clients, app \in Doors, o \in BOOLEAN : Authorize(g, c, app, o)
  \/ \E q \in Requests, g \in Grants, c \in Clients, m \in BOOLEAN : ExchangeCode(q, g, c, m)
  \/ \E h \in 1..MaxRefresh : ReuseRefresh(h) \/ RefreshOutdated(h)
  \/ \E q \in Requests, h \in 1..MaxRefresh : Rotate(q, h)
  \/ \E q \in Requests : Answer(q)
  \/ \E app \in Doors : RevokeAll(app) \/ RevokeAllCut(app)
  \/ Revoke \/ Restart \/ Tick

Spec == Init /\ [][Next]_ovars

-----------------------------------------------------------------------------
ValidRows(g) == {h \in DOMAIN refresh : refresh[h].grant = g /\ refresh[h].valid}

TypeOK ==
  /\ clients \subseteq Clients
  /\ epoch \in 1..MaxEpoch /\ now \in 0..MaxNow /\ restarts \in 0..MaxRestart
  /\ endpoint \in 1..(MaxRestart + 1)
  /\ redeemed \in [Grants -> Nat]
  /\ \A h \in DOMAIN refresh :
       refresh[h] \in [grant : Grants, resource : 1..endpoint, parent : 0..(h - 1), valid : BOOLEAN]
  /\ \A q \in Requests : requests[q].pc \in {"idle", "signing"}

(* An access token that was out when somebody revoked is refused from then  *)
(* on, and one whose signature was under way at that moment was never good. *)
RevokedIsRefused ==
  \A t \in access : t.delivered < epoch => ~Accepts(t)

(* A token just issued is one this process accepts, unless somebody revoked *)
(* while it was being signed: a client that refreshes is never sent round   *)
(* in circles by an endpoint that has changed (the comment at oauth.ts:385).*)
IssuedIsUsable ==
  \A t \in access : t.served = endpoint /\ t.claim = epoch => Accepts(t)

(* One refresh token is exchanged at most once, however many requests carry *)
(* it at the same time, across restarts too: no row has two successors.     *)
RotationIsLinear ==
  \A h, k \in DOMAIN refresh : refresh[h].parent = refresh[k].parent /\ refresh[h].parent # 0 => h = k

(* Presenting a spent refresh token spends its successor, if it has one: a  *)
(* reply that was lost and repeated leaves no second holder (tests/oauth:472). *)
ReuseEndsSuccessor ==
  [][\A h \in reused' \ reused :
       \A k \in DOMAIN refresh : refresh[k].parent = h => ~refresh'[k].valid]_ovars

(* Once a revoke-all of the Console completed, an authorization nothing     *)
(* carried on at that moment never comes back, whatever is presented,       *)
(* answered, restarted or revoked later: no code, no refresh row, no token, *)
(* not even one whose signature was under way, opens a door again.          *)
(* A stop between its two writes (RevokeAllCut) promises nothing of this:   *)
(* the rows it left valid go on under the new epoch.                        *)
DisconnectedForGood ==
  \A g \in disconnected :
    /\ ~codes[g].held /\ InFlight(g) = {} /\ ValidRows(g) = {}
    /\ \A t \in access : t.grant = g => ~Accepts(t)

(* Each door is passed only with an assertion for its own application.      *)
OwnDoor == \A e \in entered : e[1] = e[2]

(* What a client holds is what it was given: nothing revoked opens a door,  *)
(* nothing just issued is useless, and no token is exchanged twice.         *)
AccessInv == TypeOK /\ RevokedIsRefused /\ IssuedIsUsable /\ RotationIsLinear /\ OwnDoor

(* What is taken back is taken back whole: the successor with its spent     *)
(* parent, and an authorization disconnected once, for good.                *)
RevocationIsWhole == ReuseEndsSuccessor /\ [][DisconnectedForGood']_ovars

(* The authorizations seen as OAuthContract sees them.                      *)
Stage(g) ==
  IF ~codes[g].used THEN "none"
  ELSE CASE codes[g].held /\ InFlight(g) = {} /\ ValidRows(g) = {} -> "offered"
         [] ~codes[g].held /\ (\E q \in Requests : InFlight(g) = {q}) /\ ValidRows(g) = {} -> "live"
         [] ~codes[g].held /\ InFlight(g) = {} /\ (\E h \in DOMAIN refresh : ValidRows(g) = {h}) -> "live"
         [] ~codes[g].held /\ InFlight(g) = {} /\ ValidRows(g) = {} -> "ended"
         [] OTHER -> "forked"

Contract == INSTANCE OAuthContract WITH stage <- [g \in Grants |-> Stage(g)]

(* An authorization is redeemed once, carried by one refresh token at a     *)
(* time, and does not come back once it ended.                              *)
ImplementsContract == Contract!Spec
=============================================================================
