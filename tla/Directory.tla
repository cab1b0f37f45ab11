------------------------------ MODULE Directory ------------------------------
(***************************************************************************)
(* An identity provider that keeps an organisation's members in step with  *)
(* its own directory over SCIM (routes/enterprise.rs, enterprise/scim.rs). *)
(* The provider repeats a call that was not answered with success; that    *)
(* side is external.                                                       *)
(***************************************************************************)
EXTENDS Tenant, Sequences, TLC

CONSTANTS
  Person,
  MaxMoves    \* bound: people hired or gone

ScimOp == {"create", "on", "off", "delete"}
ScimCall == [op : ScimOp, whom : Person]

ASSUME DirectoryAssumption ==
  IsFiniteSet(Person) /\ None \notin Person \cup ScimCall /\ MaxMoves \in Nat

VARIABLES
  manner,    \* how the provider tells of a departure: "patch" or "delete"
  employed,  \* the provider's directory
  told,      \* what the provider was last told of each person, or unsure
  accounts,  \* users
  seats,     \* org_memberships: each person's role
  working,   \* people who have created a key that still works
  calling,   \* the call each slot serves: its operation and the person
  moves

directoryVars == <<manner, employed, told, accounts, seats, working, calling, moves>>

Seat == {"owner", "member", None}

DirectoryTypeOK ==
  /\ manner \in {"patch", "delete"}
  /\ employed \subseteq Person /\ accounts \subseteq Person /\ working \subseteq Person
  /\ told \in [Person -> {"unsure", "active", "inactive"}]
  /\ seats \in [Person -> Seat]
  /\ \A c \in Call : calling[c] = None \/ calling[c] \in ScimCall
  /\ moves \in 0 .. MaxMoves

Seated == {p \in Person : seats[p] # None}

DirectoryInit ==
  /\ manner \in {"patch", "delete"}
  /\ seats \in [Person -> Seat] /\ \E p \in Person : seats[p] = "owner"
  /\ accounts = Seated
  /\ working = {}
  /\ employed = Seated /\ told = [p \in Person |-> IF p \in Seated THEN "active" ELSE "unsure"]
  /\ calling = [c \in Call |-> None]
  /\ moves = 0

-----------------------------------------------------------------------------
(* What a call says                                                        *)

\* The addresses of a payload, a primary one first if there is one; a userName may be an address.
Payload ==
  [primary : Person \cup {None}, first : Person \cup {None}, userName : Person \cup {None}]

ProvisioningEmail(u) ==
  IF u.primary # None THEN u.primary ELSE IF u.first # None THEN u.first ELSE u.userName

Payloads(p) ==
  {[primary |-> p, first |-> p, userName |-> None], [primary |-> None, first |-> p, userName |-> p],
   [primary |-> None, first |-> None, userName |-> p],
   [primary |-> None, first |-> None, userName |-> None]}

\* A change as providers send it: of `active` by path, or in an object without one; a value is a
\* Boolean or its spelling.
Change == [op : {"add", "replace", "remove"}, path : {"active", "name", None}, value : {"bool", "text", "other"}]

Coerced(v) == v \in {"bool", "text"}

\* The changes that decide; the first of them does.
Deciding(c) == c.op \in {"add", "replace"} /\ c.path \in {"active", None} /\ Coerced(c.value)

\* Okta's, Entra's and a change of name that comes first.
Changes ==
  LET named == [op |-> "replace", path |-> "name", value |-> "other"] IN
  {<<[op |-> "replace", path |-> "active", value |-> "text"]>>,
   <<[op |-> "replace", path |-> None, value |-> "bool"]>>,
   <<named, [op |-> "add", path |-> "active", value |-> "bool"]>>}

ActiveChange(s) == \E i \in 1 .. Len(s) : Deciding(s[i])

-----------------------------------------------------------------------------
(* The provider (external)                                                 *)

Move(p) ==
  /\ moves < MaxMoves /\ moves' = moves + 1
  /\ employed' = IF p \in employed THEN employed \ {p} ELSE employed \cup {p}
  /\ UNCHANGED <<tenantVars, manner, told, accounts, seats, working, calling>>

\* The provider has one call for a person at a time.
Quiet(p) == p \notin {calling[c].whom : c \in {d \in Call : calling[d] # None}}

\* A call that may give a seat leaves the provider unsure until it is answered.
Calls(c, op, p, to) ==
  /\ Quiet(p)
  /\ Goes(c, "idle", to) /\ calling' = [calling EXCEPT ![c] = [op |-> op, whom |-> p]]
  /\ told' = IF op = "on" THEN [told EXCEPT ![p] = "unsure"] ELSE told
  /\ UNCHANGED <<plan, faults, manner, employed, accounts, seats, working, moves>>

\* A payload without an address is refused before anything is read.
Provision(c, p) ==
  /\ p \in employed /\ told[p] = "unsure"
  /\ \E u \in Payloads(p) : ProvisioningEmail(u) = p
  /\ Calls(c, "create", p, "find")

\* A patch that changes nothing the gateway acts on is answered as if it had been done.
Reactivate(c, p) ==
  /\ p \in employed /\ told[p] = "inactive"
  /\ \E s \in Changes : Calls(c, "on", p, IF ActiveChange(s) THEN "join" ELSE "joined")

Deactivate(c, p) ==
  /\ manner = "patch" /\ p \notin employed /\ told[p] = "active"
  /\ \E s \in Changes : Calls(c, "off", p, IF ActiveChange(s) THEN "remove" ELSE "removed")

Delete(c, p) ==
  /\ manner = "delete" /\ p \notin employed /\ told[p] = "active"
  /\ Calls(c, "delete", p, "remove")

\* scim_list_users and scim_get_user: whoever has a seat is listed, as active.
Listed(p) == IF p \in Seated THEN "active" ELSE "unsure"

LookUp(p) ==
  /\ Quiet(p) /\ told[p] # "inactive" /\ told[p] # Listed(p)
  /\ told' = [told EXCEPT ![p] = Listed(p)]
  /\ UNCHANGED <<tenantVars, manner, employed, accounts, seats, working, calling, moves>>

-----------------------------------------------------------------------------
(* The handlers, one statement at a time                                   *)

Ends(c, from) == Goes(c, from, "idle") /\ calling' = [calling EXCEPT ![c] = None]

\* The call is answered with success.
Answers(c, from, state) ==
  Ends(c, from) /\ told' = [told EXCEPT ![calling[c].whom] = state]

\* Mutant of FindUserByEmail: an account that exists is a conflict.
FindUserConflict(c) ==
  /\ pc[c] = "find"
  /\ IF calling[c].whom \in accounts THEN Ends(c, "find") ELSE Goes(c, "find", "create") /\ UNCHANGED calling
  /\ UNCHANGED <<plan, faults, manner, employed, told, accounts, seats, working, moves>>

FindUserByEmail(c) ==
  /\ pc[c] = "find"
  /\ Goes(c, "find", IF calling[c].whom \in accounts THEN "join" ELSE "create")
  /\ UNCHANGED <<plan, faults, directoryVars>>

CreateAccount(c) ==
  /\ Goes(c, "create", "join")
  /\ accounts' = accounts \cup {calling[c].whom}
  /\ UNCHANGED <<plan, faults, manner, employed, told, seats, working, calling, moves>>

\* add_member: whoever the person was, the seat is a member's.
TakeSeat(c) ==
  /\ Goes(c, "join", "joined")
  /\ seats' = [seats EXCEPT ![calling[c].whom] = "member"]
  /\ UNCHANGED <<plan, faults, manner, employed, told, accounts, working, calling, moves>>

\* The audit entry, whose failure is ignored, and the answer.
AnswerJoined(c) ==
  /\ Answers(c, "joined", "active")
  /\ UNCHANGED <<plan, faults, manner, employed, accounts, seats, working, moves>>

LastOwner(p) == seats[p] = "owner" /\ \A q \in Person \ {p} : seats[q] # "owner"

\* remove_member is one transaction and refuses the last owner.
LeaveSeat(c) ==
  /\ pc[c] = "remove" /\ ~LastOwner(calling[c].whom)
  /\ Goes(c, "remove", "revoke")
  /\ seats' = [seats EXCEPT ![calling[c].whom] = None]
  /\ UNCHANGED <<plan, faults, manner, employed, told, accounts, working, calling, moves>>

\* Mutant of KeepSeat: a refused removal is ignored by both calls.
KeepSeatIgnored(c) ==
  /\ pc[c] = "remove" /\ LastOwner(calling[c].whom)
  /\ Goes(c, "remove", "revoke") /\ UNCHANGED calling
  /\ UNCHANGED <<plan, faults, manner, employed, told, accounts, seats, working, moves>>

\* scim_patch_user answers with the refusal, scim_delete_user goes on.
KeepSeat(c) ==
  /\ pc[c] = "remove" /\ LastOwner(calling[c].whom)
  /\ IF calling[c].op = "delete" THEN Goes(c, "remove", "revoke") /\ UNCHANGED calling
                                 ELSE Ends(c, "remove")
  /\ UNCHANGED <<plan, faults, manner, employed, told, accounts, seats, working, moves>>

RevokeWorking(c) ==
  /\ Goes(c, "revoke", "removed")
  /\ working' = working \ {calling[c].whom}
  /\ UNCHANGED <<plan, faults, manner, employed, told, accounts, seats, calling, moves>>

AnswerRemoved(c) ==
  /\ Answers(c, "removed", "inactive")
  /\ UNCHANGED <<plan, faults, manner, employed, accounts, seats, working, moves>>

\* A statement fails: the call is answered with the error, or its connection is gone.
CallFails(c) ==
  /\ Fault
  /\ pc[c] # "idle" /\ Ends(c, pc[c])
  /\ UNCHANGED <<plan, manner, employed, told, accounts, seats, working, moves>>

\* scim_delete_user ignores a removal that fails.
RemovalIgnored(c) ==
  /\ Fault
  /\ pc[c] = "remove" /\ calling[c].op = "delete"
  /\ pc' = [pc EXCEPT ![c] = "revoke"]
  /\ UNCHANGED <<plan, directoryVars>>

\* A member creates a key of their own; nothing of the call that removes them is under way.
WorkKey(p) ==
  /\ p \in Seated /\ Quiet(p)
  /\ working' = working \cup {p}
  /\ UNCHANGED <<tenantVars, manner, employed, told, accounts, seats, calling, moves>>

Served(c) ==
  \/ FindUserByEmail(c) \/ CreateAccount(c) \/ TakeSeat(c) \/ AnswerJoined(c)
  \/ LeaveSeat(c) \/ KeepSeat(c) \/ RevokeWorking(c) \/ AnswerRemoved(c)

\* What the provider has to say of a person.
Synchronise(p) ==
  \/ LookUp(p)
  \/ \E c \in Call : Provision(c, p) \/ Reactivate(c, p) \/ Deactivate(c, p) \/ Delete(c, p)

DirectoryNext ==
  \/ \E p \in Person : Move(p) \/ WorkKey(p) \/ Synchronise(p)
  \/ \E c \in Call : Served(c) \/ CallFails(c) \/ RemovalIgnored(c)

-----------------------------------------------------------------------------
(* Properties                                                              *)

ToldTheTruth == \A p \in Person : told[p] = "inactive" => p \notin Seated \cup working

\* Whom a patch was answered to be inactive has no seat and no key that works.
PatchedIsGone == manner = "patch" => ToldTheTruth

\* Calls that failed are repeated until the seats are those of the directory, if departures are
\* patches; the last owner's seat stays.
Converges ==
  \A p \in Person :
    /\ []<>(manner = "patch" /\ p \in employed => p \in Seated)
    /\ []<>(manner = "patch" /\ p \notin employed => p \notin Seated \/ LastOwner(p))

-----------------------------------------------------------------------------
(***************************************************************************)
(* Single sign-on by OpenID Connect: the redirect to the identity provider *)
(* and the callback (routes/enterprise.rs), the checks of the token        *)
(* (enterprise/sso.rs) and the two rows it reads them against              *)
(* (db/repo.rs).  The identity provider, the browser and the operator who  *)
(* writes the connections are external.                                    *)
(***************************************************************************)

CONSTANTS
  Domain,     \* email domains, one to a person
  DomainOf,
  Tokens,     \* the tokens a provider may answer with, but for their number and issuer
  MaxLogins,  \* bound: sign-ins started
  MaxReturns  \* bound: callbacks

Started == [issuer : {"i1", "i2"}, live : BOOLEAN, spent : BOOLEAN]

ASSUME SignOnAssumption ==
  /\ DomainOf \in [Person -> Domain] /\ None \notin Started
  /\ MaxLogins \in Nat /\ MaxReturns \in Nat

VARIABLES
  rows,     \* sso_connections, the active ones
  logins,   \* the sign-ins started: the issuer redirected to, is the state token in the store, did a
            \* callback use it
  back,     \* what each callback holds
  issued,   \* tokens the providers have issued
  used,     \* numbers of the tokens recorded as used
  opened,   \* sign-ins that opened a session
  returns

signOnVars == <<rows, logins, back, issued, used, opened, returns>>

Login == 1 .. MaxLogins

\* UNIQUE (org_id, protocol): one of each, in either order of creation.
Row == [protocol : {"oidc", "saml"}, issuer : {"i1", "i2"}, domain : Domain \cup {None}]

\* An id token's header and claims: the key that signed it and the one it names, its audience, how
\* late it is in minutes and how early.
Token ==
  [signer : {"k1", "k2"}, kid : {"k1", "k2", None}, audience : {"us", "other"}, late : 0 .. 3,
   early : 0 .. 3, email : Person \cup {None}, issuer : {"i1", "i2"}, number : Nat]

SignOnTypeOK ==
  /\ rows \in Seq(Row)
  /\ \A l \in Login : logins[l] = None \/ logins[l] \in Started
  /\ \A c \in Call : back[c] = None \/ back[c].login \in Login
  /\ issued \in 0 .. MaxReturns /\ used \subseteq 1 .. MaxReturns
  /\ opened \subseteq [login : Login, late : BOOLEAN]
  /\ returns \in 0 .. MaxReturns

SignOnInit ==
  /\ rows \in {s \in UNION {[1 .. n -> Row] : n \in 1 .. 2} :
                 \A i, j \in DOMAIN s : s[i].protocol = s[j].protocol => i = j}
  /\ logins = [l \in Login |-> None]
  /\ back = [c \in Call |-> None]
  /\ issued = 0 /\ used = {} /\ opened = {} /\ returns = 0

-----------------------------------------------------------------------------
(* The checks of a token                                                   *)

\* A provider's published keys; only RSA ones are considered.
Jwks == {<<"k1">>, <<"k2", "k1">>, <<"ec", "k1">>}

\* select_decoding_key: the key the token names, or without a name the first.
Selected(jwks, kid) ==
  LET fits == {i \in DOMAIN jwks : jwks[i] # "ec" /\ kid \in {None, jwks[i]}} IN
    IF fits = {} THEN None ELSE jwks[CHOOSE i \in fits : \A j \in fits : i <= j]

LibraryLeeway == 1  \* minutes a token may be late for jsonwebtoken

ClockSkew == 2      \* CLOCK_SKEW_SECONDS

Verified(t, jwks) == Selected(jwks, t.kid) = t.signer /\ t.late <= LibraryLeeway

Validated(t, r) ==
  /\ t.issuer = r.issuer
  /\ t.audience = "us"
  /\ t.late <= ClockSkew /\ t.early <= ClockSkew
  /\ t.email # None
  /\ r.domain \in {None, DomainOf[t.email]}

-----------------------------------------------------------------------------
(* The redirect                                                            *)

\* find_sso_connection_by_domain; the protocol is not looked at.
SsoStart(l) ==
  /\ logins[l] = None
  /\ \E i \in DOMAIN rows :
       /\ rows[i].domain # None
       /\ logins' =
            [logins EXCEPT ![l] = [issuer |-> rows[i].issuer, live |-> TRUE, spent |-> FALSE]]
  /\ UNCHANGED <<tenantVars, directoryVars, rows, back, issued, used, opened, returns>>

\* After ten minutes.
StateExpires(l) ==
  /\ logins[l] # None /\ logins[l].live
  /\ logins' = [logins EXCEPT ![l].live = FALSE]
  /\ UNCHANGED <<tenantVars, directoryVars, rows, back, issued, used, opened, returns>>

-----------------------------------------------------------------------------
(* The callback, one await at a time                                       *)

\* The browser comes back with a code; it may do so again.
SsoCallback(c, l) ==
  /\ returns < MaxReturns /\ returns' = returns + 1
  /\ logins[l] # None
  /\ Goes(c, "idle", "state")
  /\ back' = [back EXCEPT ![c] = [login |-> l, late |-> logins[l].spent, row |-> None, token |-> None]]
  /\ UNCHANGED <<plan, faults, directoryVars, rows, logins, issued, used, opened>>

Drops(c, from) == Goes(c, from, "idle") /\ back' = [back EXCEPT ![c] = None]

\* A step that only goes on or ends the callback.
Reads(c, from, to, goes) ==
  /\ pc[c] = from
  /\ IF goes THEN Goes(c, from, to) /\ UNCHANGED back ELSE Drops(c, from)
  /\ UNCHANGED <<plan, faults, directoryVars, rows, logins, issued, used, opened, returns>>

ReadState(c) == pc[c] = "state" /\ Reads(c, "state", "forget", logins[back[c].login].live)

DeleteState(c) ==
  /\ Goes(c, "forget", "connection")
  /\ logins' = [logins EXCEPT ![back[c].login].live = FALSE, ![back[c].login].spent = TRUE]
  /\ UNCHANGED <<plan, faults, directoryVars, rows, back, issued, used, opened, returns>>

\* find_sso_connection: the newest row, whichever one the sign-in started from.
ReadConnection(c) ==
  /\ pc[c] = "connection"
  /\ IF rows # <<>> /\ rows[Len(rows)].protocol = "oidc"
       THEN Goes(c, "connection", "exchange") /\ back' = [back EXCEPT ![c].row = rows[Len(rows)]]
       ELSE Drops(c, "connection")
  /\ UNCHANGED <<plan, faults, directoryVars, rows, logins, issued, used, opened, returns>>

\* Discovery, the exchange of the code and the keys.  A provider takes no code of another's; it may
\* answer a repeated exchange with a new token (external).
Exchange(c) ==
  /\ pc[c] = "exchange"
  /\ logins[back[c].login].issuer = back[c].row.issuer
  /\ issued' = issued + 1
  /\ \E t \in Tokens, jwks \in Jwks :
       LET token == [issuer |-> back[c].row.issuer, number |-> issued + 1] @@ t IN
         IF Verified(token, jwks) /\ Validated(token, back[c].row)
           THEN Goes(c, "exchange", "replay") /\ back' = [back EXCEPT ![c].token = token]
           ELSE Drops(c, "exchange")
  /\ UNCHANGED <<plan, faults, directoryVars, rows, logins, used, opened, returns>>

CheckReplay(c) == pc[c] = "replay" /\ Reads(c, "replay", "record", back[c].token.number \notin used)

RecordReplay(c) ==
  /\ Goes(c, "record", "account")
  /\ used' = used \cup {back[c].token.number}
  /\ UNCHANGED <<plan, faults, directoryVars, rows, logins, back, issued, opened, returns>>

\* find_user_by_email, list_orgs_for_user.
FindAccount(c) == pc[c] = "account" /\ Reads(c, "account", "seat", back[c].token.email \in accounts)

FindSeat(c) == pc[c] = "seat" /\ Reads(c, "seat", "session", back[c].token.email \in Seated)

OpenSession(c) ==
  /\ pc[c] = "session"
  /\ opened' = opened \cup {[login |-> back[c].login, late |-> back[c].late]}
  /\ Drops(c, "session")
  /\ UNCHANGED <<plan, faults, directoryVars, rows, logins, issued, used, returns>>

\* The provider does not answer or refuses the code, a statement fails, the browser goes away.
CallbackFails(c) ==
  /\ pc[c] # "idle" /\ back[c] # None /\ (Fault \/ (pc[c] = "exchange" /\ UNCHANGED faults))
  /\ Drops(c, pc[c])
  /\ UNCHANGED <<plan, directoryVars, rows, logins, issued, used, opened, returns>>

\* An operator turns a connection off (external); a person's seat is taken away meanwhile.
Disconnect ==
  /\ Fault /\ rows' = <<>>
  /\ UNCHANGED <<pc, plan, directoryVars, logins, back, issued, used, opened, returns>>

SignOnNext ==
  \/ Disconnect
  \/ \E l \in Login : SsoStart(l) \/ StateExpires(l) \/ \E c \in Call : SsoCallback(c, l)
  \/ \E c \in Call :
       \/ ReadState(c) \/ DeleteState(c) \/ ReadConnection(c) \/ Exchange(c) \/ CheckReplay(c)
       \/ RecordReplay(c) \/ FindAccount(c) \/ FindSeat(c) \/ OpenSession(c) \/ CallbackFails(c)

-----------------------------------------------------------------------------
(* Properties                                                              *)

\* do_sso_callback: a callback that is repeated after the state token was used opens no session.
RetryRefused == \A s \in opened : ~s.late

\* What the identity provider and the person signing in were answered is true and final.
DirectorySafety == PatchedIsGone /\ RetryRefused

===============================================================================
