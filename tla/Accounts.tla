------------------------------- MODULE Accounts -------------------------------
(***************************************************************************)
(* One person's account: signing up, being invited, signing in and the     *)
(* second factor (routes/management.rs, the users, auth_tokens and         *)
(* sessions tables of db/repo.rs).  Each statement commits by itself.      *)
(*                                                                         *)
(* Secrets are numbered in the order they are stored; a code is right      *)
(* when the person's authenticator holds the secret it is checked against. *)
(***************************************************************************)
EXTENDS Tenant

CONSTANT MaxTries  \* bound: calls made

ASSUME AccountsAssumption ==
  MaxTries \in Nat /\ None \notin [password : BOOLEAN, invited : BOOLEAN]

VARIABLES
  user,      \* the row: does it have a password, did an invitation create it
  org,       \* the personal organisation with its owner
  joined,    \* a membership of the organisation that invites
  disabled,  \* users.disabled_at
  links,     \* auth_tokens: invitations issued, by the call that issued each
  redeemed,  \* how often each has set a password
  sessions,
  secret,    \* totp_secret_encrypted, 0 for none
  enabled,   \* totp_enabled
  proven,    \* the last secret a confirmation saw a right code for
  overtaken, \* a secret was stored or dropped while one was enforced, or about to be
  app,       \* the secret in the person's authenticator
  did,       \* what each call is for
  held,      \* the link it holds, the secret it stored or the one it confirmed
  stored,    \* secrets stored so far
  tries

accountVars ==
  <<user, org, joined, disabled, links, redeemed, sessions, secret, enabled, proven, overtaken, app,
    did, held, stored, tries>>

Try == 1 .. MaxTries

Op == {"signup", "invite", "accept", "login", "enroll", "confirm", "disable"}

AccountStatement ==
  {"idle", "create_user", "create_org", "session", "find_user", "create_placeholder", "join", "issue",
   "consume", "set_password", "find_login", "check_code", "store", "answer", "get_secret", "enable",
   "clear"}

AccountsTypeOK ==
  /\ pc \in [Call -> AccountStatement]
  /\ user \in [password : BOOLEAN, invited : BOOLEAN] \cup {None}
  /\ {org, joined, disabled, enabled, overtaken} \subseteq BOOLEAN
  /\ links \in SUBSET Try
  /\ redeemed \in [Try -> Nat]
  /\ sessions \in 0 .. MaxTries
  /\ {secret, proven, app, stored} \subseteq 0 .. MaxTries
  /\ did \in [Call -> Op \cup {None}]
  /\ held \in [Call -> 0 .. MaxTries]
  /\ tries \in 0 .. MaxTries

AccountsInit ==
  /\ user = None
  /\ org = FALSE /\ joined = FALSE /\ disabled = FALSE
  /\ links = {} /\ redeemed = [l \in Try |-> 0]
  /\ sessions = 0
  /\ secret = 0 /\ enabled = FALSE /\ proven = 0 /\ overtaken = FALSE /\ app = 0 /\ stored = 0
  /\ did = [c \in Call |-> None] /\ held = [c \in Call |-> 0]
  /\ tries = 0

userVars  == <<user, org, joined, disabled>>
linkVars  == <<links, redeemed>>
totpVars  == <<secret, enabled, proven, overtaken, app, stored>>

Finish(c, from) ==
  /\ Goes(c, from, "idle")
  /\ did' = [did EXCEPT ![c] = None] /\ held' = [held EXCEPT ![c] = 0]

Continue(c, from, to) == Goes(c, from, to) /\ UNCHANGED <<did, held>>

\* A call is numbered; the number also names the link an invitation makes.
Begin(c, op, statement, number) ==
  /\ tries < MaxTries /\ tries' = tries + 1
  /\ Goes(c, "idle", statement)
  /\ did' = [did EXCEPT ![c] = op] /\ held' = [held EXCEPT ![c] = number]
  /\ UNCHANGED <<plan, faults, userVars, linkVars, totpVars, sessions>>

Signup(c) == Begin(c, "signup", "create_user", 0)
Login(c) == Begin(c, "login", "find_login", 0)
Invite(c) == PlanIncludes(plan, "team_management") /\ Begin(c, "invite", "find_user", tries + 1)
AcceptInvite(c, l) == l \in links /\ Begin(c, "accept", "consume", l)

\* require_session: a disabled account's sessions are not found.
SignedIn == sessions > 0 /\ ~disabled

Enroll(c) == SignedIn /\ Begin(c, "enroll", "store", 0)
Confirm(c) == SignedIn /\ Begin(c, "confirm", "get_secret", 0)
Disable(c) == SignedIn /\ user.password /\ Begin(c, "disable", "clear", 0)

-----------------------------------------------------------------------------
(* Signing up and being invited                                            *)

Row(password) == [password |-> password, invited |-> ~password]

\* An email has one row: a second insert is refused.
CreateUser(c) ==
  /\ IF user = None
       THEN user' = Row(TRUE) /\ Continue(c, "create_user", "create_org")
       ELSE UNCHANGED user /\ Finish(c, "create_user")
  /\ UNCHANGED <<plan, faults, org, joined, disabled, linkVars, totpVars, sessions, tries>>

\* create_org_with_owner: the organisation and its owner in one transaction.
CreateOrg(c) ==
  /\ Continue(c, "create_org", "session")
  /\ org' = TRUE
  /\ UNCHANGED <<plan, faults, user, joined, disabled, linkVars, totpVars, sessions, tries>>

CreateSession(c) ==
  /\ Finish(c, "session")
  /\ sessions' = sessions + 1
  /\ UNCHANGED <<plan, faults, userVars, linkVars, totpVars, tries>>

FindInvited(c) ==
  /\ Continue(c, "find_user", IF user = None THEN "create_placeholder" ELSE "join")
  /\ UNCHANGED <<plan, faults, userVars, linkVars, totpVars, sessions, tries>>

CreatePlaceholder(c) ==
  /\ IF user = None
       THEN user' = Row(FALSE) /\ Continue(c, "create_placeholder", "join")
       ELSE UNCHANGED user /\ Finish(c, "create_placeholder")
  /\ UNCHANGED <<plan, faults, org, joined, disabled, linkVars, totpVars, sessions, tries>>

Join(c) ==
  /\ Continue(c, "join", "issue")
  /\ joined' = TRUE
  /\ UNCHANGED <<plan, faults, user, org, disabled, linkVars, totpVars, sessions, tries>>

CreateAuthToken(c) ==
  /\ links' = links \cup {held[c]}
  /\ Finish(c, "issue")
  /\ UNCHANGED <<plan, faults, userVars, redeemed, totpVars, sessions, tries>>

\* One statement checks that the link is unspent and spends it.
ConsumeAuthToken(c) ==
  /\ IF held[c] \in links
       THEN links' = links \ {held[c]} /\ Continue(c, "consume", "set_password")
       ELSE UNCHANGED links /\ Finish(c, "consume")
  /\ UNCHANGED <<plan, faults, userVars, redeemed, totpVars, sessions, tries>>

UpdatePassword(c) ==
  /\ pc[c] = "set_password"
  /\ user' = [user EXCEPT !.password = TRUE]
  /\ redeemed' = [redeemed EXCEPT ![held[c]] = @ + 1]
  /\ Continue(c, "set_password", "session")
  /\ UNCHANGED <<plan, faults, org, joined, disabled, links, totpVars, sessions, tries>>

-----------------------------------------------------------------------------
(* Signing in and the second factor                                        *)

\* The password is read and checked; without it, or without an account that may be used, the call ends.
FindLogin(c) ==
  /\ pc[c] = "find_login"
  /\ IF user # None /\ user.password /\ ~disabled
       THEN Continue(c, "find_login", IF enabled THEN "check_code" ELSE "session")
       ELSE Finish(c, "find_login")
  /\ UNCHANGED <<plan, faults, userVars, linkVars, totpVars, sessions, tries>>

\* The secret is read again for the code; there may be none any more.
CheckCode(c) ==
  /\ IF secret # 0 /\ app = secret
       THEN Continue(c, "check_code", "session") ELSE Finish(c, "check_code")
  /\ UNCHANGED <<plan, faults, userVars, linkVars, totpVars, sessions, tries>>

Logout ==
  /\ sessions > 0 /\ sessions' = sessions - 1
  /\ UNCHANGED <<pc, plan, faults, userVars, linkVars, totpVars, did, held, tries>>

\* An operator sets users.disabled_at by hand: nothing in the program does.
DisableAccount ==
  /\ user # None /\ ~disabled /\ disabled' = TRUE
  /\ UNCHANGED <<pc, plan, faults, user, org, joined, linkVars, totpVars, did, held, sessions, tries>>

\* A confirmation has seen a right code and not yet turned the second factor on.
Confirming == \E c \in Call : pc[c] = "enable"

\* set_totp_secret leaves totp_enabled as it is.
SetTotpSecret(c) ==
  /\ Goes(c, "store", "answer")
  /\ stored' = stored + 1 /\ secret' = stored + 1 /\ held' = [held EXCEPT ![c] = stored + 1]
  /\ overtaken' = (enabled \/ Confirming)
  /\ UNCHANGED <<plan, faults, userVars, linkVars, enabled, proven, app, did, sessions, tries>>

\* The person puts the secret of the answer into the authenticator.
Enrolled(c) ==
  /\ app' = held[c]
  /\ Finish(c, "answer")
  /\ UNCHANGED <<plan, faults, userVars, linkVars, secret, enabled, proven, overtaken, stored, sessions,
                 tries>>

\* Mutant of GetTotpSecret: any code is right.
GetTotpSecretUnchecked(c) ==
  /\ UNCHANGED proven
  /\ IF secret # 0
       THEN Goes(c, "get_secret", "enable") /\ held' = [held EXCEPT ![c] = secret] /\ UNCHANGED did
       ELSE Finish(c, "get_secret")
  /\ UNCHANGED <<plan, faults, userVars, linkVars, secret, enabled, overtaken, app, stored, sessions, tries>>

\* totp_confirm checks a code against the secret it reads.
GetTotpSecret(c) ==
  /\ IF secret # 0 /\ app = secret
       THEN /\ proven' = secret
            /\ Goes(c, "get_secret", "enable") /\ held' = [held EXCEPT ![c] = secret] /\ UNCHANGED did
       ELSE UNCHANGED proven /\ Finish(c, "get_secret")
  /\ UNCHANGED <<plan, faults, userVars, linkVars, secret, enabled, overtaken, app, stored, sessions, tries>>

\* Whatever secret is stored by now is enforced.
EnableTotp(c) ==
  /\ enabled' = TRUE
  /\ overtaken' = (overtaken /\ held[c] # secret)
  /\ Finish(c, "enable")
  /\ UNCHANGED <<plan, faults, userVars, linkVars, secret, proven, app, stored, sessions, tries>>

DisableTotp(c) ==
  /\ enabled' = FALSE /\ secret' = 0
  /\ overtaken' = Confirming
  /\ Finish(c, "clear")
  /\ UNCHANGED <<plan, faults, userVars, linkVars, proven, app, stored, sessions, tries>>

\* The statement fails, or the handler is dropped with its connection: what it did stays.
GiveUp(c) ==
  /\ Fault
  /\ pc[c] # "idle" /\ Finish(c, pc[c])
  /\ UNCHANGED <<plan, userVars, linkVars, totpVars, sessions, tries>>

AccountsNext ==
  \/ Logout \/ DisableAccount
  \/ \E c \in Call :
       \/ Signup(c) \/ Login(c) \/ Invite(c) \/ Enroll(c) \/ Confirm(c) \/ Disable(c)
       \/ \E l \in Try : AcceptInvite(c, l)
       \/ CreateUser(c) \/ CreateOrg(c) \/ CreateSession(c)
       \/ FindInvited(c) \/ CreatePlaceholder(c) \/ Join(c) \/ CreateAuthToken(c)
       \/ ConsumeAuthToken(c) \/ UpdatePassword(c)
       \/ FindLogin(c) \/ CheckCode(c)
       \/ SetTotpSecret(c) \/ Enrolled(c) \/ GetTotpSecret(c) \/ EnableTotp(c) \/ DisableTotp(c)
       \/ GiveUp(c)

-----------------------------------------------------------------------------
(* Properties                                                              *)

\* An invitation sets one password, however many redeem it at once.
TokenOnce == \A l \in Try : redeemed[l] <= 1

\* The second factor is required only after a right code was given, and the secret it is checked
\* against is the one last proven, unless an enrolment stored another or a disabling dropped it
\* while the factor was required or a confirmation was about to require it: neither looks.
SecondFactorProven == enabled => proven > 0 /\ (secret = proven \/ overtaken)

\* An account that signed up has its organisation, unless signing up was cut short.
SignupWhole ==
  (user # None /\ ~user.invited /\ ~org)
    => faults > 0 \/ \E c \in Call : pc[c] = "create_org"

===============================================================================
