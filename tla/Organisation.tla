----------------------------- MODULE Organisation -----------------------------
(***************************************************************************)
(* Who belongs to an organisation and which keys work: the members' part   *)
(* of the management API (routes/management.rs), the identity provider's   *)
(* SCIM calls (routes/enterprise.rs) and the statements both make          *)
(* (db/repo.rs), each of which commits by itself or, in a removal, reads   *)
(* what others have committed.                                             *)
(***************************************************************************)
EXTENDS Tenant

CONSTANTS
  Person,
  Granted,  \* bound: the roles that calls give
  MaxCalls  \* bound: calls that get past authentication

Role == {"owner", "admin", "member", "viewer"}

ASSUME OrganisationAssumption ==
  /\ IsFiniteSet(Person) /\ None \notin Person \cup Role
  /\ Granted \subseteq Role /\ MaxCalls \in Nat

VARIABLES
  members,  \* org_memberships: each person's role
  keys,     \* api_keys
  scim,     \* a SCIM token is issued and not revoked
  ask,      \* what each call asks for; a key request also has its caller and the caller's role
  seen,     \* what each removal has read
  begun,    \* calls that got past authentication
  left      \* left[p]: once p is deprovisioned, the key requests of p still under way

orgVars == <<members, keys, scim, ask, seen, begun, left>>

Writer == {"owner", "admin"}
Owners == {p \in Person : members[p] = "owner"}

Serial == 1 .. MaxCalls
Key    == [serial : Serial, by : Person, holder : Person \cup {None}, live : BOOLEAN]

RemovalOp == {"remove_member", "scim_patch_off", "scim_delete_user"}
JoinOp    == {"invite_member", "update_member_role", "scim_create_user"}
KeyOp     == {"create_key", "revoke_key"}

Ask ==
  [op : RemovalOp \cup JoinOp \cup KeyOp, by : Person \cup {None}, in : Role \cup {None},
   whom : Person \cup {None}, role : Role, key : Serial \cup {0}, serial : Serial]

\* A call that asks for nothing is told from every one that does.
ASSUME AskAssumption == None \notin Ask

Unread == [owners |-> 0, role |-> None]

Statement ==
  {"idle", "count", "role", "delete", "revoke_all", "upsert", "assignee", "insert", "find", "revoke",
   "drop"}

OrgTypeOK ==
  /\ pc \in [Call -> Statement]
  /\ members \in [Person -> Role \cup {None}]
  /\ keys \subseteq Key
  /\ scim \in BOOLEAN
  /\ \A c \in Call : ask[c] = None \/ ask[c] \in Ask
  /\ seen \in [Call -> [owners : 0 .. Cardinality(Person), role : Role \cup {None}]]
  /\ begun \in 0 .. MaxCalls
  /\ left \in [Person -> (SUBSET Serial) \cup {None}]

OrgInit ==
  /\ members \in [Person -> Role \cup {None}] /\ Owners # {}
  /\ keys = {}
  /\ scim \in BOOLEAN
  /\ ask = [c \in Call |-> None]
  /\ seen = [c \in Call |-> Unread]
  /\ begun = 0
  /\ left = [p \in Person |-> None]

-----------------------------------------------------------------------------
(* A call is authenticated                                                 *)

\* require_writer and require_key_writer: the roles that may make a call.
Allowed(op) == IF op \in KeyOp THEN Writer \cup {"member"} ELSE Writer

FirstStatement(a) ==
  IF a.op \in RemovalOp THEN "count"
  ELSE IF a.op \in JoinOp THEN "upsert"
  ELSE IF a.op = "revoke_key" THEN "find"
  ELSE IF a.whom = None THEN "insert" ELSE "assignee"

Accept(c, a) ==
  /\ begun < MaxCalls
  /\ begun' = begun + 1
  /\ Goes(c, "idle", FirstStatement(a))
  /\ ask' = [ask EXCEPT ![c] = a]
  /\ UNCHANGED <<plan, faults, members, keys, scim, seen, left>>

Plain(op) ==
  [op |-> op, by |-> None, in |-> None, whom |-> None, role |-> "member", key |-> 0,
   serial |-> begun + 1]

RemoveMember(c, p, whom) ==
  /\ members[p] \in Allowed("remove_member")
  /\ Accept(c, [Plain("remove_member") EXCEPT !.whom = whom])

InviteMember(c, p, whom, role) ==
  /\ members[p] \in Allowed("invite_member")
  /\ PlanIncludes(plan, "team_management")
  /\ Accept(c, [Plain("invite_member") EXCEPT !.whom = whom, !.role = role])

UpdateMemberRole(c, p, whom, role) ==
  /\ members[p] \in Allowed("update_member_role")
  /\ Accept(c, [Plain("update_member_role") EXCEPT !.whom = whom, !.role = role])

\* Only an owner or admin issues a key in another person's name.
CreateKey(c, p, whom) ==
  /\ members[p] \in Allowed("create_key")
  /\ whom \in {None, p} \/ members[p] \in Writer
  /\ Accept(c, [Plain("create_key") EXCEPT !.by = p, !.in = members[p], !.whom = whom])

RevokeKey(c, p, key) ==
  /\ members[p] \in Allowed("revoke_key")
  /\ Accept(c, [Plain("revoke_key") EXCEPT !.key = key])

\* authenticate_scim: the token stands for the organisation and for no person.
Scim(c, op, whom) ==
  /\ scim
  /\ Accept(c, [Plain(op) EXCEPT !.whom = whom])

\* create_scim_token and revoke_scim_token: one statement each.
SetScimToken(p) ==
  /\ members[p] \in Writer
  /\ scim' = ~scim
  /\ UNCHANGED <<pc, plan, faults, members, keys, ask, seen, begun, left>>

-----------------------------------------------------------------------------
(* The statements of a call                                                *)

\* The call answers; what it held is gone.
Done(c) ==
  /\ ask' = [ask EXCEPT ![c] = None]
  /\ seen' = [seen EXCEPT ![c] = Unread]

\* remove_member counts the owners, in a transaction that reads what is committed.
CountOwners(c) ==
  /\ Goes(c, "count", "role")
  /\ seen' = [seen EXCEPT ![c].owners = Cardinality(Owners)]
  /\ UNCHANGED <<plan, faults, members, keys, scim, ask, begun, left>>

ReadRole(c) ==
  /\ Goes(c, "role", "delete")
  /\ seen' = [seen EXCEPT ![c].role = members[ask[c].whom]]
  /\ UNCHANGED <<plan, faults, members, keys, scim, ask, begun, left>>

\* Mutant of Refused: the count is compared with none left instead of one.
RefusedTooLate(c) == seen[c].role = "owner" /\ seen[c].owners < 1

Refused(c) == seen[c].role = "owner" /\ seen[c].owners <= 1

\* A refusal ends a removal; scim_delete_user ignores it.
Refuse(c) ==
  /\ pc[c] = "delete" /\ Refused(c)
  /\ IF ask[c].op = "scim_delete_user"
       THEN Goes(c, "delete", "revoke_all") /\ UNCHANGED <<ask, seen>>
       ELSE Goes(c, "delete", "idle") /\ Done(c)
  /\ UNCHANGED <<plan, faults, members, keys, scim, begun, left>>

DeleteMember(c) ==
  /\ pc[c] = "delete" /\ ~Refused(c)
  /\ members' = [members EXCEPT ![ask[c].whom] = None]
  /\ IF ask[c].op = "remove_member"
       THEN Goes(c, "delete", "idle") /\ Done(c)
       ELSE Goes(c, "delete", "revoke_all") /\ UNCHANGED <<ask, seen>>
  /\ UNCHANGED <<plan, faults, keys, scim, begun, left>>

\* The statement fails inside scim_delete_user's removal, which ignores that too.
RemovalFails(c) ==
  /\ Fault
  /\ pc[c] \in {"count", "role", "delete"} /\ ask[c].op = "scim_delete_user"
  /\ pc' = [pc EXCEPT ![c] = "revoke_all"]
  /\ UNCHANGED <<plan, members, keys, scim, ask, seen, begun, left>>

\* The key requests of p that are under way.
KeysUnderWay(p) ==
  {ask[d].serial : d \in {e \in Call : ask[e] # None /\ ask[e].op = "create_key" /\ ask[e].by = p}}

\* revoke_keys_for_user: the keys the person created, whoever holds them.
RevokedFor(p) == {[k EXCEPT !.live = k.live /\ k.by # p] : k \in keys}

RevokeKeysForUser(c) ==
  /\ Goes(c, "revoke_all", "idle")
  /\ LET p == ask[c].whom IN
       /\ keys' = RevokedFor(p)
       /\ left' = [left EXCEPT ![p] = IF members[p] = None THEN KeysUnderWay(p) ELSE @]
  /\ Done(c)
  /\ UNCHANGED <<plan, faults, members, scim, begun>>

\* add_member: a member's role is overwritten, an owner's too.
AddMember(c) ==
  /\ Goes(c, "upsert", "idle")
  /\ members' = [members EXCEPT ![ask[c].whom] = ask[c].role]
  /\ left' = [left EXCEPT ![ask[c].whom] = None]
  /\ Done(c)
  /\ UNCHANGED <<plan, faults, keys, scim, begun>>

\* The person the key is for has to be a member.
CheckAssignee(c) ==
  /\ pc[c] = "assignee"
  /\ IF members[ask[c].whom] # None
       THEN Goes(c, "assignee", "insert") /\ UNCHANGED <<ask, seen>>
       ELSE Goes(c, "assignee", "idle") /\ Done(c)
  /\ UNCHANGED <<plan, faults, members, keys, scim, begun, left>>

\* A key with no assignee is shared if an owner or admin asks for it, else the caller's own.
Holder(a) == IF a.whom = None /\ a.in \notin Writer THEN a.by ELSE a.whom

InsertKey(c) ==
  /\ Goes(c, "insert", "idle")
  /\ keys' = keys \cup
       {[serial |-> ask[c].serial, by |-> ask[c].by, holder |-> Holder(ask[c]), live |-> TRUE]}
  /\ Done(c)
  /\ UNCHANGED <<plan, faults, members, scim, begun, left>>

\* revoke_key: a key that is already revoked, or is to go for good, is deleted.
FindKey(c) ==
  /\ pc[c] = "find"
  /\ LET found == {k \in keys : k.serial = ask[c].key} IN
       \/ found = {} /\ Goes(c, "find", "idle") /\ Done(c)
       \/ found # {} /\ Goes(c, "find", "drop") /\ UNCHANGED <<ask, seen>>
       \/ (\E k \in found : k.live) /\ Goes(c, "find", "revoke") /\ UNCHANGED <<ask, seen>>
  /\ UNCHANGED <<plan, faults, members, keys, scim, begun, left>>

DeleteKey(c) ==
  /\ Goes(c, "drop", "idle")
  /\ keys' = {k \in keys : k.serial # ask[c].key}
  /\ Done(c)
  /\ UNCHANGED <<plan, faults, members, scim, begun, left>>

RevokeOne(c) ==
  /\ Goes(c, "revoke", "idle")
  /\ keys' = {[k EXCEPT !.live = k.live /\ k.serial # ask[c].key] : k \in keys}
  /\ Done(c)
  /\ UNCHANGED <<plan, faults, members, scim, begun, left>>

\* The statement fails, or the handler is dropped with its connection: what it did stays.
Abandon(c) ==
  /\ Fault
  /\ pc[c] # "idle"
  /\ pc' = [pc EXCEPT ![c] = "idle"]
  /\ Done(c)
  /\ UNCHANGED <<plan, members, keys, scim, begun, left>>

Request(c) ==
  \/ \E p \in Person :
       \/ \E whom \in Person :
            \/ RemoveMember(c, p, whom)
            \/ \E role \in Granted : InviteMember(c, p, whom, role) \/ UpdateMemberRole(c, p, whom, role)
       \/ \E whom \in Person \cup {None} : CreateKey(c, p, whom)
       \/ \E k \in Serial : RevokeKey(c, p, k)
  \/ \E whom \in Person, op \in {"scim_create_user", "scim_patch_off", "scim_delete_user"} :
       Scim(c, op, whom)

Perform(c) ==
  \/ CountOwners(c) \/ ReadRole(c) \/ Refuse(c) \/ DeleteMember(c) \/ RevokeKeysForUser(c)
  \/ AddMember(c)
  \/ CheckAssignee(c) \/ InsertKey(c)
  \/ FindKey(c) \/ DeleteKey(c) \/ RevokeOne(c)

OrgNext ==
  \/ \E c \in Call : Request(c) \/ Perform(c) \/ RemovalFails(c) \/ Abandon(c)
  \/ \E p \in Person : SetScimToken(p)

-----------------------------------------------------------------------------
(* Properties                                                              *)

\* A removal takes the last owner only if the number of owners or the person's role changed
\* after it was read: the transaction of remove_member does not lock what it counts.
LastOwnerKept ==
  [][\A c \in Call :
       (pc[c] = "delete" /\ pc'[c] # "delete" /\ Owners # {} /\ Owners' = {})
         => \/ seen[c].owners # Cardinality(Owners)
            \/ seen[c].role # members[ask[c].whom]]_<<tenantVars, orgVars>>

\* Once the identity provider has had a person's access withdrawn, no key that person created
\* works, except one whose request was past its role check when the keys were revoked.
Deprovisioned ==
  \A p \in Person :
    (members[p] = None /\ left[p] # None)
      => \A k \in keys : (k.live /\ k.by = p) => k.serial \in left[p]

===============================================================================
