----------------------------- MODULE TenancyProofs -----------------------------
(***************************************************************************)
(* What MCTenancy checks of an organisation's people, of its billing and   *)
(* of what it sets up, for any number of people, calls, failures, claims,  *)
(* tries, events, names, limits and requests.                              *)
(***************************************************************************)
EXTENDS MCTenancy, FiniteSetTheorems, TLAPS

-----------------------------------------------------------------------------
(* Members and keys                                                        *)

\* The statements about one person.
AboutPerson == {"count", "role", "delete", "revoke_all", "upsert", "assignee"}

KeyRequest(a) == a.op = "create_key" /\ a.by \in Person

\* What a call asks for fits the statement it has come to.
OrgAsk(c) ==
  /\ pc[c] # "idle" => ask[c] \in Ask
  /\ pc[c] \in {"insert", "assignee"} => KeyRequest(ask[c])
  /\ pc[c] \in AboutPerson => ask[c].whom \in Person

\* Who is deprovisioned is out, and every key they may still get to is one that was under way.
LeftFor(p) ==
  left[p] # None =>
    /\ members[p] = None
    /\ \A k \in keys : k.live /\ k.by = p => k.serial \in left[p]
    /\ KeysUnderWay(p) \subseteq left[p]

OrgInv ==
  /\ OrgTypeOK
  /\ ask \in [Call -> Ask \cup {None}]
  /\ \A c \in Call : OrgAsk(c)
  /\ \A p \in Person : LeftFor(p)

LEMMA OrgBegins ==
  ASSUME TenantInit, OrgInit
  PROVE  OrgInv
<1>1. /\ pc = [c \in Call |-> "idle"] /\ keys = {} /\ ask = [c \in Call |-> None]
      /\ left = [p \in Person |-> None] /\ begun = 0
      /\ members \in [Person -> Role \cup {None}] /\ scim \in BOOLEAN
  BY DEF TenantInit, OrgInit
<1>2. seen \in [Call -> [owners : 0 .. Cardinality(Person), role : Role \cup {None}]]
  <2>1. Cardinality(Person) \in Nat
    BY OrganisationAssumption, FS_CardinalityType
  <2>2. 0 \in 0 .. Cardinality(Person)
    BY <2>1
  <2> QED BY <2>2 DEF OrgInit, Unread
<1>3. OrgTypeOK
  BY <1>1, <1>2, OrganisationAssumption DEF OrgTypeOK, Statement
<1> QED BY <1>1, <1>3 DEF OrgInv, OrgAsk, LeftFor, AboutPerson

\* A call that answers leaves no more key requests under way.
LEMMA FewerUnderWay ==
  ASSUME NEW p \in Person, \A d \in Call : ask'[d] = ask[d] \/ ask'[d] = None
  PROVE  KeysUnderWay(p)' \subseteq KeysUnderWay(p)
BY DEF KeysUnderWay

\* Where nobody is let in and no key is made, what a person left behind stays as it was.
LEMMA LeftStays ==
  ASSUME NEW p \in Person, LeftFor(p), left'[p] = left[p],
         members'[p] = members[p] \/ members'[p] = None,
         \A k \in keys' : k.live /\ k.by = p =>
           \E j \in keys : j.live /\ j.by = p /\ j.serial = k.serial,
         KeysUnderWay(p)' \subseteq KeysUnderWay(p)
  PROVE  LeftFor(p)'
BY DEF LeftFor

\* A call that answers, whatever else the step does.
LEMMA DoneTyped ==
  ASSUME OrgInv, NEW c \in Call, Done(c), pc' = [pc EXCEPT ![c] = "idle"]
  PROVE  /\ pc' \in [Call -> Statement]
         /\ ask' \in [Call -> Ask \cup {None}]
         /\ seen' \in [Call -> [owners : 0 .. Cardinality(Person), role : Role \cup {None}]]
         /\ \A d \in Call : OrgAsk(d)'
         /\ \A d \in Call : ask'[d] = ask[d] \/ ask'[d] = None
<1>1. Unread \in [owners : 0 .. Cardinality(Person), role : Role \cup {None}]
  <2>1. Cardinality(Person) \in Nat
    BY OrganisationAssumption, FS_CardinalityType
  <2>2. 0 \in 0 .. Cardinality(Person)
    BY <2>1
  <2> QED BY <2>2 DEF Unread
<1>2. pc' \in [Call -> Statement]
  BY DEF OrgInv, OrgTypeOK, Statement
<1>3. ask' \in [Call -> Ask \cup {None}]
  BY DEF OrgInv, Done
<1>4. seen' \in [Call -> [owners : 0 .. Cardinality(Person), role : Role \cup {None}]]
  BY <1>1 DEF OrgInv, OrgTypeOK, Done
<1>5. ASSUME NEW d \in Call PROVE OrgAsk(d)' /\ (ask'[d] = ask[d] \/ ask'[d] = None)
  <2>1. CASE d = c
    BY <2>1 DEF OrgAsk, OrgInv, OrgTypeOK, Done, AboutPerson
  <2>2. CASE d # c
    BY <2>2 DEF OrgAsk, OrgInv, OrgTypeOK, Done
  <2> QED BY <2>1, <2>2
<1> QED BY <1>2, <1>3, <1>4, <1>5

\* A call that goes on to another statement with what it asks for.
LEMMA GoesOnTyped ==
  ASSUME OrgInv, NEW c \in Call, NEW to \in Statement, pc' = [pc EXCEPT ![c] = to], ask' = ask,
         ask[c] \in Ask, to \in {"insert", "assignee"} => KeyRequest(ask[c]),
         to \in AboutPerson => ask[c].whom \in Person
  PROVE  /\ pc' \in [Call -> Statement]
         /\ \A d \in Call : OrgAsk(d)'
BY DEF OrgInv, OrgTypeOK, OrgAsk

\* What a call that has come to a statement asks for.
LEMMA AsksAt ==
  ASSUME OrgInv, NEW c \in Call, pc[c] # "idle"
  PROVE  /\ ask[c] \in Ask
         /\ ask[c].by \in Person \cup {None} /\ ask[c].in \in Role \cup {None}
         /\ ask[c].whom \in Person \cup {None} /\ ask[c].role \in Role
         /\ ask[c].serial \in Serial
         /\ pc[c] \in AboutPerson => ask[c].whom \in Person
BY DEF OrgInv, OrgAsk, Ask

-----------------------------------------------------------------------------
(* A call is let in                                                        *)

LEMMA PlainAsk ==
  ASSUME OrgInv, begun < MaxCalls, NEW op \in RemovalOp \cup JoinOp \cup KeyOp
  PROVE  /\ Plain(op) \in Ask /\ Plain(op).op = op /\ Plain(op).by = None
<1>1. begun + 1 \in Serial
  BY OrganisationAssumption DEF OrgInv, OrgTypeOK, Serial
<1>2. "member" \in Role
  BY DEF Role
<1> QED BY <1>1, <1>2 DEF Plain, Ask

\* Whoever asks for a key is a member then.
LEMMA AcceptInv ==
  ASSUME OrgInv, NEW c \in Call, NEW a \in Ask, Accept(c, a),
         a.op \in RemovalOp \cup JoinOp => a.whom \in Person,
         a.op = "create_key" => a.by \in Person /\ members[a.by] # None
  PROVE  OrgInv'
<1>1. /\ begun' = begun + 1 /\ begun < MaxCalls
      /\ pc' = [pc EXCEPT ![c] = FirstStatement(a)] /\ ask' = [ask EXCEPT ![c] = a]
      /\ UNCHANGED <<members, keys, scim, seen, left>>
  BY DEF Accept, Goes
<1>2. a.op \in RemovalOp \cup JoinOp \cup KeyOp
  BY DEF Ask
<1>3. /\ FirstStatement(a) \in Statement
      /\ FirstStatement(a) \in {"insert", "assignee"} => KeyRequest(a)
      /\ FirstStatement(a) \in AboutPerson => a.whom \in Person
  BY <1>2 DEF FirstStatement, Statement, KeyOp, Ask, AboutPerson, KeyRequest
<1>4. begun' \in 0 .. MaxCalls
  BY <1>1, OrganisationAssumption DEF OrgInv, OrgTypeOK
<1>5. pc' \in [Call -> Statement] /\ ask' \in [Call -> Ask \cup {None}]
  BY <1>1, <1>3 DEF OrgInv, OrgTypeOK
<1>6. OrgTypeOK'
  <2>1. \A d \in Call : ask'[d] = None \/ ask'[d] \in Ask
    BY <1>5
  <2> QED BY <1>1, <1>4, <1>5, <2>1 DEF OrgInv, OrgTypeOK
<1>7. ASSUME NEW d \in Call PROVE OrgAsk(d)'
  BY <1>1, <1>3 DEF OrgInv, OrgTypeOK, OrgAsk
<1>8. ASSUME NEW p \in Person PROVE LeftFor(p)'
  <2>1. CASE left[p] = None
    BY <1>1, <2>1 DEF LeftFor
  <2>2. CASE left[p] # None
    <3>1. ~(a.op = "create_key" /\ a.by = p)
      BY <2>2 DEF OrgInv, LeftFor
    <3>2. KeysUnderWay(p)' \subseteq KeysUnderWay(p)
      BY <1>1, <3>1 DEF KeysUnderWay, OrgInv
    <3> QED BY <1>1, <3>2, LeftStays DEF OrgInv
  <2> QED BY <2>1, <2>2
<1> QED BY <1>5, <1>6, <1>7, <1>8 DEF OrgInv

LEMMA RequestInv ==
  ASSUME OrgInv, NEW c \in Call, Request(c)
  PROVE  OrgInv'
<1> USE DEF RemovalOp, JoinOp, KeyOp
<1>1. ASSUME NEW p \in Person, NEW whom \in Person, RemoveMember(c, p, whom)
      PROVE  OrgInv'
  <2> DEFINE a == [Plain("remove_member") EXCEPT !.whom = whom]
  <2>1. Accept(c, a) /\ begun < MaxCalls
    BY <1>1 DEF RemoveMember, Accept
  <2>2. a \in Ask /\ a.op # "create_key" /\ a.whom = whom
    BY <2>1, PlainAsk DEF Ask
  <2> HIDE DEF a
  <2> QED BY <2>1, <2>2, AcceptInv
<1>2. ASSUME NEW p \in Person, NEW whom \in Person, NEW role \in Granted,
             NEW op \in {"invite_member", "update_member_role"},
             Accept(c, [Plain(op) EXCEPT !.whom = whom, !.role = role])
      PROVE  OrgInv'
  <2> DEFINE a == [Plain(op) EXCEPT !.whom = whom, !.role = role]
  <2>1. Accept(c, a) /\ begun < MaxCalls
    BY <1>2 DEF Accept
  <2>2. a \in Ask /\ a.op # "create_key" /\ a.whom = whom
    <3>1. PICK q \in Ask : q = Plain(op) /\ q.op # "create_key"
      BY <2>1, PlainAsk
    <3>2. role \in Role
      BY OrganisationAssumption
    <3>3. a = [q EXCEPT !.whom = whom, !.role = role]
      BY <3>1
    <3> HIDE DEF a
    <3> QED BY <3>1, <3>2, <3>3 DEF Ask
  <2> HIDE DEF a
  <2> QED BY <2>1, <2>2, AcceptInv
<1>3. ASSUME NEW p \in Person, NEW whom \in Person \cup {None}, CreateKey(c, p, whom)
      PROVE  OrgInv'
  <2> DEFINE a == [Plain("create_key") EXCEPT !.by = p, !.in = members[p], !.whom = whom]
  <2>1. Accept(c, a) /\ begun < MaxCalls
    BY <1>3 DEF CreateKey, Accept
  <2>2. members[p] \in Role /\ members[p] # None
    BY <1>3, OrganisationAssumption
    DEF CreateKey, Allowed, Writer, Role, OrgInv, OrgTypeOK
  <2>3. a \in Ask /\ a.by = p /\ a.op = "create_key"
    <3>1. PICK q \in Ask : q = Plain("create_key") /\ q.op = "create_key"
      BY <2>1, PlainAsk
    <3>2. a = [q EXCEPT !.by = p, !.in = members[p], !.whom = whom]
      BY <3>1
    <3> HIDE DEF a
    <3> QED BY <2>2, <3>1, <3>2 DEF Ask
  <2> HIDE DEF a
  <2> QED BY <2>1, <2>2, <2>3, AcceptInv
<1>4. ASSUME NEW p \in Person, NEW k \in Serial, RevokeKey(c, p, k)
      PROVE  OrgInv'
  <2> DEFINE a == [Plain("revoke_key") EXCEPT !.key = k]
  <2>1. Accept(c, a) /\ begun < MaxCalls
    BY <1>4 DEF RevokeKey, Accept
  <2>2. a \in Ask /\ a.op = "revoke_key"
    BY <2>1, PlainAsk DEF Ask
  <2> HIDE DEF a
  <2> QED BY <2>1, <2>2, AcceptInv
<1>5. ASSUME NEW whom \in Person, NEW op \in {"scim_create_user", "scim_patch_off", "scim_delete_user"},
             Scim(c, op, whom)
      PROVE  OrgInv'
  <2> DEFINE a == [Plain(op) EXCEPT !.whom = whom]
  <2>1. Accept(c, a) /\ begun < MaxCalls
    BY <1>5 DEF Scim, Accept
  <2>2. a \in Ask /\ a.op # "create_key" /\ a.whom = whom
    BY <2>1, PlainAsk DEF Ask
  <2> HIDE DEF a
  <2> QED BY <2>1, <2>2, AcceptInv
<1> QED BY <1>1, <1>2, <1>3, <1>4, <1>5 DEF Request, InviteMember, UpdateMemberRole

-----------------------------------------------------------------------------
(* The statements of a call                                                *)

\* The statements that change neither who is a member nor a key, and keep what is asked for.
LEMMA GoesOnInv ==
  ASSUME OrgInv, NEW c \in Call, NEW to \in Statement, pc[c] # "idle",
         pc' = [pc EXCEPT ![c] = to], to \in {"insert", "assignee"} => KeyRequest(ask[c]),
         to \in AboutPerson => ask[c].whom \in Person,
         UNCHANGED <<members, keys, scim, ask, begun, left>>,
         seen' \in [Call -> [owners : 0 .. Cardinality(Person), role : Role \cup {None}]]
  PROVE  OrgInv'
<1>1. pc' \in [Call -> Statement] /\ \A d \in Call : OrgAsk(d)'
  BY AsksAt, GoesOnTyped
<1>2. OrgTypeOK'
  BY <1>1 DEF OrgInv, OrgTypeOK
<1>3. ASSUME NEW p \in Person PROVE LeftFor(p)'
  BY FewerUnderWay, LeftStays DEF OrgInv
<1> QED BY <1>1, <1>2, <1>3 DEF OrgInv

\* The statements that end a call, and revoke keys or drop them.
LEMMA EndsInv ==
  ASSUME OrgInv, NEW c \in Call, pc' = [pc EXCEPT ![c] = "idle"], Done(c),
         UNCHANGED <<scim, begun, left, members>>, keys' \subseteq Key,
         \A k \in keys' : k.live => \E j \in keys : j.live /\ j.by = k.by /\ j.serial = k.serial
  PROVE  OrgInv'
<1>1. OrgTypeOK' /\ ask' \in [Call -> Ask \cup {None}] /\ \A d \in Call : OrgAsk(d)'
  BY DoneTyped DEF OrgInv, OrgTypeOK
<1>2. ASSUME NEW p \in Person PROVE LeftFor(p)'
  <2>1. KeysUnderWay(p)' \subseteq KeysUnderWay(p)
    BY DoneTyped, FewerUnderWay
  <2> QED BY <2>1, LeftStays DEF OrgInv
<1> QED BY <1>1, <1>2 DEF OrgInv

LEMMA CountOwnersInv ==
  ASSUME OrgInv, NEW c \in Call, CountOwners(c)
  PROVE  OrgInv'
<1>1. Cardinality(Owners) \in 0 .. Cardinality(Person)
  <2>1. Cardinality(Person) \in Nat /\ IsFiniteSet(Person)
    BY OrganisationAssumption, FS_CardinalityType
  <2>2. IsFiniteSet(Owners) /\ Cardinality(Owners) <= Cardinality(Person)
    BY <2>1, FS_Subset DEF Owners
  <2>3. Cardinality(Owners) \in Nat
    BY <2>2, FS_CardinalityType
  <2> QED BY <2>1, <2>2, <2>3
<1>2. seen' \in [Call -> [owners : 0 .. Cardinality(Person), role : Role \cup {None}]]
  BY <1>1 DEF CountOwners, OrgInv, OrgTypeOK
<1>3. "role" \in Statement /\ ask[c].whom \in Person /\ pc[c] # "idle"
  BY AsksAt DEF Statement, CountOwners, Goes, AboutPerson
<1> QED BY <1>2, <1>3, GoesOnInv DEF CountOwners, Goes

LEMMA ReadRoleInv ==
  ASSUME OrgInv, NEW c \in Call, ReadRole(c)
  PROVE  OrgInv'
<1>1. ask[c].whom \in Person /\ pc[c] # "idle"
  BY AsksAt DEF ReadRole, Goes, AboutPerson
<1>2. seen' \in [Call -> [owners : 0 .. Cardinality(Person), role : Role \cup {None}]]
  BY <1>1 DEF ReadRole, OrgInv, OrgTypeOK
<1>3. "delete" \in Statement
  BY DEF Statement
<1> QED BY <1>1, <1>2, <1>3, GoesOnInv DEF ReadRole, Goes

LEMMA RefuseInv ==
  ASSUME OrgInv, NEW c \in Call, Refuse(c)
  PROVE  OrgInv'
<1>1. ask[c].whom \in Person /\ pc[c] # "idle"
  BY AsksAt DEF Refuse, AboutPerson
<1>2. CASE ask[c].op = "scim_delete_user"
  <2>1. "revoke_all" \in Statement
    BY DEF Statement
  <2>2. seen' \in [Call -> [owners : 0 .. Cardinality(Person), role : Role \cup {None}]]
    BY <1>2 DEF Refuse, OrgInv, OrgTypeOK
  <2> QED BY <1>1, <1>2, <2>1, <2>2, GoesOnInv DEF Refuse, Goes
<1>3. CASE ask[c].op # "scim_delete_user"
  <2>1. keys' \subseteq Key
    BY DEF Refuse, OrgInv, OrgTypeOK
  <2> QED BY <1>3, <2>1, EndsInv DEF Refuse, Goes
<1> QED BY <1>2, <1>3

LEMMA DeleteMemberInv ==
  ASSUME OrgInv, NEW c \in Call, DeleteMember(c)
  PROVE  OrgInv'
<1>1. /\ ask[c].whom \in Person /\ pc[c] # "idle" /\ ask[c] \in Ask
      /\ members' = [members EXCEPT ![ask[c].whom] = None]
      /\ UNCHANGED <<keys, scim, begun, left>>
  BY AsksAt DEF DeleteMember, AboutPerson
<1>2. members' \in [Person -> Role \cup {None}]
  BY <1>1 DEF OrgInv, OrgTypeOK
<1>3. /\ pc' \in [Call -> Statement] /\ ask' \in [Call -> Ask \cup {None}]
      /\ seen' \in [Call -> [owners : 0 .. Cardinality(Person), role : Role \cup {None}]]
      /\ \A d \in Call : OrgAsk(d)'
      /\ \A d \in Call : ask'[d] = ask[d] \/ ask'[d] = None
  <2>1. CASE ask[c].op = "remove_member"
    BY <2>1, DoneTyped DEF DeleteMember, Goes
  <2>2. CASE ask[c].op # "remove_member"
    <3>1. "revoke_all" \in Statement
      BY DEF Statement
    <3>2. pc' = [pc EXCEPT ![c] = "revoke_all"] /\ UNCHANGED <<ask, seen>>
      BY <2>2 DEF DeleteMember, Goes
    <3> QED BY <1>1, <3>1, <3>2, GoesOnTyped DEF OrgInv, OrgTypeOK
  <2> QED BY <2>1, <2>2
<1>4. OrgTypeOK'
  BY <1>1, <1>2, <1>3 DEF OrgInv, OrgTypeOK
<1>5. ASSUME NEW p \in Person PROVE LeftFor(p)'
  <2>1. KeysUnderWay(p)' \subseteq KeysUnderWay(p)
    BY <1>3, FewerUnderWay
  <2>2. members'[p] = members[p] \/ members'[p] = None
    BY <1>1 DEF OrgInv, OrgTypeOK
  <2> QED BY <1>1, <2>1, <2>2, LeftStays DEF OrgInv
<1> QED BY <1>3, <1>4, <1>5 DEF OrgInv

LEMMA RemovalFailsInv ==
  ASSUME OrgInv, NEW c \in Call, RemovalFails(c)
  PROVE  OrgInv'
<1>1. ask[c].whom \in Person /\ pc[c] # "idle"
  BY AsksAt DEF RemovalFails, AboutPerson
<1>2. "revoke_all" \in Statement
  BY DEF Statement
<1>3. seen' \in [Call -> [owners : 0 .. Cardinality(Person), role : Role \cup {None}]]
  BY DEF RemovalFails, OrgInv, OrgTypeOK
<1> QED BY <1>1, <1>2, <1>3, GoesOnInv DEF RemovalFails

\* A key that is revoked is the same key.
LEMMA Revoked ==
  ASSUME NEW k \in Key, NEW live \in BOOLEAN
  PROVE  /\ [k EXCEPT !.live = live] \in Key
         /\ [k EXCEPT !.live = live].live = live
         /\ [k EXCEPT !.live = live].by = k.by
         /\ [k EXCEPT !.live = live].serial = k.serial
BY DEF Key

LEMMA RevokeKeysForUserInv ==
  ASSUME OrgInv, NEW c \in Call, RevokeKeysForUser(c)
  PROVE  OrgInv'
<1> DEFINE w == ask[c].whom
<1>1. /\ w \in Person /\ pc' = [pc EXCEPT ![c] = "idle"] /\ Done(c)
      /\ UNCHANGED <<members, scim, begun>>
      /\ keys' = RevokedFor(w)
      /\ left' = [left EXCEPT ![w] = IF members[w] = None THEN KeysUnderWay(w) ELSE @]
  BY AsksAt DEF RevokeKeysForUser, Goes, AboutPerson
<1>2. /\ pc' \in [Call -> Statement] /\ ask' \in [Call -> Ask \cup {None}]
      /\ seen' \in [Call -> [owners : 0 .. Cardinality(Person), role : Role \cup {None}]]
      /\ \A d \in Call : OrgAsk(d)'
      /\ \A d \in Call : ask'[d] = ask[d] \/ ask'[d] = None
  BY <1>1, DoneTyped
<1> HIDE DEF w
<1>3. ASSUME NEW k \in keys'
      PROVE  /\ k \in Key
             /\ k.live => k.by # w /\ \E j \in keys : j.live /\ j.by = k.by /\ j.serial = k.serial
  <2>1. PICK j \in keys : k = [j EXCEPT !.live = j.live /\ j.by # w]
    BY <1>1, <1>3 DEF RevokedFor
  <2>2. j \in Key /\ j.live \in BOOLEAN
    BY DEF OrgInv, OrgTypeOK, Key
  <2>3. /\ k \in Key /\ k.live = (j.live /\ j.by # w)
        /\ k.by = j.by /\ k.serial = j.serial
    BY <2>1, <2>2 DEF Key
  <2> QED BY <2>3
<1>4. KeysUnderWay(w) \subseteq Serial
  BY DEF KeysUnderWay, OrgInv, Ask
<1>5. left' \in [Person -> (SUBSET Serial) \cup {None}]
  BY <1>1, <1>4 DEF OrgInv, OrgTypeOK
<1>6. OrgTypeOK'
  BY <1>1, <1>2, <1>3, <1>5 DEF OrgInv, OrgTypeOK
<1>7. ASSUME NEW p \in Person PROVE LeftFor(p)'
  <2>1. KeysUnderWay(p)' \subseteq KeysUnderWay(p)
    BY <1>2, FewerUnderWay
  <2>2. CASE p = w /\ members[w] = None
    <3>1. left'[p] = KeysUnderWay(p)
      BY <1>1, <2>2 DEF OrgInv, OrgTypeOK
    <3> QED BY <1>1, <1>3, <2>1, <2>2, <3>1 DEF LeftFor
  <2>3. CASE ~(p = w /\ members[w] = None)
    <3>1. left'[p] = left[p]
      BY <1>1, <2>3 DEF OrgInv, OrgTypeOK
    <3> QED BY <1>1, <1>3, <2>1, <3>1, LeftStays DEF OrgInv
  <2> QED BY <2>2, <2>3
<1> QED BY <1>2, <1>6, <1>7 DEF OrgInv

LEMMA AddMemberInv ==
  ASSUME OrgInv, NEW c \in Call, AddMember(c)
  PROVE  OrgInv'
<1> DEFINE w == ask[c].whom
<1>1. /\ w \in Person /\ ask[c].role \in Role /\ pc' = [pc EXCEPT ![c] = "idle"] /\ Done(c)
      /\ UNCHANGED <<keys, scim, begun>>
      /\ members' = [members EXCEPT ![w] = ask[c].role]
      /\ left' = [left EXCEPT ![w] = None]
  BY AsksAt DEF AddMember, Goes, AboutPerson
<1>2. /\ pc' \in [Call -> Statement] /\ ask' \in [Call -> Ask \cup {None}]
      /\ seen' \in [Call -> [owners : 0 .. Cardinality(Person), role : Role \cup {None}]]
      /\ \A d \in Call : OrgAsk(d)'
      /\ \A d \in Call : ask'[d] = ask[d] \/ ask'[d] = None
  BY <1>1, DoneTyped
<1> HIDE DEF w
<1>3. OrgTypeOK'
  BY <1>1, <1>2 DEF OrgInv, OrgTypeOK
<1>4. ASSUME NEW p \in Person PROVE LeftFor(p)'
  <2>1. CASE p = w
    BY <1>1, <2>1 DEF OrgInv, OrgTypeOK, LeftFor
  <2>2. CASE p # w
    <3>1. members'[p] = members[p] /\ left'[p] = left[p]
      BY <1>1, <2>2 DEF OrgInv, OrgTypeOK
    <3>2. KeysUnderWay(p)' \subseteq KeysUnderWay(p)
      BY <1>2, FewerUnderWay
    <3> QED BY <1>1, <3>1, <3>2, LeftStays DEF OrgInv
  <2> QED BY <2>1, <2>2
<1> QED BY <1>2, <1>3, <1>4 DEF OrgInv

LEMMA CheckAssigneeInv ==
  ASSUME OrgInv, NEW c \in Call, CheckAssignee(c)
  PROVE  OrgInv'
<1>1. CASE members[ask[c].whom] # None
  <2>1. "insert" \in Statement /\ "insert" \notin AboutPerson
    BY DEF Statement, AboutPerson
  <2>2. pc[c] = "assignee" /\ KeyRequest(ask[c])
    BY DEF CheckAssignee, OrgInv, OrgAsk
  <2>3. seen' \in [Call -> [owners : 0 .. Cardinality(Person), role : Role \cup {None}]]
    BY <1>1 DEF CheckAssignee, OrgInv, OrgTypeOK
  <2> QED BY <1>1, <2>1, <2>2, <2>3, GoesOnInv DEF CheckAssignee, Goes
<1>2. CASE members[ask[c].whom] = None
  <2>1. keys' \subseteq Key
    BY DEF CheckAssignee, OrgInv, OrgTypeOK
  <2> QED BY <1>2, <2>1, EndsInv DEF CheckAssignee, Goes
<1> QED BY <1>1, <1>2

\* The request of a key that is made was under way.
LEMMA InsertKeyInv ==
  ASSUME OrgInv, NEW c \in Call, InsertKey(c)
  PROVE  OrgInv'
<1> DEFINE k == [serial |-> ask[c].serial, by |-> ask[c].by, holder |-> Holder(ask[c]), live |-> TRUE]
<1>1. /\ ask[c] \in Ask /\ KeyRequest(ask[c])
      /\ pc' = [pc EXCEPT ![c] = "idle"] /\ Done(c)
      /\ UNCHANGED <<members, scim, begun, left>>
      /\ keys' = keys \cup {k}
  BY DEF InsertKey, Goes, OrgInv, OrgAsk
<1>2. /\ pc' \in [Call -> Statement] /\ ask' \in [Call -> Ask \cup {None}]
      /\ seen' \in [Call -> [owners : 0 .. Cardinality(Person), role : Role \cup {None}]]
      /\ \A d \in Call : OrgAsk(d)'
      /\ \A d \in Call : ask'[d] = ask[d] \/ ask'[d] = None
  BY <1>1, DoneTyped
<1>3. k \in Key /\ k.by = ask[c].by /\ k.serial = ask[c].serial
  BY <1>1 DEF Key, Ask, Holder, KeyRequest
<1> HIDE DEF k
<1>4. OrgTypeOK'
  BY <1>1, <1>2, <1>3 DEF OrgInv, OrgTypeOK
<1>5. ASSUME NEW p \in Person PROVE LeftFor(p)'
  <2>1. KeysUnderWay(p)' \subseteq KeysUnderWay(p)
    BY <1>2, FewerUnderWay
  <2>2. k.by = p => k.serial \in KeysUnderWay(p)
    BY <1>1, <1>3, AskAssumption DEF KeysUnderWay, KeyRequest
  <2> QED BY <1>1, <2>1, <2>2 DEF OrgInv, LeftFor
<1> QED BY <1>2, <1>4, <1>5 DEF OrgInv

LEMMA FindKeyInv ==
  ASSUME OrgInv, NEW c \in Call, FindKey(c)
  PROVE  OrgInv'
<1>1. /\ pc[c] # "idle" /\ {"drop", "revoke"} \subseteq Statement
      /\ {"drop", "revoke"} \cap AboutPerson = {}
      /\ UNCHANGED <<members, keys, scim, begun, left>>
  BY DEF FindKey, Statement, AboutPerson
<1>2. ASSUME NEW to \in {"drop", "revoke"}, Goes(c, "find", to), UNCHANGED <<ask, seen>>
      PROVE  OrgInv'
  <2>1. seen' \in [Call -> [owners : 0 .. Cardinality(Person), role : Role \cup {None}]]
    BY <1>2 DEF OrgInv, OrgTypeOK
  <2>2. to \in Statement /\ to \notin AboutPerson /\ to \notin {"insert", "assignee"}
    BY <1>1
  <2> QED BY <1>1, <1>2, <2>1, <2>2, GoesOnInv DEF Goes
<1>3. ASSUME Goes(c, "find", "idle"), Done(c)
      PROVE  OrgInv'
  <2>1. keys' \subseteq Key
    BY <1>1 DEF OrgInv, OrgTypeOK
  <2> QED BY <1>1, <1>3, <2>1, EndsInv DEF Goes
<1> QED BY <1>2, <1>3 DEF FindKey

LEMMA DeleteKeyInv ==
  ASSUME OrgInv, NEW c \in Call, DeleteKey(c)
  PROVE  OrgInv'
<1>1. keys' \subseteq Key /\ keys' \subseteq keys
  BY DEF DeleteKey, OrgInv, OrgTypeOK
<1> QED BY <1>1, EndsInv DEF DeleteKey, Goes

LEMMA RevokeOneInv ==
  ASSUME OrgInv, NEW c \in Call, RevokeOne(c)
  PROVE  OrgInv'
<1>1. ASSUME NEW k \in keys'
      PROVE  /\ k \in Key
             /\ k.live => \E j \in keys : j.live /\ j.by = k.by /\ j.serial = k.serial
  <2>1. PICK j \in keys : k = [j EXCEPT !.live = j.live /\ j.serial # ask[c].key]
    BY <1>1 DEF RevokeOne
  <2>2. j \in Key /\ j.live \in BOOLEAN
    BY DEF OrgInv, OrgTypeOK, Key
  <2>3. /\ k \in Key /\ k.live = (j.live /\ j.serial # ask[c].key)
        /\ k.by = j.by /\ k.serial = j.serial
    BY <2>1, <2>2 DEF Key
  <2> QED BY <2>3
<1>2. keys' \subseteq Key
  BY <1>1
<1> QED BY <1>1, <1>2, EndsInv DEF RevokeOne, Goes

LEMMA AbandonInv ==
  ASSUME OrgInv, NEW c \in Call, Abandon(c)
  PROVE  OrgInv'
<1>1. keys' \subseteq Key
  BY DEF Abandon, OrgInv, OrgTypeOK
<1> QED BY <1>1, EndsInv DEF Abandon

LEMMA SetScimTokenInv ==
  ASSUME OrgInv, NEW q \in Person, SetScimToken(q)
  PROVE  OrgInv'
<1>1. OrgTypeOK'
  BY DEF SetScimToken, OrgInv, OrgTypeOK
<1>2. ASSUME NEW p \in Person PROVE LeftFor(p)'
  <2>1. KeysUnderWay(p)' \subseteq KeysUnderWay(p)
    BY FewerUnderWay DEF SetScimToken
  <2> QED BY <2>1, LeftStays DEF SetScimToken, OrgInv
<1>3. ASSUME NEW c \in Call PROVE OrgAsk(c)'
  BY DEF SetScimToken, OrgInv, OrgAsk
<1> QED BY <1>1, <1>2, <1>3 DEF SetScimToken, OrgInv

LEMMA OrgNextInv ==
  ASSUME OrgInv, OrgNext
  PROVE  OrgInv'
<1>1. CASE \E c \in Call : Request(c)
  BY <1>1, RequestInv
<1>2. CASE \E c \in Call : Perform(c)
  BY <1>2, CountOwnersInv, ReadRoleInv, RefuseInv, DeleteMemberInv, RevokeKeysForUserInv,
     AddMemberInv, CheckAssigneeInv, InsertKeyInv, FindKeyInv, DeleteKeyInv, RevokeOneInv
  DEF Perform
<1>3. CASE \E c \in Call : RemovalFails(c) \/ Abandon(c)
  BY <1>3, RemovalFailsInv, AbandonInv
<1>4. CASE \E p \in Person : SetScimToken(p)
  BY <1>4, SetScimTokenInv
<1> QED BY <1>1, <1>2, <1>3, <1>4 DEF OrgNext

-----------------------------------------------------------------------------
(* The last owner                                                          *)

\* What takes the last owner is a removal that read something else.
LEMMA LastOwnerStep ==
  ASSUME pc \in [Call -> Statement], OrgNext, NEW c \in Call, pc[c] = "delete", pc'[c] # "delete",
         members \in [Person -> Role \cup {None}], Owners # {}, Owners' = {}
  PROVE  seen[c].owners # Cardinality(Owners) \/ seen[c].role # members[ask[c].whom]
<1>1. ASSUME NEW d \in Call, DeleteMember(d)
      PROVE  seen[c].owners # Cardinality(Owners) \/ seen[c].role # members[ask[c].whom]
  <2>1. d = c
    <3>1. pc' = [pc EXCEPT ![d] = "idle"] \/ pc' = [pc EXCEPT ![d] = "revoke_all"]
      BY <1>1 DEF DeleteMember, Goes
    <3> QED BY <3>1
  <2> DEFINE w == ask[c].whom
  <2>2. members' = [members EXCEPT ![w] = None] /\ ~Refused(c)
    BY <1>1, <2>1 DEF DeleteMember
  <2>3. Owners = {w}
    <3>1. \A p \in Person : members[p] = "owner" => p = w
      <4> SUFFICES ASSUME NEW p \in Person, members[p] = "owner", p # w PROVE FALSE
        OBVIOUS
      <4>1. members'[p] = "owner"
        BY <2>2
      <4> QED BY <4>1 DEF Owners
    <3> QED BY <3>1 DEF Owners
  <2>4. Cardinality(Owners) = 1 /\ members[w] = "owner"
    BY <2>3, FS_Singleton DEF Owners
  <2> QED BY <2>2, <2>4 DEF Refused
<1>2. ASSUME NEW d \in Call, AddMember(d)
      PROVE  FALSE
  BY <1>2 DEF AddMember, Goes
<1>3. ASSUME UNCHANGED members
      PROVE  FALSE
  BY <1>3 DEF Owners
<1>4. \/ UNCHANGED members
      \/ \E d \in Call : DeleteMember(d) \/ AddMember(d)
  <2>1. ASSUME NEW d \in Call, Request(d) PROVE UNCHANGED members
    BY <2>1 DEF Request, RemoveMember, InviteMember, UpdateMemberRole, CreateKey, RevokeKey, Scim,
                Accept
  <2>2. ASSUME NEW d \in Call, Perform(d) PROVE UNCHANGED members \/ DeleteMember(d) \/ AddMember(d)
    BY <2>2 DEF Perform, CountOwners, ReadRole, Refuse, RevokeKeysForUser, CheckAssignee, InsertKey,
                FindKey, DeleteKey, RevokeOne
  <2>3. ASSUME NEW d \in Call, RemovalFails(d) \/ Abandon(d) PROVE UNCHANGED members
    BY <2>3 DEF RemovalFails, Abandon
  <2>4. ASSUME NEW p \in Person, SetScimToken(p) PROVE UNCHANGED members
    BY <2>4 DEF SetScimToken
  <2> QED BY <2>1, <2>2, <2>3, <2>4 DEF OrgNext
<1> QED BY <1>1, <1>2, <1>3, <1>4

-----------------------------------------------------------------------------
(* Accounts                                                                *)

\* A link is made by one invitation and spent by one call: these are the statements at which a
\* call alone has it.
OwnsLink  == {"find_user", "create_placeholder", "join", "issue", "set_password"}
Owning(l) == {c \in Call : held[c] = l /\ pc[c] \in OwnsLink}

NeedsRow == {"create_org", "join", "issue", "consume", "set_password"}

AccountsTyped ==
  /\ pc \in [Call -> AccountStatement]
  /\ user \in [password : BOOLEAN, invited : BOOLEAN] \cup {None}
  /\ org \in BOOLEAN /\ enabled \in BOOLEAN /\ overtaken \in BOOLEAN
  /\ links \in SUBSET Try
  /\ redeemed \in [Try -> Nat]
  /\ secret \in Nat /\ proven \in Nat /\ stored \in Nat /\ tries \in Nat
  /\ held \in [Call -> Nat]
  /\ faults \in Nat

LinkInv(l) ==
  /\ \A c, d \in Owning(l) : c = d
  /\ l \in links => Owning(l) = {}
  /\ redeemed[l] <= 1
  /\ redeemed[l] > 0 => Owning(l) = {} /\ l \notin links
  /\ l > tries => Owning(l) = {} /\ l \notin links /\ redeemed[l] = 0

HeldInv == \A c \in Call : pc[c] \in OwnsLink => held[c] \in Try

\* A confirmation about to require the factor holds a secret it has proven.  Either that is the one
\* stored, or the stored one was overtaken, or another confirmation has proven the stored one.
FactorInv ==
  /\ secret <= stored /\ proven <= stored
  /\ secret # 0 => proven <= secret
  /\ enabled => proven > 0 /\ (secret = proven \/ overtaken)
  /\ \A c \in Call : pc[c] = "enable" =>
       /\ held[c] > 0 /\ held[c] <= proven
       /\ secret = held[c] \/ overtaken \/ (enabled /\ secret = proven)

RowInv ==
  /\ links # {} => user # None
  /\ \A c \in Call : pc[c] \in NeedsRow => user # None

AccountsInv ==
  AccountsTyped /\ (\A l \in Try : LinkInv(l)) /\ HeldInv /\ FactorInv /\ RowInv /\ SignupWhole

LEMMA AccountsBegin ==
  ASSUME TenantInit, AccountsInit
  PROVE  AccountsInv
<1> USE DEF TenantInit, AccountsInit
<1>1. AccountsTyped
  BY DEF AccountsTyped, AccountStatement
<1>2. \A l \in Try : LinkInv(l)
  BY DEF LinkInv, Owning, OwnsLink
<1>3. HeldInv /\ FactorInv /\ RowInv /\ SignupWhole
  BY DEF HeldInv, FactorInv, RowInv, SignupWhole, OwnsLink, NeedsRow
<1> QED BY <1>1, <1>2, <1>3 DEF AccountsInv

\* A step of call c.
StepOf(c) == \A d \in Call \ {c} : pc'[d] = pc[d] /\ held'[d] = held[d]

LEMMA Moved ==
  ASSUME AccountsTyped, NEW c \in Call, NEW from, NEW to \in AccountStatement, Goes(c, from, to),
         held' \in [Call -> Nat], \A d \in Call \ {c} : held'[d] = held[d]
  PROVE  /\ StepOf(c) /\ pc' \in [Call -> AccountStatement] /\ pc[c] = from /\ pc'[c] = to
BY DEF AccountsTyped, StepOf, Goes

LEMMA Continued ==
  ASSUME AccountsTyped, NEW c \in Call, NEW from, NEW to \in AccountStatement, Continue(c, from, to)
  PROVE  /\ StepOf(c) /\ pc' \in [Call -> AccountStatement] /\ pc[c] = from /\ pc'[c] = to
         /\ held' = held
<1>1. held' = held /\ held' \in [Call -> Nat] /\ Goes(c, from, to)
  BY DEF Continue, AccountsTyped
<1> QED BY <1>1, Moved

LEMMA Finished ==
  ASSUME AccountsTyped, NEW c \in Call, NEW from, Finish(c, from)
  PROVE  /\ StepOf(c) /\ pc' \in [Call -> AccountStatement] /\ pc[c] = from /\ pc'[c] = "idle"
         /\ held' \in [Call -> Nat]
<1>1. held' \in [Call -> Nat] /\ (\A d \in Call \ {c} : held'[d] = held[d]) /\ Goes(c, from, "idle")
  BY DEF Finish, AccountsTyped
<1>2. "idle" \in AccountStatement
  BY DEF AccountStatement
<1> QED BY <1>1, <1>2, Moved

\* What a call that takes no link, proves nothing and adds no account leaves as it was.
LEMMA LinksKept ==
  ASSUME AccountsInv, NEW c \in Call, StepOf(c), UNCHANGED linkVars, tries' \in Nat, tries' >= tries,
         pc'[c] \in OwnsLink => pc[c] \in OwnsLink /\ held'[c] = held[c]
  PROVE  (\A l \in Try : LinkInv(l)') /\ HeldInv'
<1>1. links' = links /\ redeemed' = redeemed
  BY DEF linkVars
<1>2. \A l \in Try : Owning(l)' \subseteq Owning(l)
  BY DEF Owning, StepOf
<1>3. ASSUME NEW l \in Try PROVE LinkInv(l)'
  <2>1. l \in Nat /\ tries \in Nat
    BY DEF Try, AccountsInv, AccountsTyped
  <2>2. l > tries' => l > tries
    BY <2>1
  <2> QED BY <1>1, <1>2, <2>2 DEF AccountsInv, LinkInv
<1>4. HeldInv'
  BY DEF AccountsInv, HeldInv, StepOf
<1> QED BY <1>3, <1>4

LEMMA FactorKept ==
  ASSUME AccountsInv, NEW c \in Call, StepOf(c), UNCHANGED <<secret, enabled, proven, overtaken, stored>>,
         pc'[c] # "enable"
  PROVE  FactorInv'
BY DEF AccountsInv, FactorInv, StepOf

LEMMA RowKept ==
  ASSUME AccountsInv, NEW c \in Call, StepOf(c), user' = user, links' \subseteq links,
         pc'[c] \in NeedsRow => user # None
  PROVE  RowInv'
BY DEF AccountsInv, RowInv, StepOf

LEMMA SignupKept ==
  ASSUME AccountsInv, NEW c \in Call, StepOf(c), UNCHANGED <<user, org, faults>>,
         pc[c] # "create_org"
  PROVE  SignupWhole'
BY DEF AccountsInv, SignupWhole, StepOf

LEMMA OrdinaryInv ==
  ASSUME AccountsInv, NEW c \in Call, StepOf(c), pc' \in [Call -> AccountStatement],
         held' \in [Call -> Nat], UNCHANGED <<faults, userVars, linkVars>>,
         UNCHANGED <<secret, enabled, proven, overtaken, stored>>, tries' \in Nat, tries' >= tries,
         pc'[c] \in OwnsLink => pc[c] \in OwnsLink /\ held'[c] = held[c],
         pc'[c] \in NeedsRow => user # None,
         pc'[c] # "enable", pc[c] # "create_org"
  PROVE  AccountsInv'
<1>1. UNCHANGED <<user, org, joined, links, redeemed>>
  BY DEF userVars, linkVars
<1>2. AccountsTyped'
  BY <1>1 DEF AccountsInv, AccountsTyped
<1>3. (\A l \in Try : LinkInv(l)') /\ HeldInv'
  BY LinksKept
<1>4. FactorInv' /\ RowInv' /\ SignupWhole'
  BY <1>1, FactorKept, RowKept, SignupKept
<1> QED BY <1>2, <1>3, <1>4 DEF AccountsInv

LEMMA LogoutInv ==
  ASSUME AccountsInv, Logout
  PROVE  AccountsInv'
<1>1. /\ UNCHANGED <<pc, plan, faults, user, org, joined, links, redeemed, held, tries>>
      /\ UNCHANGED <<secret, enabled, proven, overtaken, stored>>
  BY DEF Logout, userVars, linkVars, totpVars
<1>2. \A l \in Try : Owning(l)' = Owning(l)
  BY <1>1 DEF Owning
<1>3. \A l \in Try : LinkInv(l)'
  BY <1>1, <1>2 DEF AccountsInv, LinkInv
<1> QED BY <1>1, <1>3 DEF AccountsInv, AccountsTyped, HeldInv, FactorInv, RowInv, SignupWhole

LEMMA BeginMoves ==
  ASSUME AccountsInv, NEW c \in Call, NEW op, NEW statement \in AccountStatement, NEW n \in Nat,
         Begin(c, op, statement, n)
  PROVE  /\ StepOf(c) /\ pc' \in [Call -> AccountStatement] /\ held' \in [Call -> Nat]
         /\ pc[c] = "idle" /\ pc'[c] = statement /\ held'[c] = n
         /\ tries \in Nat /\ tries < MaxTries /\ tries' = tries + 1
         /\ UNCHANGED <<faults, userVars, linkVars>> /\ UNCHANGED <<secret, enabled, proven, overtaken, stored>>
<1>1. held' \in [Call -> Nat] /\ (\A d \in Call \ {c} : held'[d] = held[d]) /\ held'[c] = n
  BY DEF Begin, AccountsInv, AccountsTyped
<1>2. Goes(c, "idle", statement)
  BY DEF Begin
<1> QED BY <1>1, <1>2, Moved DEF Begin, totpVars, AccountsInv, AccountsTyped

LEMMA BeginInv ==
  ASSUME AccountsInv, NEW c \in Call, NEW op, NEW statement \in AccountStatement, NEW n \in Nat,
         Begin(c, op, statement, n), statement \notin OwnsLink \cup {"enable"},
         statement \in NeedsRow => user # None
  PROVE  AccountsInv'
<1>1. /\ StepOf(c) /\ pc' \in [Call -> AccountStatement] /\ held' \in [Call -> Nat]
      /\ pc[c] = "idle" /\ pc'[c] = statement
      /\ UNCHANGED <<faults, userVars, linkVars>> /\ UNCHANGED <<secret, enabled, proven, overtaken, stored>>
  BY BeginMoves
<1>2. tries \in Nat /\ tries' = tries + 1
  BY BeginMoves
<1>3. tries' \in Nat /\ tries' >= tries
  BY <1>2
<1> QED BY <1>1, <1>3, OrdinaryInv

\* The number of a call is nobody else's: its link is new.
LEMMA InviteInv ==
  ASSUME AccountsInv, NEW c \in Call, Invite(c)
  PROVE  AccountsInv'
<1> DEFINE n == tries + 1
<1>1. n \in Nat /\ "find_user" \in AccountStatement /\ Begin(c, "invite", "find_user", n)
  BY DEF Invite, AccountStatement, AccountsInv, AccountsTyped
<1>2. /\ StepOf(c) /\ pc' \in [Call -> AccountStatement] /\ held' \in [Call -> Nat]
      /\ pc[c] = "idle" /\ pc'[c] = "find_user" /\ held'[c] = n
      /\ tries \in Nat /\ tries < MaxTries /\ tries' = n
      /\ UNCHANGED <<faults, userVars, linkVars>> /\ UNCHANGED <<secret, enabled, proven, overtaken, stored>>
  BY <1>1, BeginMoves
<1>3. UNCHANGED <<user, org, joined, links, redeemed>>
  BY <1>2 DEF userVars, linkVars
<1>4. n \in Try /\ n > tries
  BY <1>2, AccountsAssumption DEF Try
<1>5. \A l \in Try : l > n => l > tries
  BY <1>2 DEF Try
<1> HIDE DEF n
<1>6. AccountsTyped'
  BY <1>1, <1>2, <1>3 DEF AccountsInv, AccountsTyped
<1>7. ASSUME NEW l \in Try PROVE LinkInv(l)'
  <2>1. CASE l = n
    <3>1. Owning(l) = {} /\ l \notin links /\ redeemed[l] = 0
      BY <1>4, <2>1 DEF AccountsInv, LinkInv
    <3>2. Owning(l)' \subseteq {c}
      BY <1>2, <3>1 DEF Owning, StepOf
    <3>3. ~(l > n)
      BY <2>1, <1>1
    <3> QED BY <1>2, <1>3, <3>1, <3>2, <3>3 DEF LinkInv
  <2>2. CASE l # n
    <3>1. Owning(l)' \subseteq Owning(l)
      BY <1>2, <2>2 DEF Owning, StepOf
    <3> QED BY <1>2, <1>3, <1>5, <3>1 DEF LinkInv, AccountsInv
  <2> QED BY <2>1, <2>2
<1>8. HeldInv'
  BY <1>2, <1>4 DEF AccountsInv, HeldInv, StepOf
<1>9. FactorInv' /\ RowInv' /\ SignupWhole'
  <2>1. pc'[c] # "enable" /\ pc'[c] \notin NeedsRow /\ pc[c] # "create_org"
    BY <1>2 DEF NeedsRow
  <2> QED BY <1>2, <1>3, <2>1, FactorKept, RowKept, SignupKept
<1> QED BY <1>6, <1>7, <1>8, <1>9 DEF AccountsInv

LEMMA BeginningsInv ==
  ASSUME AccountsInv, NEW c \in Call,
         \/ Signup(c) \/ Login(c) \/ Invite(c) \/ Enroll(c) \/ Confirm(c) \/ Disable(c)
         \/ \E l \in Try : AcceptInvite(c, l)
  PROVE  AccountsInv'
<1>1. {"create_user", "find_login", "store", "get_secret", "clear", "consume"} \subseteq AccountStatement
  BY DEF AccountStatement
<1>2. ASSUME NEW op,
             NEW statement \in {"create_user", "find_login", "store", "get_secret", "clear"},
             Begin(c, op, statement, 0)
      PROVE  AccountsInv'
  <2>1. statement \in AccountStatement /\ statement \notin OwnsLink \cup {"enable"} /\ statement \notin NeedsRow
    BY <1>1 DEF OwnsLink, NeedsRow
  <2> QED BY <1>2, <2>1, BeginInv
<1>3. ASSUME NEW l \in Try, AcceptInvite(c, l)
      PROVE  AccountsInv'
  <2>1. user # None /\ l \in Nat
    BY <1>3 DEF AcceptInvite, AccountsInv, RowInv, Try
  <2>2. "consume" \notin OwnsLink \cup {"enable"}
    BY DEF OwnsLink
  <2> QED BY <1>1, <1>3, <2>1, <2>2, BeginInv DEF AcceptInvite
<1> QED BY <1>2, <1>3, InviteInv DEF Signup, Login, Enroll, Confirm, Disable

-----------------------------------------------------------------------------
(* The statements of an account's call                                     *)

\* The statements that read, or write what the invariant does not speak of.
LEMMA ContinueInv ==
  ASSUME AccountsInv, NEW c \in Call, NEW from, NEW to \in AccountStatement,
         Continue(c, from, to), UNCHANGED <<faults, userVars, linkVars, tries>>,
         UNCHANGED <<secret, enabled, proven, overtaken, stored>>,
         to \in OwnsLink => from \in OwnsLink, to \in NeedsRow => user # None,
         to # "enable", from # "create_org"
  PROVE  AccountsInv'
<1>1. /\ StepOf(c) /\ pc' \in [Call -> AccountStatement] /\ pc[c] = from /\ pc'[c] = to
      /\ held' = held
  BY Continued DEF AccountsInv
<1>2. tries' \in Nat /\ tries' >= tries /\ held' \in [Call -> Nat]
  BY <1>1 DEF AccountsInv, AccountsTyped
<1> QED BY <1>1, <1>2, OrdinaryInv

LEMMA FinishInv ==
  ASSUME AccountsInv, NEW c \in Call, NEW from, Finish(c, from),
         UNCHANGED <<faults, userVars, linkVars, tries>>,
         UNCHANGED <<secret, enabled, proven, overtaken, stored>>, from # "create_org"
  PROVE  AccountsInv'
<1>1. /\ StepOf(c) /\ pc' \in [Call -> AccountStatement] /\ pc[c] = from /\ pc'[c] = "idle"
      /\ held' \in [Call -> Nat]
  BY Finished DEF AccountsInv
<1>2. tries' \in Nat /\ tries' >= tries
  BY DEF AccountsInv, AccountsTyped
<1>3. "idle" \notin OwnsLink /\ "idle" \notin NeedsRow
  BY DEF OwnsLink, NeedsRow
<1> QED BY <1>1, <1>2, <1>3, OrdinaryInv

\* The row of an email is made once, and stays.
LEMMA CreateRowInv ==
  ASSUME AccountsInv, NEW c \in Call, NEW from \in {"create_user", "create_placeholder"},
         NEW to \in {"create_org", "join"}, NEW password \in BOOLEAN, user = None,
         user' = Row(password), password => to = "create_org",
         from = "create_placeholder" <=> to = "join",
         Continue(c, from, to), UNCHANGED <<faults, org, linkVars, totpVars, tries>>
  PROVE  AccountsInv'
<1>1. to \in AccountStatement
  BY DEF AccountStatement
<1>2. /\ StepOf(c) /\ pc' \in [Call -> AccountStatement] /\ pc[c] = from /\ pc'[c] = to
      /\ held' = held
  BY <1>1, Continued DEF AccountsInv
<1>3. /\ user' \in [password : BOOLEAN, invited : BOOLEAN] /\ user' # None
      /\ user'.invited = ~password
  <2>1. Row(password) \in [password : BOOLEAN, invited : BOOLEAN]
    BY DEF Row
  <2>2. Row(password).invited = ~password
    BY DEF Row
  <2> QED BY <2>1, <2>2, AccountsAssumption
<1>4. UNCHANGED <<links, redeemed, secret, enabled, proven, overtaken, stored>>
  BY DEF linkVars, totpVars
<1>5. AccountsTyped'
  BY <1>2, <1>3, <1>4 DEF AccountsInv, AccountsTyped
<1>6. tries' \in Nat /\ tries' >= tries
  BY DEF AccountsInv, AccountsTyped
<1>7. (\A l \in Try : LinkInv(l)') /\ HeldInv'
  BY <1>2, <1>6, LinksKept DEF OwnsLink
<1>8. FactorInv'
  BY <1>2, <1>4, FactorKept
<1>9. RowInv' /\ SignupWhole'
  BY <1>2, <1>3 DEF RowInv, SignupWhole
<1> QED BY <1>5, <1>7, <1>8, <1>9 DEF AccountsInv

LEMMA CreateUserInv ==
  ASSUME AccountsInv, NEW c \in Call, CreateUser(c) \/ CreatePlaceholder(c)
  PROVE  AccountsInv'
<1>1. CASE user = None
  <2>1. CASE CreateUser(c)
    BY <1>1, <2>1, CreateRowInv DEF CreateUser
  <2>2. CASE CreatePlaceholder(c)
    BY <1>1, <2>2, CreateRowInv DEF CreatePlaceholder
  <2> QED BY <2>1, <2>2
<1>2. CASE user # None
  <2>1. /\ Finish(c, "create_user") \/ Finish(c, "create_placeholder")
        /\ UNCHANGED <<faults, userVars, linkVars, tries>>
        /\ UNCHANGED <<secret, enabled, proven, overtaken, stored>>
    BY <1>2 DEF CreateUser, CreatePlaceholder, userVars, totpVars
  <2> QED BY <2>1, FinishInv
<1> QED BY <1>1, <1>2

LEMMA CreateOrgInv ==
  ASSUME AccountsInv, NEW c \in Call, CreateOrg(c)
  PROVE  AccountsInv'
<1>1. /\ "session" \in AccountStatement /\ "session" \notin OwnsLink \cup NeedsRow
      /\ UNCHANGED <<faults, user, links, redeemed, secret, enabled, proven, overtaken, stored, tries>> /\ org' = TRUE
  BY DEF CreateOrg, AccountStatement, OwnsLink, NeedsRow, linkVars, totpVars
<1>2. /\ StepOf(c) /\ pc' \in [Call -> AccountStatement] /\ pc'[c] = "session"
      /\ held' = held
  BY <1>1, Continued DEF AccountsInv, CreateOrg
<1>3. AccountsTyped'
  BY <1>1, <1>2 DEF AccountsInv, AccountsTyped
<1>4. tries' \in Nat /\ tries' >= tries
  BY <1>1 DEF AccountsInv, AccountsTyped
<1>5. (\A l \in Try : LinkInv(l)') /\ HeldInv'
  BY <1>1, <1>2, <1>4, LinksKept DEF linkVars
<1>6. FactorInv' /\ RowInv'
  BY <1>1, <1>2, FactorKept, RowKept
<1>7. SignupWhole'
  BY <1>1 DEF SignupWhole
<1> QED BY <1>3, <1>5, <1>6, <1>7 DEF AccountsInv

LEMMA InvitedInv ==
  ASSUME AccountsInv, NEW c \in Call, FindInvited(c) \/ Join(c)
  PROVE  AccountsInv'
<1>1. CASE FindInvited(c)
  <2>1. PICK to \in {"create_placeholder", "join"} :
          /\ Continue(c, "find_user", to)
          /\ to = "join" => user # None
          /\ UNCHANGED <<faults, userVars, linkVars, totpVars, tries>>
    BY <1>1 DEF FindInvited
  <2>2. /\ to \in AccountStatement /\ "find_user" \in OwnsLink
        /\ to \in NeedsRow => user # None
    BY <2>1 DEF AccountStatement, OwnsLink, NeedsRow
  <2> QED BY <2>1, <2>2, ContinueInv DEF totpVars
<1>2. CASE Join(c)
  <2>1. /\ StepOf(c) /\ pc' \in [Call -> AccountStatement] /\ pc[c] = "join" /\ pc'[c] = "issue"
        /\ held' = held
    BY <1>2, Continued DEF AccountsInv, Join, AccountStatement
  <2>2. /\ UNCHANGED <<faults, user, org, links, redeemed, tries>>
        /\ UNCHANGED <<secret, enabled, proven, overtaken, stored>>
    BY <1>2 DEF Join, linkVars, totpVars
  <2>3. user # None /\ "join" \in OwnsLink
    BY <2>1 DEF AccountsInv, RowInv, NeedsRow, OwnsLink
  <2>4. tries' \in Nat /\ tries' >= tries /\ AccountsTyped'
    BY <2>1, <2>2 DEF AccountsInv, AccountsTyped
  <2>5. (\A l \in Try : LinkInv(l)') /\ HeldInv'
    BY <2>1, <2>2, <2>3, <2>4, LinksKept DEF linkVars
  <2>6. FactorInv' /\ RowInv' /\ SignupWhole'
    BY <2>1, <2>2, <2>3, FactorKept, RowKept, SignupKept
  <2> QED BY <2>4, <2>5, <2>6 DEF AccountsInv
<1> QED BY <1>1, <1>2

\* A link that is issued is its call's no longer.
LEMMA CreateAuthTokenInv ==
  ASSUME AccountsInv, NEW c \in Call, CreateAuthToken(c)
  PROVE  AccountsInv'
<1> DEFINE n == held[c]
<1>1. /\ StepOf(c) /\ pc' \in [Call -> AccountStatement] /\ pc[c] = "issue" /\ pc'[c] = "idle"
      /\ held' \in [Call -> Nat]
  BY Finished DEF AccountsInv, CreateAuthToken
<1>2. /\ UNCHANGED <<faults, user, org, redeemed, tries>>
      /\ UNCHANGED <<secret, enabled, proven, overtaken, stored>>
      /\ links' = links \cup {n}
  BY DEF CreateAuthToken, userVars, totpVars
<1>3. user # None /\ n \in Try /\ c \in Owning(n)
  BY <1>1 DEF AccountsInv, RowInv, HeldInv, NeedsRow, OwnsLink, Owning
<1> HIDE DEF n
<1>4. AccountsTyped'
  BY <1>1, <1>2, <1>3 DEF AccountsInv, AccountsTyped
<1>5. ASSUME NEW l \in Try PROVE LinkInv(l)'
  <2>1. Owning(l)' = Owning(l) \ {c}
    BY <1>1 DEF Owning, StepOf, OwnsLink
  <2>2. CASE l = n
    <3>1. Owning(l)' = {}
      BY <1>3, <2>1, <2>2 DEF AccountsInv, LinkInv
    <3>2. ~(l > tries) /\ ~(redeemed[l] > 0)
      BY <1>3, <2>2 DEF AccountsInv, LinkInv
    <3> QED BY <1>2, <3>1, <3>2 DEF AccountsInv, LinkInv
  <2>3. CASE l # n
    BY <1>2, <2>1, <2>3 DEF AccountsInv, LinkInv
  <2> QED BY <2>2, <2>3
<1>6. HeldInv'
  BY <1>1 DEF AccountsInv, HeldInv, StepOf, OwnsLink
<1>7. FactorInv' /\ SignupWhole'
  BY <1>1, <1>2, FactorKept, SignupKept
<1>8. RowInv'
  BY <1>1, <1>2, <1>3 DEF AccountsInv, RowInv, StepOf
<1> QED BY <1>4, <1>5, <1>6, <1>7, <1>8 DEF AccountsInv

\* Only the call whose statement spends the link has it then.
LEMMA ConsumeInv ==
  ASSUME AccountsInv, NEW c \in Call, ConsumeAuthToken(c)
  PROVE  AccountsInv'
<1> DEFINE n == held[c]
<1>1. CASE n \notin links
  <2>1. UNCHANGED <<faults, userVars, linkVars, tries>> /\ UNCHANGED <<secret, enabled, proven, overtaken, stored>>
    BY <1>1 DEF ConsumeAuthToken, linkVars, totpVars
  <2> QED BY <1>1, <2>1, FinishInv DEF ConsumeAuthToken
<1>2. CASE n \in links
  <2>1. /\ StepOf(c) /\ pc' \in [Call -> AccountStatement] /\ pc[c] = "consume"
        /\ pc'[c] = "set_password" /\ held' = held
    BY <1>2, Continued DEF AccountsInv, ConsumeAuthToken, AccountStatement
  <2>2. /\ UNCHANGED <<faults, user, org, redeemed, tries>>
        /\ UNCHANGED <<secret, enabled, proven, overtaken, stored>>
        /\ links' = links \ {n}
    BY <1>2 DEF ConsumeAuthToken, userVars, totpVars
  <2>3. user # None /\ n \in Try
    BY <1>2 DEF AccountsInv, RowInv, AccountsTyped
  <2>4. AccountsTyped'
    BY <2>1, <2>2 DEF AccountsInv, AccountsTyped
  <2>5. ASSUME NEW l \in Try PROVE LinkInv(l)'
    <3>1. CASE l = n
      <4>1. Owning(l) = {} /\ ~(redeemed[l] > 0) /\ ~(l > tries)
        BY <1>2, <2>3, <3>1 DEF AccountsInv, LinkInv
      <4>2. Owning(l)' \subseteq {c}
        BY <2>1, <4>1 DEF Owning, StepOf
      <4> QED BY <2>2, <3>1, <4>1, <4>2 DEF LinkInv, AccountsInv
    <3>2. CASE l # n
      <4>1. Owning(l)' = Owning(l)
        BY <2>1, <3>2 DEF Owning, StepOf, OwnsLink
      <4> QED BY <2>2, <3>2, <4>1 DEF LinkInv, AccountsInv
    <3> QED BY <3>1, <3>2
  <2>6. HeldInv'
    BY <2>1, <2>3 DEF AccountsInv, HeldInv, StepOf
  <2>7. FactorInv' /\ RowInv' /\ SignupWhole'
    BY <2>1, <2>2, <2>3, FactorKept, RowKept, SignupKept
  <2> QED BY <2>4, <2>5, <2>6, <2>7 DEF AccountsInv
<1> QED BY <1>1, <1>2

LEMMA UpdatePasswordInv ==
  ASSUME AccountsInv, NEW c \in Call, UpdatePassword(c)
  PROVE  AccountsInv'
<1> DEFINE n == held[c]
<1>1. /\ StepOf(c) /\ pc' \in [Call -> AccountStatement] /\ pc[c] = "set_password"
      /\ pc'[c] = "session" /\ held' = held
  BY Continued DEF AccountsInv, UpdatePassword, AccountStatement
<1>2. /\ UNCHANGED <<faults, org, links, tries>>
      /\ UNCHANGED <<secret, enabled, proven, overtaken, stored>>
      /\ user' = [user EXCEPT !.password = TRUE]
      /\ redeemed' = [redeemed EXCEPT ![n] = @ + 1]
  BY DEF UpdatePassword, totpVars
<1>3. n \in Try /\ c \in Owning(n) /\ user \in [password : BOOLEAN, invited : BOOLEAN] /\ user # None
  BY <1>1 DEF AccountsInv, AccountsTyped, RowInv, HeldInv, NeedsRow, OwnsLink, Owning
<1>4. /\ user' \in [password : BOOLEAN, invited : BOOLEAN] /\ user'.invited = user.invited
      /\ user' # None
  BY <1>2, <1>3, AccountsAssumption
<1> HIDE DEF n
<1>5. AccountsTyped'
  <2>1. redeemed' \in [Try -> Nat]
    <3>1. redeemed[n] + 1 \in Nat /\ redeemed \in [Try -> Nat]
      BY <1>3 DEF AccountsInv, AccountsTyped
    <3>2. redeemed' = [redeemed EXCEPT ![n] = redeemed[n] + 1]
      BY <1>2
    <3> QED BY <3>1, <3>2
  <2> QED BY <1>1, <1>2, <1>4, <2>1 DEF AccountsInv, AccountsTyped
<1>6. ASSUME NEW l \in Try PROVE LinkInv(l)'
  <2>1. Owning(l)' = Owning(l) \ {c}
    BY <1>1 DEF Owning, StepOf, OwnsLink
  <2>2. CASE l = n
    <3>1. Owning(l)' = {}
      BY <1>3, <2>1, <2>2 DEF AccountsInv, LinkInv
    <3>2. ~(l > tries) /\ redeemed[l] = 0 /\ l \notin links
      <4>1. redeemed[l] \in Nat
        BY DEF AccountsInv, AccountsTyped
      <4> QED BY <1>3, <2>2, <4>1 DEF AccountsInv, LinkInv
    <3>3. redeemed'[l] = 1
      BY <1>2, <2>2, <3>2 DEF AccountsInv, AccountsTyped
    <3> QED BY <1>2, <3>1, <3>2, <3>3 DEF LinkInv
  <2>3. CASE l # n
    <3>1. redeemed'[l] = redeemed[l]
      BY <1>2, <2>3 DEF AccountsInv, AccountsTyped
    <3> QED BY <1>2, <2>1, <3>1 DEF AccountsInv, LinkInv
  <2> QED BY <2>2, <2>3
<1>7. HeldInv'
  BY <1>1 DEF AccountsInv, HeldInv, StepOf, OwnsLink
<1>8. FactorInv'
  BY <1>1, <1>2, FactorKept
<1>9. RowInv' /\ SignupWhole'
  BY <1>1, <1>2, <1>3, <1>4 DEF AccountsInv, RowInv, SignupWhole, StepOf
<1> QED BY <1>5, <1>6, <1>7, <1>8, <1>9 DEF AccountsInv

LEMMA SignInInv ==
  ASSUME AccountsInv, NEW c \in Call, CreateSession(c) \/ FindLogin(c) \/ CheckCode(c)
  PROVE  AccountsInv'
<1>1. /\ UNCHANGED <<faults, userVars, linkVars, tries>> /\ UNCHANGED <<secret, enabled, proven, overtaken, stored>>
      /\ \/ \E from \in {"session", "find_login", "check_code"} : Finish(c, from)
         \/ \E from \in {"find_login", "check_code"}, to \in {"check_code", "session"} :
              Continue(c, from, to)
  BY DEF CreateSession, FindLogin, CheckCode, totpVars
<1>2. \A to \in {"check_code", "session"} : to \in AccountStatement /\ to \notin OwnsLink /\ to \notin NeedsRow
  BY DEF AccountStatement, OwnsLink, NeedsRow
<1>3. ASSUME NEW from \in {"session", "find_login", "check_code"}, Finish(c, from)
      PROVE  AccountsInv'
  BY <1>1, <1>3, FinishInv
<1>4. ASSUME NEW from \in {"find_login", "check_code"}, NEW to \in {"check_code", "session"},
             Continue(c, from, to)
      PROVE  AccountsInv'
  BY <1>1, <1>2, <1>4, ContinueInv
<1> QED BY <1>1, <1>3, <1>4

-----------------------------------------------------------------------------
(* The second factor                                                       *)

\* The steps that store, prove and drop a secret leave accounts and links alone.
LEMMA FactorStepInv ==
  ASSUME AccountsInv, NEW c \in Call, StepOf(c), pc' \in [Call -> AccountStatement],
         held' \in [Call -> Nat], UNCHANGED <<faults, userVars, linkVars, tries>>,
         pc'[c] \notin OwnsLink \cup NeedsRow, pc[c] # "create_org",
         secret' \in Nat, proven' \in Nat, stored' \in Nat, enabled' \in BOOLEAN,
         overtaken' \in BOOLEAN, FactorInv'
  PROVE  AccountsInv'
<1>1. UNCHANGED <<user, org, joined, links, redeemed>>
  BY DEF userVars, linkVars
<1>2. AccountsTyped'
  BY <1>1 DEF AccountsInv, AccountsTyped
<1>3. tries' \in Nat /\ tries' >= tries
  BY DEF AccountsInv, AccountsTyped
<1>4. (\A l \in Try : LinkInv(l)') /\ HeldInv'
  BY <1>3, LinksKept
<1>5. RowInv' /\ SignupWhole'
  BY <1>1, RowKept, SignupKept
<1> QED BY <1>2, <1>4, <1>5 DEF AccountsInv

\* A secret stored over the proven one is newer, and overtakes it.
LEMMA SetTotpSecretInv ==
  ASSUME AccountsInv, NEW c \in Call, SetTotpSecret(c)
  PROVE  AccountsInv'
<1>1. "answer" \in AccountStatement /\ "answer" \notin OwnsLink \cup NeedsRow
  BY DEF AccountStatement, OwnsLink, NeedsRow
<1>2. /\ stored \in Nat /\ secret \in Nat /\ proven \in Nat /\ enabled \in BOOLEAN
      /\ secret <= stored /\ proven <= stored /\ held \in [Call -> Nat]
      /\ UNCHANGED <<faults, userVars, linkVars, tries, enabled, proven>>
      /\ stored' = stored + 1 /\ secret' = stored + 1
      /\ overtaken' = (enabled \/ Confirming)
  BY DEF AccountsInv, AccountsTyped, FactorInv, SetTotpSecret
<1>3. /\ held' \in [Call -> Nat] /\ \A d \in Call \ {c} : held'[d] = held[d]
      /\ Goes(c, "store", "answer")
  <2>1. stored + 1 \in Nat
    BY <1>2
  <2> QED BY <2>1 DEF SetTotpSecret, AccountsInv, AccountsTyped
<1>4. StepOf(c) /\ pc' \in [Call -> AccountStatement] /\ pc[c] = "store" /\ pc'[c] = "answer"
  BY <1>1, <1>3, Moved DEF AccountsInv
<1>5. stored' \in Nat /\ secret' \in Nat /\ secret' <= stored' /\ proven <= stored' /\ proven <= secret'
  BY <1>2
<1>6. overtaken' \in BOOLEAN
  BY <1>2
<1>7. FactorInv'
  <2>1. enabled' => proven' > 0 /\ overtaken'
    BY <1>2 DEF AccountsInv, FactorInv
  <2>2. ASSUME NEW d \in Call, pc'[d] = "enable"
        PROVE  /\ held'[d] > 0 /\ held'[d] <= proven'
               /\ secret' = held'[d] \/ overtaken' \/ (enabled' /\ secret' = proven')
    <3>1. d # c /\ pc[d] = "enable" /\ held'[d] = held[d]
      BY <1>4, <2>2 DEF StepOf
    <3>2. Confirming
      BY <3>1 DEF Confirming
    <3>3. overtaken' = TRUE
      BY <1>2, <3>2
    <3>4. held[d] > 0 /\ held[d] <= proven
      BY <3>1 DEF AccountsInv, FactorInv
    <3>5. held'[d] > 0 /\ held'[d] <= proven'
      BY <1>2, <3>1, <3>4
    <3> QED BY <3>3, <3>5
  <2>3. enabled' => secret' = proven' \/ overtaken'
    BY <2>1
  <2>4. secret' <= stored' /\ proven' <= stored' /\ (secret' # 0 => proven' <= secret')
    BY <1>2, <1>5
  <2>6. enabled' => proven' > 0
    BY <2>1
  <2> QED BY <2>2, <2>3, <2>4, <2>6 DEF FactorInv
<1> QED BY <1>1, <1>2, <1>3, <1>4, <1>5, <1>6, <1>7, FactorStepInv

LEMMA GetTotpSecretInv ==
  ASSUME AccountsInv, NEW c \in Call, GetTotpSecret(c)
  PROVE  AccountsInv'
<1>1. CASE secret # 0 /\ app = secret
  <2>1. "enable" \in AccountStatement /\ "enable" \notin OwnsLink \cup NeedsRow
    BY DEF AccountStatement, OwnsLink, NeedsRow
  <2>2. /\ stored \in Nat /\ secret \in Nat /\ enabled \in BOOLEAN /\ overtaken \in BOOLEAN
        /\ proven \in Nat /\ held \in [Call -> Nat]
        /\ UNCHANGED <<faults, userVars, linkVars, tries, enabled, secret, overtaken, stored>>
        /\ proven' = secret /\ held' = [held EXCEPT ![c] = secret] /\ Goes(c, "get_secret", "enable")
    BY <1>1 DEF AccountsInv, AccountsTyped, GetTotpSecret
  <2>3. /\ held' \in [Call -> Nat] /\ held'[c] = secret
        /\ \A d \in Call \ {c} : held'[d] = held[d]
    BY <2>2
  <2>4. /\ StepOf(c) /\ pc' \in [Call -> AccountStatement] /\ pc[c] = "get_secret"
        /\ pc'[c] = "enable"
    BY <2>1, <2>2, <2>3, Moved DEF AccountsInv
  <2>5. proven' \in Nat /\ proven' > 0 /\ proven' <= secret /\ secret <= stored /\ proven <= secret
    BY <1>1, <2>2 DEF AccountsInv, FactorInv
  <2>6. FactorInv'
    <3>1. ASSUME NEW d \in Call, pc'[d] = "enable"
          PROVE  /\ held'[d] > 0 /\ held'[d] <= proven'
                 /\ secret' = held'[d] \/ overtaken' \/ (enabled' /\ secret' = proven')
      <4>1. CASE d = c
        BY <2>2, <2>3, <2>5, <4>1
      <4>2. CASE d # c
        <5>1. pc[d] = "enable" /\ held'[d] = held[d] /\ held[d] \in Nat
          BY <2>2, <2>4, <3>1, <4>2 DEF StepOf
        <5>2. /\ held[d] > 0 /\ held[d] <= proven
              /\ secret = held[d] \/ overtaken \/ (enabled /\ secret = proven)
          BY <5>1 DEF AccountsInv, FactorInv
        <5>3. held[d] <= secret
          BY <2>2, <2>5, <5>1, <5>2
        <5> QED BY <2>2, <5>1, <5>2, <5>3
      <4> QED BY <4>1, <4>2
    <3> QED BY <2>2, <2>5, <3>1 DEF FactorInv
  <2> QED BY <2>1, <2>2, <2>3, <2>4, <2>5, <2>6, FactorStepInv
<1>2. CASE ~(secret # 0 /\ app = secret)
  <2>1. /\ UNCHANGED <<faults, userVars, linkVars, tries>>
        /\ UNCHANGED <<secret, enabled, proven, overtaken, stored>> /\ Finish(c, "get_secret")
    BY <1>2 DEF GetTotpSecret
  <2> QED BY <2>1, FinishInv
<1> QED BY <1>1, <1>2

LEMMA EnrolledInv ==
  ASSUME AccountsInv, NEW c \in Call, Enrolled(c)
  PROVE  AccountsInv'
<1>1. /\ UNCHANGED <<faults, userVars, linkVars, tries>>
      /\ UNCHANGED <<secret, enabled, proven, overtaken, stored>> /\ Finish(c, "answer")
  BY DEF Enrolled
<1> QED BY <1>1, FinishInv

\* What is enforced from now on is what this confirmation proved, or was overtaken.
LEMMA EnableTotpInv ==
  ASSUME AccountsInv, NEW c \in Call, EnableTotp(c)
  PROVE  AccountsInv'
<1>1. /\ StepOf(c) /\ pc' \in [Call -> AccountStatement] /\ pc[c] = "enable" /\ pc'[c] = "idle"
      /\ held' \in [Call -> Nat]
  BY Finished DEF AccountsInv, EnableTotp
<1>2. /\ stored \in Nat /\ secret \in Nat /\ proven \in Nat /\ overtaken \in BOOLEAN /\ held[c] \in Nat
      /\ UNCHANGED <<faults, userVars, linkVars, tries, secret, proven, stored>>
      /\ enabled' = TRUE /\ overtaken' = (overtaken /\ held[c] # secret)
      /\ "idle" \notin OwnsLink \cup NeedsRow
  BY DEF AccountsInv, AccountsTyped, EnableTotp, OwnsLink, NeedsRow
<1>3. /\ held[c] > 0 /\ held[c] <= proven
      /\ secret = held[c] \/ overtaken \/ (enabled /\ secret = proven)
      /\ secret # 0 => proven <= secret
  BY <1>1 DEF AccountsInv, FactorInv
<1>4. secret' = proven' \/ overtaken'
  BY <1>2, <1>3
<1>5. FactorInv'
  <2>1. ASSUME NEW d \in Call, pc'[d] = "enable"
        PROVE  /\ held'[d] > 0 /\ held'[d] <= proven'
               /\ secret' = held'[d] \/ overtaken' \/ (enabled' /\ secret' = proven')
    <3>1. d # c /\ pc[d] = "enable" /\ held'[d] = held[d]
      BY <1>1, <2>1 DEF StepOf
    <3> QED BY <1>2, <1>4, <3>1 DEF AccountsInv, FactorInv
  <2>2. proven' > 0
    BY <1>2, <1>3
  <2> QED BY <1>2, <1>4, <2>1, <2>2 DEF AccountsInv, FactorInv
<1> QED BY <1>1, <1>2, <1>5, FactorStepInv

LEMMA DisableTotpInv ==
  ASSUME AccountsInv, NEW c \in Call, DisableTotp(c)
  PROVE  AccountsInv'
<1>1. /\ StepOf(c) /\ pc' \in [Call -> AccountStatement] /\ pc[c] = "clear" /\ pc'[c] = "idle"
      /\ held' \in [Call -> Nat]
  BY Finished DEF AccountsInv, DisableTotp
<1>2. /\ stored \in Nat /\ secret \in Nat /\ proven \in Nat
      /\ UNCHANGED <<faults, userVars, linkVars, tries, proven, stored>>
      /\ enabled' = FALSE /\ secret' = 0 /\ overtaken' = Confirming /\ overtaken' \in BOOLEAN
      /\ "idle" \notin OwnsLink \cup NeedsRow
  BY DEF AccountsInv, AccountsTyped, DisableTotp, Confirming, OwnsLink, NeedsRow
<1>3. FactorInv'
  <2>1. ASSUME NEW d \in Call, pc'[d] = "enable"
        PROVE  /\ held'[d] > 0 /\ held'[d] <= proven'
               /\ secret' = held'[d] \/ overtaken' \/ (enabled' /\ secret' = proven')
    <3>1. d # c /\ pc[d] = "enable" /\ held'[d] = held[d]
      BY <1>1, <2>1 DEF StepOf
    <3>2. Confirming
      BY <3>1 DEF Confirming
    <3>3. overtaken' = TRUE
      BY <1>2, <3>2
    <3>4. held[d] > 0 /\ held[d] <= proven
      BY <3>1 DEF AccountsInv, FactorInv
    <3>5. held'[d] > 0 /\ held'[d] <= proven'
      BY <1>2, <3>1, <3>4
    <3> QED BY <3>3, <3>5
  <2>2. 0 <= stored /\ proven <= stored
    BY <1>2 DEF AccountsInv, FactorInv
  <2>3. secret' <= stored' /\ proven' <= stored' /\ (secret' # 0 => proven' <= secret')
    BY <1>2, <2>2
  <2>4. enabled' => proven' > 0 /\ (secret' = proven' \/ overtaken')
    BY <1>2
  <2> QED BY <2>1, <2>3, <2>4 DEF FactorInv
<1> QED BY <1>1, <1>2, <1>3, FactorStepInv

LEMMA DisableAccountInv ==
  ASSUME AccountsInv, DisableAccount
  PROVE  AccountsInv'
<1>1. /\ UNCHANGED <<pc, faults, user, org, links, redeemed, held, tries>>
      /\ UNCHANGED <<secret, enabled, proven, overtaken, stored>>
  BY DEF DisableAccount, linkVars, totpVars
<1>2. \A l \in Try : Owning(l)' = Owning(l)
  BY <1>1 DEF Owning
<1>3. \A l \in Try : LinkInv(l)'
  BY <1>1, <1>2 DEF AccountsInv, LinkInv
<1> QED BY <1>1, <1>3 DEF AccountsInv, AccountsTyped, HeldInv, FactorInv, RowInv, SignupWhole

\* Signing up that is cut short is a failure more.
LEMMA GiveUpInv ==
  ASSUME AccountsInv, NEW c \in Call, GiveUp(c)
  PROVE  AccountsInv'
<1>1. /\ StepOf(c) /\ pc' \in [Call -> AccountStatement] /\ pc'[c] = "idle"
      /\ held' \in [Call -> Nat]
  BY Finished DEF AccountsInv, GiveUp
<1>2. /\ UNCHANGED <<user, org, links, redeemed, tries>> /\ UNCHANGED <<secret, enabled, proven, overtaken, stored>>
      /\ UNCHANGED linkVars /\ faults' = faults + 1
  BY DEF GiveUp, Fault, userVars, linkVars, totpVars
<1>3. faults' \in Nat /\ faults' > 0
  BY <1>2 DEF AccountsInv, AccountsTyped
<1>4. AccountsTyped'
  BY <1>1, <1>2, <1>3 DEF AccountsInv, AccountsTyped
<1>5. "idle" \notin OwnsLink \cup NeedsRow /\ tries' \in Nat /\ tries' >= tries
  BY <1>2 DEF OwnsLink, NeedsRow, AccountsInv, AccountsTyped
<1>6. (\A l \in Try : LinkInv(l)') /\ HeldInv'
  BY <1>1, <1>2, <1>5, LinksKept
<1>7. FactorInv' /\ RowInv'
  BY <1>1, <1>2, <1>5, FactorKept, RowKept
<1>8. SignupWhole'
  BY <1>3 DEF SignupWhole
<1> QED BY <1>4, <1>6, <1>7, <1>8 DEF AccountsInv

LEMMA AccountsNextInv ==
  ASSUME AccountsInv, AccountsNext
  PROVE  AccountsInv'
BY LogoutInv, BeginningsInv, CreateUserInv, CreateOrgInv, SignInInv, InvitedInv, CreateAuthTokenInv,
   ConsumeInv, UpdatePasswordInv, SetTotpSecretInv, EnrolledInv, GetTotpSecretInv, EnableTotpInv,
   DisableTotpInv, DisableAccountInv, GiveUpInv
DEF AccountsNext

-----------------------------------------------------------------------------
(* Claims and customers                                                    *)

InStatement(s) == {c \in Call : pc[c] = s}

\* The sizes of the sets of calls that are in a statement.
LEMMA CallSets ==
  ASSUME NEW S \in SUBSET Call
  PROVE  IsFiniteSet(S) /\ Cardinality(S) \in Nat /\ Cardinality(S) <= Cardinality(Call)
         /\ Cardinality(Call) \in Nat
BY TenantAssumption, FS_Subset, FS_CardinalityType

\* A call that moves between two statements is one less in the one and one more in the other.
LEMMA CallMoves ==
  ASSUME pc \in [Call -> BillingStatement], NEW c \in Call, NEW from, NEW to \in BillingStatement,
         Goes(c, from, to), from # to
  PROVE  /\ pc' \in [Call -> BillingStatement] /\ pc[c] = from /\ pc'[c] = to
         /\ \A d \in Call \ {c} : pc'[d] = pc[d]
         /\ InStatement(from)' = InStatement(from) \ {c} /\ c \in InStatement(from)
         /\ InStatement(to)' = InStatement(to) \cup {c} /\ c \notin InStatement(to)
         /\ \A s : s \notin {from, to} => InStatement(s)' = InStatement(s)
<1>1. /\ pc' \in [Call -> BillingStatement] /\ pc[c] = from /\ pc'[c] = to
      /\ \A d \in Call \ {c} : pc'[d] = pc[d]
  BY DEF Goes
<1>2. /\ InStatement(from)' = InStatement(from) \ {c} /\ c \in InStatement(from)
      /\ InStatement(to)' = InStatement(to) \cup {c} /\ c \notin InStatement(to)
  BY <1>1 DEF InStatement
<1>3. ASSUME NEW s, s \notin {from, to} PROVE InStatement(s)' = InStatement(s)
  BY <1>1, <1>3 DEF InStatement
<1> QED BY <1>1, <1>2, <1>3

BillingTyped ==
  /\ pc \in [Call -> BillingStatement]
  /\ claimed \in Nat /\ customers \in Nat /\ customer \in Nat /\ faults \in Nat
  /\ inHand \in [Call -> Nat]
  /\ sent \in Seq(Event)
  /\ acked \subseteq DOMAIN sent
  /\ plan \in Plan /\ subscribed \in Plan
  /\ newest \in Nat /\ late \in BOOLEAN

\* A claim that is past its check is as good as made.
ClaimsInv == claimed + Cardinality(InStatement("credit")) <= Cardinality(Call)

\* While no customer is stored, each that was created is in the hands of a checkout or was lost to
\* a failure; and a checkout that is past its look creates one.
CustomersInv ==
  /\ customer = 0 => customers <= Cardinality(InStatement("set_customer")) + faults
  /\ customers + Cardinality(InStatement("create_customer")) <= Cardinality(Call) + faults
  /\ \A c \in InStatement("set_customer") : inHand[c] > 0

\* The events that change the plan.
Changes(n) == PlanChangeFor(sent[n]) # None

\* Those change it to what is paid for, if no later one does; and they name the organisation.
EventsInv ==
  /\ \A n \in DOMAIN sent : Changes(n) => sent[n].org
  /\ \A n \in DOMAIN sent :
       (Changes(n) /\ \A m \in DOMAIN sent : Changes(m) => m <= n) => PlanChangeFor(sent[n]) = subscribed
  /\ \A c \in Call : pc[c] \in Webhook => inHand[c] \in DOMAIN sent
  /\ \A c \in Call : pc[c] \in {"update_plan", "respond"} => Changes(inHand[c])

\* The newest event that set the plan is no older than what is acknowledged, or about to be; and
\* unless an older one came later the plan is what it says.
FollowInv ==
  /\ \A n \in acked : Changes(n) => n <= newest
  /\ \A c \in Call : pc[c] = "respond" => inHand[c] <= newest
  /\ newest # 0 => newest \in DOMAIN sent /\ Changes(newest)
  /\ newest # 0 => late \/ plan = PlanChangeFor(sent[newest])
  /\ (\A n \in DOMAIN sent : ~Changes(n)) => plan = subscribed

BillingInv ==
  BillingTyped /\ ClaimsInv /\ CustomersInv /\ EventsInv /\ FollowInv

LEMMA BillingBegins ==
  ASSUME TenantInit, BillingInit
  PROVE  BillingInv
<1> USE DEF TenantInit, BillingInit
<1>1. BillingTyped
  <2>1. /\ pc \in [Call -> BillingStatement] /\ inHand \in [Call -> Nat]
        /\ claimed \in Nat /\ customers \in Nat /\ customer \in Nat /\ faults \in Nat
        /\ newest \in Nat /\ late \in BOOLEAN
    BY DEF BillingStatement
  <2>2. sent \in Seq(Event) /\ acked \subseteq DOMAIN sent /\ plan \in Plan /\ subscribed \in Plan
    OBVIOUS
  <2> QED BY <2>1, <2>2 DEF BillingTyped
<1>2. \A s : s # "idle" => InStatement(s) = {}
  BY DEF InStatement
<1>3. InStatement("credit") = {} /\ InStatement("set_customer") = {} /\ InStatement("create_customer") = {}
  BY <1>2
<1>4. Cardinality({}) = 0 /\ Cardinality(Call) \in Nat
  BY TenantAssumption, FS_EmptySet, FS_CardinalityType
<1>5. ClaimsInv /\ CustomersInv
  <2>1. claimed = 0 /\ customers = 0 /\ faults = 0
    OBVIOUS
  <2>2. 0 + 0 <= Cardinality(Call) /\ 0 + 0 <= Cardinality(Call) + 0 /\ 0 <= 0 + 0
    BY <1>4
  <2> QED BY <1>3, <1>4, <2>1, <2>2 DEF ClaimsInv, CustomersInv
<1>6. EventsInv
  BY DEF EventsInv, Webhook
<1>7. FollowInv
  BY DEF FollowInv
<1> QED BY <1>1, <1>5, <1>6, <1>7 DEF BillingInv

LEMMA ClaimsKept ==
  ASSUME BillingInv, claimed' = claimed, InStatement("credit")' \subseteq InStatement("credit")
  PROVE  ClaimsInv'
<1> DEFINE S == InStatement("credit")
<1>1. PICK T : T = S'
  OBVIOUS
<1>2. S \in SUBSET Call /\ T \in SUBSET S
  BY <1>1 DEF InStatement
<1> HIDE DEF S
<1>3. /\ IsFiniteSet(S) /\ Cardinality(S) \in Nat /\ Cardinality(Call) \in Nat
  BY <1>2, CallSets
<1>4. Cardinality(T) \in Nat /\ Cardinality(T) <= Cardinality(S)
  BY <1>2, <1>3, FS_Subset, FS_CardinalityType
<1>5. claimed + Cardinality(S) <= Cardinality(Call) /\ claimed \in Nat
  BY DEF BillingInv, ClaimsInv, BillingTyped, S
<1>6. claimed + Cardinality(T) <= Cardinality(Call)
  BY <1>3, <1>4, <1>5
<1> QED BY <1>1, <1>6 DEF ClaimsInv, S

LEMMA CustomersKept ==
  ASSUME BillingInv, UNCHANGED <<customerVars, faults>>,
         InStatement("set_customer")' = InStatement("set_customer"),
         InStatement("create_customer")' = InStatement("create_customer"),
         \A c \in InStatement("set_customer") : inHand'[c] = inHand[c]
  PROVE  CustomersInv'
<1>1. customer' = customer /\ customers' = customers
  BY DEF customerVars
<1> QED BY <1>1 DEF BillingInv, CustomersInv

LEMMA EventsKept ==
  ASSUME BillingInv, UNCHANGED <<subscribed, sent>>,
         \A d \in Call : pc'[d] \in Webhook =>
           pc[d] \in Webhook /\ inHand'[d] = inHand[d] /\ (pc'[d] # "find_org_of_event" => pc'[d] = pc[d])
  PROVE  EventsInv'
<1>1. \A n : Changes(n)' = Changes(n)
  BY DEF Changes
<1>2. /\ \A n \in DOMAIN sent' : Changes(n)' => sent'[n].org
      /\ \A n \in DOMAIN sent' :
           (Changes(n)' /\ \A m \in DOMAIN sent' : Changes(m)' => m <= n)
             => PlanChangeFor(sent'[n]) = subscribed'
  BY <1>1 DEF BillingInv, EventsInv
<1>3. \A d \in Call : pc'[d] \in Webhook => inHand'[d] \in DOMAIN sent'
  BY DEF BillingInv, EventsInv
<1>4. \A d \in Call : pc'[d] \in {"update_plan", "respond"} => Changes(inHand[d]) /\ inHand'[d] = inHand[d]
  BY DEF BillingInv, EventsInv, Webhook
<1> QED BY <1>1, <1>2, <1>3, <1>4 DEF EventsInv, Webhook

LEMMA FollowKept ==
  ASSUME BillingInv, UNCHANGED <<subscribed, sent, acked, plan, newest, late>>,
         \A d \in Call : pc'[d] \in Webhook =>
           pc[d] \in Webhook /\ inHand'[d] = inHand[d] /\ (pc'[d] # "find_org_of_event" => pc'[d] = pc[d])
  PROVE  FollowInv'
<1>1. /\ \A n : Changes(n)' = Changes(n)
      /\ \A n : PlanChangeFor(sent[n])' = PlanChangeFor(sent[n])
  BY DEF Changes, PlanChangeFor
<1>2. \A d \in Call : pc'[d] = "respond" => pc[d] = "respond" /\ inHand'[d] = inHand[d]
  BY DEF Webhook
<1> QED BY <1>1, <1>2 DEF BillingInv, FollowInv

LEMMA AnswersMoves ==
  ASSUME BillingTyped, NEW c \in Call, NEW from, from # "idle", Answers(c, from)
  PROVE  /\ pc' \in [Call -> BillingStatement] /\ pc[c] = from /\ pc'[c] = "idle"
         /\ \A d \in Call \ {c} : pc'[d] = pc[d] /\ inHand'[d] = inHand[d]
         /\ inHand' \in [Call -> Nat]
         /\ InStatement(from)' = InStatement(from) \ {c} /\ c \in InStatement(from)
         /\ \A s : s \notin {from, "idle"} => InStatement(s)' = InStatement(s)
<1>1. "idle" \in BillingStatement /\ Goes(c, from, "idle") /\ pc \in [Call -> BillingStatement]
  BY DEF BillingStatement, Answers, BillingTyped
<1>2. inHand' = [inHand EXCEPT ![c] = 0] /\ inHand \in [Call -> Nat]
  BY DEF Answers, BillingTyped
<1> QED BY <1>1, <1>2, CallMoves

LEMMA ProceedsMoves ==
  ASSUME BillingTyped, NEW c \in Call, NEW from, NEW to \in BillingStatement, from # to,
         Proceeds(c, from, to)
  PROVE  /\ pc' \in [Call -> BillingStatement] /\ pc[c] = from /\ pc'[c] = to /\ inHand' = inHand
         /\ \A d \in Call \ {c} : pc'[d] = pc[d]
         /\ InStatement(from)' = InStatement(from) \ {c} /\ c \in InStatement(from)
         /\ InStatement(to)' = InStatement(to) \cup {c} /\ c \notin InStatement(to)
         /\ \A s : s \notin {from, to} => InStatement(s)' = InStatement(s)
<1>1. Goes(c, from, to) /\ pc \in [Call -> BillingStatement] /\ inHand' = inHand
  BY DEF Proceeds, BillingTyped
<1> QED BY <1>1, CallMoves

\* A call of the organisation leaves Stripe's events alone.
LEMMA NoWebhook ==
  ASSUME BillingInv, NEW c \in Call, \A d \in Call \ {c} : pc'[d] = pc[d] /\ inHand'[d] = inHand[d],
         pc'[c] \notin Webhook, UNCHANGED <<subscribed, sent>>
  PROVE  EventsInv' /\ (UNCHANGED <<acked, plan, newest, late>> => FollowInv')
BY EventsKept, FollowKept

\* The steps of a claim or a checkout that count nothing.
LEMMA QuietInv ==
  ASSUME BillingInv, NEW c \in Call, pc' \in [Call -> BillingStatement], inHand' \in [Call -> Nat],
         \A d \in Call \ {c} : pc'[d] = pc[d] /\ inHand'[d] = inHand[d],
         pc'[c] \notin Webhook, UNCHANGED <<faults, plan, customerVars, stripeVars>>,
         claimed' = claimed,
         {pc[c], pc'[c]} \cap {"credit", "set_customer", "create_customer"} = {}
  PROVE  BillingInv'
<1>1. UNCHANGED <<customer, customers, subscribed, sent, acked, newest, late>>
  BY DEF customerVars, stripeVars
<1>2. BillingTyped'
  BY <1>1 DEF BillingInv, BillingTyped
<1>3. \A s \in {"credit", "set_customer", "create_customer"} : InStatement(s)' = InStatement(s)
  BY DEF InStatement
<1>4. ClaimsInv'
  BY <1>3, ClaimsKept
<1>5. CustomersInv'
  <2>1. \A d \in InStatement("set_customer") : inHand'[d] = inHand[d]
    BY DEF InStatement
  <2> QED BY <1>3, <2>1, CustomersKept
<1>6. EventsInv' /\ FollowInv'
  BY <1>1, NoWebhook
<1> QED BY <1>2, <1>4, <1>5, <1>6 DEF BillingInv

LEMMA QuietCalls ==
  ASSUME BillingInv, NEW c \in Call,
         \/ ClaimReferral(c) \/ CreateCheckout(c) \/ CreditReferrer(c) \/ CheckoutSession(c)
         \/ HasClaimedReferral(c) /\ claimed > 0
         \/ FindOrg(c) /\ customer # 0
  PROVE  BillingInv'
<1> USE DEF BillingStatement, Webhook
<1>0. BillingTyped
  BY DEF BillingInv
<1>1. ASSUME NEW to \in {"check_claim", "find_org"}, Asks(c, to)
      PROVE  BillingInv'
  <2>1. /\ pc' \in [Call -> BillingStatement] /\ pc[c] = "idle" /\ pc'[c] = to /\ inHand' = inHand
        /\ \A d \in Call \ {c} : pc'[d] = pc[d]
    BY <1>0, <1>1, ProceedsMoves DEF Asks
  <2>2. UNCHANGED <<faults, plan, customerVars, stripeVars>> /\ claimed' = claimed /\ inHand' \in [Call -> Nat]
    BY <1>0, <1>1, <2>1 DEF Asks, creditVars, BillingTyped
  <2> QED BY <2>1, <2>2, QuietInv
<1>2. ASSUME NEW from \in {"check_claim", "reward", "checkout"}, Answers(c, from),
             UNCHANGED <<faults, plan, customerVars, stripeVars>>, claimed' = claimed
      PROVE  BillingInv'
  <2>1. /\ pc' \in [Call -> BillingStatement] /\ pc[c] = from /\ pc'[c] = "idle"
        /\ \A d \in Call \ {c} : pc'[d] = pc[d] /\ inHand'[d] = inHand[d]
        /\ inHand' \in [Call -> Nat]
    BY <1>0, <1>2, AnswersMoves
  <2> QED BY <1>2, <2>1, QuietInv
<1>3. ASSUME FindOrg(c), customer # 0
      PROVE  BillingInv'
  <2>1. /\ Goes(c, "find_org", "checkout") /\ inHand' = [inHand EXCEPT ![c] = customer]
        /\ UNCHANGED <<faults, plan, customerVars, stripeVars>> /\ claimed' = claimed
    BY <1>3 DEF FindOrg, creditVars
  <2>2. pc' \in [Call -> BillingStatement] /\ pc[c] = "find_org" /\ pc'[c] = "checkout"
        /\ \A d \in Call \ {c} : pc'[d] = pc[d]
    BY <1>0, <2>1, CallMoves DEF BillingTyped
  <2>3. inHand' \in [Call -> Nat] /\ \A d \in Call \ {c} : inHand'[d] = inHand[d]
    BY <1>0, <2>1 DEF BillingTyped
  <2> QED BY <2>1, <2>2, <2>3, QuietInv
<1> QED BY <1>1, <1>2, <1>3
        DEF ClaimReferral, CreateCheckout, CreditReferrer, CheckoutSession, HasClaimedReferral, creditVars

\* What a claim or a checkout that counts leaves as it was.
LEMMA CountingInv ==
  ASSUME BillingInv, NEW c \in Call, pc' \in [Call -> BillingStatement], inHand' \in [Call -> Nat],
         \A d \in Call \ {c} : pc'[d] = pc[d] /\ inHand'[d] = inHand[d],
         pc'[c] \notin Webhook, UNCHANGED <<faults, plan, stripeVars>>,
         claimed' \in Nat, customer' \in Nat, customers' \in Nat, ClaimsInv', CustomersInv'
  PROVE  BillingInv'
<1>1. UNCHANGED <<subscribed, sent, acked, newest, late>>
  BY DEF stripeVars
<1>2. BillingTyped'
  BY <1>1 DEF BillingInv, BillingTyped
<1>3. EventsInv' /\ FollowInv'
  BY <1>1, NoWebhook
<1> QED BY <1>2, <1>3 DEF BillingInv

\* As long as nothing is claimed, only the claims under way count.
LEMMA HasClaimedInv ==
  ASSUME BillingInv, NEW c \in Call, HasClaimedReferral(c), ~(claimed > 0)
  PROVE  BillingInv'
<1> USE DEF BillingStatement, Webhook
<1>1. /\ Proceeds(c, "check_claim", "credit") /\ claimed' = claimed
      /\ UNCHANGED <<faults, plan, customerVars, stripeVars>> /\ BillingTyped
  BY DEF HasClaimedReferral, creditVars, BillingInv
<1>2. /\ pc' \in [Call -> BillingStatement] /\ pc'[c] = "credit" /\ inHand' = inHand
      /\ \A d \in Call \ {c} : pc'[d] = pc[d]
      /\ \A s : s \notin {"check_claim", "credit"} => InStatement(s)' = InStatement(s)
  BY <1>1, ProceedsMoves
<1>3. ClaimsInv'
  <2>1. PICK T : T = InStatement("credit")'
    OBVIOUS
  <2>2. T \in SUBSET Call
    BY <2>1 DEF InStatement
  <2>3. Cardinality(T) \in Nat /\ Cardinality(T) <= Cardinality(Call)
    BY <2>2, CallSets
  <2>4. claimed = 0
    BY <1>1 DEF BillingTyped
  <2>5. 0 + Cardinality(T) <= Cardinality(Call)
    BY <2>3
  <2> QED BY <1>1, <2>1, <2>4, <2>5 DEF ClaimsInv
<1>4. CustomersInv'
  <2>1. /\ InStatement("set_customer")' = InStatement("set_customer")
        /\ InStatement("create_customer")' = InStatement("create_customer")
    BY <1>2
  <2> QED BY <1>1, <1>2, <2>1, CustomersKept
<1>5. UNCHANGED <<customer, customers>> /\ inHand' \in [Call -> Nat]
  BY <1>1, <1>2 DEF customerVars, BillingTyped
<1> QED BY <1>1, <1>2, <1>3, <1>4, <1>5, CountingInv DEF BillingTyped

LEMMA CreditReferredInv ==
  ASSUME BillingInv, NEW c \in Call, CreditReferred(c)
  PROVE  BillingInv'
<1> USE DEF BillingStatement, Webhook
<1>1. /\ Proceeds(c, "credit", "reward") /\ claimed' = claimed + 1 /\ claimed \in Nat
      /\ UNCHANGED <<faults, plan, customerVars, stripeVars>> /\ BillingTyped
  BY DEF CreditReferred, BillingInv, BillingTyped
<1>2. /\ pc' \in [Call -> BillingStatement] /\ pc'[c] = "reward" /\ inHand' = inHand
      /\ \A d \in Call \ {c} : pc'[d] = pc[d]
      /\ InStatement("credit")' = InStatement("credit") \ {c} /\ c \in InStatement("credit")
      /\ \A s : s \notin {"credit", "reward"} => InStatement(s)' = InStatement(s)
  BY <1>1, ProceedsMoves
<1>3. ClaimsInv'
  <2>1. PICK T : T = InStatement("credit")
    OBVIOUS
  <2>2. T \in SUBSET Call /\ c \in T
    BY <1>2, <2>1 DEF InStatement
  <2>3. IsFiniteSet(T) /\ Cardinality(T) \in Nat /\ Cardinality(Call) \in Nat
    BY <2>2, CallSets
  <2>4. Cardinality(T \ {c}) = Cardinality(T) - 1
    BY <2>2, <2>3, FS_RemoveElement
  <2>5. claimed + Cardinality(T) <= Cardinality(Call)
    BY <2>1 DEF BillingInv, ClaimsInv
  <2>6. (claimed + 1) + (Cardinality(T) - 1) <= Cardinality(Call)
    BY <1>1, <2>3, <2>5
  <2> QED BY <1>1, <1>2, <2>1, <2>4, <2>6 DEF ClaimsInv
<1>4. CustomersInv'
  <2>1. /\ InStatement("set_customer")' = InStatement("set_customer")
        /\ InStatement("create_customer")' = InStatement("create_customer")
    BY <1>2
  <2> QED BY <1>1, <1>2, <2>1, CustomersKept
<1>5. UNCHANGED <<customer, customers>> /\ inHand' \in [Call -> Nat] /\ claimed' \in Nat
  BY <1>1, <1>2 DEF customerVars, BillingTyped
<1> QED BY <1>1, <1>2, <1>3, <1>4, <1>5, CountingInv DEF BillingTyped

\* A checkout that finds no customer goes on to create one, while all that are not stored are in
\* the hands of others or lost.
LEMMA FindOrgInv ==
  ASSUME BillingInv, NEW c \in Call, FindOrg(c), customer = 0
  PROVE  BillingInv'
<1> USE DEF BillingStatement, Webhook
<1>1. /\ Proceeds(c, "find_org", "create_customer") /\ claimed' = claimed
      /\ UNCHANGED <<faults, plan, customerVars, stripeVars>> /\ BillingTyped
  BY DEF FindOrg, creditVars, BillingInv
<1>2. /\ pc' \in [Call -> BillingStatement] /\ pc'[c] = "create_customer" /\ inHand' = inHand
      /\ \A d \in Call \ {c} : pc'[d] = pc[d]
      /\ \A s : s \notin {"find_org", "create_customer"} => InStatement(s)' = InStatement(s)
  BY <1>1, ProceedsMoves
<1>3. ClaimsInv'
  <2>1. InStatement("credit")' = InStatement("credit")
    BY <1>2
  <2> QED BY <1>1, <2>1, ClaimsKept
<1>4. UNCHANGED <<customer, customers>> /\ inHand' \in [Call -> Nat]
  BY <1>1, <1>2 DEF customerVars, BillingTyped
<1>5. CustomersInv'
  <2>1. PICK S, T : S = InStatement("set_customer") /\ T = InStatement("create_customer")'
    OBVIOUS
  <2>2. InStatement("set_customer")' = S
    BY <1>2, <2>1
  <2>3. S \in SUBSET Call /\ T \in SUBSET Call /\ S \cap T = {} /\ S \cup T \in SUBSET Call
    <3>1. InStatement("set_customer")' \cap InStatement("create_customer")' = {}
      BY DEF InStatement
    <3> QED BY <2>1, <2>2, <3>1 DEF InStatement
  <2>4. /\ IsFiniteSet(S) /\ IsFiniteSet(T) /\ Cardinality(S) \in Nat /\ Cardinality(T) \in Nat
        /\ Cardinality(S \cup T) <= Cardinality(Call) /\ Cardinality(Call) \in Nat
    BY <2>3, CallSets
  <2>5. Cardinality(S \cup T) = Cardinality(S) + Cardinality(T)
    <3>1. Cardinality(S \cup T) = Cardinality(S) + Cardinality(T) - Cardinality(S \cap T)
      BY <2>4, FS_Union
    <3>2. Cardinality(S \cap T) = 0
      BY <2>3, FS_EmptySet
    <3> QED BY <2>4, <3>1, <3>2
  <2>6. customers \in Nat /\ faults \in Nat /\ customers <= Cardinality(S) + faults
    BY <1>1, <2>1 DEF BillingInv, BillingTyped, CustomersInv
  <2>7. customers + Cardinality(T) <= Cardinality(Call) + faults
    BY <2>4, <2>5, <2>6
  <2>8. \A d \in S : inHand'[d] > 0
    BY <1>2, <2>1 DEF BillingInv, CustomersInv
  <2> QED BY <1>1, <1>4, <2>1, <2>2, <2>6, <2>7, <2>8 DEF CustomersInv
<1> QED BY <1>1, <1>2, <1>3, <1>4, <1>5, CountingInv DEF BillingTyped

LEMMA CreateCustomerInv ==
  ASSUME BillingInv, NEW c \in Call, CreateCustomer(c)
  PROVE  BillingInv'
<1> USE DEF BillingStatement, Webhook
<1>1. /\ Goes(c, "create_customer", "set_customer") /\ claimed' = claimed /\ customer' = customer
      /\ customers' = customers + 1 /\ inHand' = [inHand EXCEPT ![c] = customers + 1]
      /\ UNCHANGED <<faults, plan, stripeVars>> /\ BillingTyped
  BY DEF CreateCustomer, creditVars, BillingInv
<1>2. /\ pc' \in [Call -> BillingStatement] /\ pc'[c] = "set_customer"
      /\ \A d \in Call \ {c} : pc'[d] = pc[d]
      /\ InStatement("create_customer")' = InStatement("create_customer") \ {c}
      /\ c \in InStatement("create_customer")
      /\ InStatement("set_customer")' = InStatement("set_customer") \cup {c}
      /\ c \notin InStatement("set_customer")
      /\ \A s : s \notin {"create_customer", "set_customer"} => InStatement(s)' = InStatement(s)
  BY <1>1, CallMoves DEF BillingTyped
<1>3. ClaimsInv'
  <2>1. InStatement("credit")' = InStatement("credit")
    BY <1>2
  <2> QED BY <1>1, <2>1, ClaimsKept
<1>4. /\ customers \in Nat /\ faults \in Nat /\ customers + 1 \in Nat
      /\ inHand' \in [Call -> Nat] /\ inHand'[c] = customers + 1
      /\ \A d \in Call \ {c} : inHand'[d] = inHand[d]
  BY <1>1 DEF BillingTyped
<1>5. CustomersInv'
  <2>1. PICK S, T : S = InStatement("set_customer") /\ T = InStatement("create_customer")
    OBVIOUS
  <2>2. S \in SUBSET Call /\ T \in SUBSET Call /\ c \in T /\ c \notin S
    BY <1>2, <2>1 DEF InStatement
  <2>3. /\ IsFiniteSet(S) /\ IsFiniteSet(T) /\ Cardinality(S) \in Nat /\ Cardinality(T) \in Nat
        /\ Cardinality(Call) \in Nat
    BY <2>2, CallSets
  <2>4. Cardinality(S \cup {c}) = Cardinality(S) + 1 /\ Cardinality(T \ {c}) = Cardinality(T) - 1
    BY <2>2, <2>3, FS_AddElement, FS_RemoveElement
  <2>5. /\ customer = 0 => customers <= Cardinality(S) + faults
        /\ customers + Cardinality(T) <= Cardinality(Call) + faults
        /\ \A d \in S : inHand[d] > 0
    BY <2>1 DEF BillingInv, CustomersInv
  <2>6. /\ customer = 0 => customers + 1 <= (Cardinality(S) + 1) + faults
        /\ (customers + 1) + (Cardinality(T) - 1) <= Cardinality(Call) + faults
    BY <1>4, <2>3, <2>5
  <2>7. \A d \in S \cup {c} : inHand'[d] > 0
    <3>1. inHand'[c] > 0
      BY <1>4
    <3> QED BY <1>4, <2>2, <2>5, <3>1
  <2> QED BY <1>1, <1>2, <2>1, <2>4, <2>6, <2>7 DEF CustomersInv
<1> QED BY <1>1, <1>2, <1>3, <1>4, <1>5, CountingInv DEF BillingTyped

LEMMA SetCustomerInv ==
  ASSUME BillingInv, NEW c \in Call, SetStripeCustomerId(c)
  PROVE  BillingInv'
<1> USE DEF BillingStatement, Webhook
<1>1. /\ Proceeds(c, "set_customer", "checkout") /\ claimed' = claimed
      /\ customers' = customers /\ customer' = inHand[c]
      /\ UNCHANGED <<faults, plan, stripeVars>> /\ BillingTyped
  BY DEF SetStripeCustomerId, creditVars, BillingInv
<1>2. /\ pc' \in [Call -> BillingStatement] /\ pc'[c] = "checkout" /\ inHand' = inHand
      /\ \A d \in Call \ {c} : pc'[d] = pc[d]
      /\ InStatement("set_customer")' = InStatement("set_customer") \ {c}
      /\ c \in InStatement("set_customer")
      /\ \A s : s \notin {"set_customer", "checkout"} => InStatement(s)' = InStatement(s)
  BY <1>1, ProceedsMoves
<1>3. ClaimsInv'
  <2>1. InStatement("credit")' = InStatement("credit")
    BY <1>2
  <2> QED BY <1>1, <2>1, ClaimsKept
<1>4. CustomersInv'
  <2>1. customer' # 0
    BY <1>1, <1>2 DEF BillingInv, CustomersInv
  <2>2. InStatement("create_customer")' = InStatement("create_customer")
    BY <1>2
  <2> QED BY <1>1, <1>2, <2>1, <2>2 DEF BillingInv, CustomersInv
<1>5. customer' \in Nat /\ inHand' \in [Call -> Nat]
  BY <1>1, <1>2 DEF BillingTyped
<1> QED BY <1>1, <1>2, <1>3, <1>4, <1>5, CountingInv DEF BillingTyped

-----------------------------------------------------------------------------
(* Stripe and its webhook                                                  *)

\* What is counted is no business of a webhook's.
LEMMA WebhookCounts ==
  ASSUME BillingInv, UNCHANGED <<faults, customerVars, creditVars>>,
         \A d \in Call : \/ pc'[d] = pc[d] /\ inHand'[d] = inHand[d]
                         \/ {pc[d], pc'[d]} \subseteq Webhook \cup {"idle"}
  PROVE  ClaimsInv' /\ CustomersInv' /\ claimed' \in Nat /\ customer' \in Nat /\ customers' \in Nat
<1>1. \A s \in {"credit", "set_customer", "create_customer"} : InStatement(s)' = InStatement(s)
  BY DEF InStatement, Webhook
<1>2. claimed' = claimed /\ customer' = customer /\ customers' = customers
  BY DEF creditVars, customerVars
<1>3. ClaimsInv'
  BY <1>1, <1>2, ClaimsKept
<1>4. CustomersInv'
  <2>1. \A d \in InStatement("set_customer") : inHand'[d] = inHand[d]
    BY DEF InStatement, Webhook
  <2> QED BY <1>1, <2>1, CustomersKept
<1> QED BY <1>2, <1>3, <1>4 DEF BillingInv, BillingTyped

LEMMA Appended ==
  ASSUME NEW s \in Seq(Event), NEW e \in Event
  PROVE  /\ Append(s, e) \in Seq(Event) /\ Len(s) \in Nat
         /\ DOMAIN s = 1 .. Len(s) /\ DOMAIN Append(s, e) = 1 .. Len(s) + 1
         /\ \A n \in DOMAIN s : Append(s, e)[n] = s[n]
         /\ Append(s, e)[Len(s) + 1] = e
OBVIOUS

\* An event says the same whenever it is read.
LEMMA NextChanges ==
  ASSUME NEW n
  PROVE  /\ Changes(n) <=> PlanChangeFor(sent[n]) # None
         /\ Changes(n)' <=> PlanChangeFor(sent'[n]) # None
         /\ PlanChangeFor(sent[n])' = PlanChangeFor(sent'[n])
BY DEF Changes, PlanChangeFor

\* A change is behind until it is delivered; what changes nothing leaves the plan that is paid for.
LEMMA SendInv ==
  ASSUME BillingInv, NEW e \in Event, Send(e), subscribed' \in Plan,
         PlanChangeFor(e) # None => e.org /\ subscribed' = PlanChangeFor(e),
         PlanChangeFor(e) = None => subscribed' = subscribed
  PROVE  BillingInv'
<1>0. PICK N : N = Len(sent) + 1
  OBVIOUS
<1>1. /\ sent' = Append(sent, e)
      /\ UNCHANGED <<pc, plan, faults, creditVars, customerVars, inHand, acked, newest, late>>
      /\ BillingTyped
  BY DEF Send, BillingInv
<1>2. /\ sent' \in Seq(Event) /\ Len(sent) \in Nat /\ N \in Nat
      /\ DOMAIN sent = 1 .. Len(sent) /\ DOMAIN sent' = 1 .. N
      /\ \A n \in DOMAIN sent : sent'[n] = sent[n]
      /\ sent'[N] = e
  BY <1>0, <1>1, Appended DEF BillingTyped
<1>3. /\ DOMAIN sent' = DOMAIN sent \cup {N} /\ N \notin DOMAIN sent
      /\ \A n \in DOMAIN sent : n \in Nat /\ n < N
  BY <1>0, <1>2
<1>4. ClaimsInv' /\ CustomersInv' /\ claimed' \in Nat /\ customer' \in Nat /\ customers' \in Nat
  BY <1>1, WebhookCounts
<1>5. BillingTyped'
  BY <1>1, <1>2, <1>3, <1>4 DEF BillingTyped
<1>6. /\ \A n \in DOMAIN sent : Changes(n)' <=> Changes(n)
      /\ Changes(N)' <=> PlanChangeFor(e) # None
  BY <1>2, NextChanges
<1>7. EventsInv'
  <2>1. \A n \in DOMAIN sent' : Changes(n)' => sent'[n].org
    BY <1>2, <1>3, <1>6 DEF BillingInv, EventsInv
  <2>2. ASSUME NEW n \in DOMAIN sent', Changes(n)', \A m \in DOMAIN sent' : Changes(m)' => m <= n
        PROVE  PlanChangeFor(sent'[n]) = subscribed'
    <3>1. CASE n = N
      BY <1>2, <1>6, <2>2, <3>1
    <3>2. CASE n # N
      <4>1. n \in DOMAIN sent /\ n < N /\ n \in Nat
        BY <1>3, <3>2
      <4>2. ~(N <= n)
        BY <1>2, <4>1
      <4>3. PlanChangeFor(e) = None
        BY <1>3, <1>6, <2>2, <4>2
      <4>4. Changes(n) /\ \A m \in DOMAIN sent : Changes(m) => m <= n
        BY <1>3, <1>6, <2>2, <4>1
      <4> QED BY <1>2, <4>1, <4>3, <4>4 DEF BillingInv, EventsInv
    <3> QED BY <3>1, <3>2
  <2>3. \A c \in Call : pc'[c] \in Webhook => inHand'[c] \in DOMAIN sent /\ inHand'[c] \in DOMAIN sent'
    BY <1>1, <1>3 DEF BillingInv, EventsInv
  <2>4. \A c \in Call : pc'[c] \in {"update_plan", "respond"} => PlanChangeFor(sent'[inHand'[c]]) # None
    <3> SUFFICES ASSUME NEW c \in Call, pc'[c] \in {"update_plan", "respond"}
                 PROVE  PlanChangeFor(sent'[inHand'[c]]) # None
      OBVIOUS
    <3>1. inHand'[c] \in DOMAIN sent /\ inHand'[c] = inHand[c] /\ Changes(inHand[c])
      BY <1>1, <2>3 DEF BillingInv, EventsInv, Webhook
    <3> QED BY <1>2, <3>1 DEF Changes
  <2>5. \A c \in Call : pc'[c] \in {"update_plan", "respond"} => Changes(inHand[c])'
    BY <2>4 DEF Changes, PlanChangeFor
  <2>6. \A n \in DOMAIN sent' :
          (Changes(n)' /\ \A m \in DOMAIN sent' : Changes(m)' => m <= n)
            => PlanChangeFor(sent[n])' = subscribed'
    BY <2>2, NextChanges
  <2> QED BY <2>1, <2>3, <2>5, <2>6 DEF EventsInv
<1>8. FollowInv'
  <2>1. \A n \in DOMAIN sent : PlanChangeFor(sent[n])' = PlanChangeFor(sent[n])
    BY <1>2 DEF PlanChangeFor
  <2>2. /\ \A n \in acked' : Changes(n)' => n <= newest'
        /\ \A d \in Call : pc'[d] = "respond" => inHand'[d] <= newest'
    BY <1>1, <1>6 DEF BillingInv, FollowInv, BillingTyped
  <2>3. newest' # 0 => newest' \in DOMAIN sent /\ Changes(newest)
    BY <1>1 DEF BillingInv, FollowInv
  <2>4. /\ newest' # 0 => newest' \in DOMAIN sent' /\ Changes(newest)'
        /\ newest' # 0 => late' \/ plan' = PlanChangeFor(sent[newest])'
    BY <1>1, <1>3, <1>6, <2>1, <2>3 DEF BillingInv, FollowInv
  <2>5. ASSUME \A n \in DOMAIN sent' : ~Changes(n)' PROVE plan' = subscribed'
    <3>1. PlanChangeFor(e) = None /\ \A n \in DOMAIN sent : ~Changes(n)
      BY <1>3, <1>6, <2>5
    <3> QED BY <1>1, <3>1 DEF BillingInv, FollowInv
  <2> QED BY <2>2, <2>4, <2>5 DEF FollowInv
<1> QED BY <1>4, <1>5, <1>7, <1>8 DEF BillingInv

LEMMA StripeInv ==
  ASSUME BillingInv, (\E p \in Plan : SubscriptionChanges(p)) \/ SubscriptionEnds \/ OtherEvent
  PROVE  BillingInv'
<1> USE BillingAssumption, TenantAssumption
<1>1. ASSUME NEW p \in Plan, SubscriptionChanges(p) PROVE BillingInv'
  <2> DEFINE e == [type |-> "customer.subscription.updated", plan |-> p, org |-> TRUE]
  <2>1. e \in Event /\ e.org /\ PlanChangeFor(e) = p /\ p # None
    BY DEF Event, EventType, PlanChangeFor
  <2>2. Send(e) /\ subscribed' = p
    BY <1>1 DEF SubscriptionChanges
  <2> HIDE DEF e
  <2> QED BY <2>1, <2>2, SendInv
<1>2. ASSUME SubscriptionEnds PROVE BillingInv'
  <2> DEFINE e == [type |-> "customer.subscription.deleted", plan |-> None, org |-> TRUE]
  <2>1. e \in Event /\ e.org /\ PlanChangeFor(e) = "free" /\ "free" # None /\ "free" \in Plan
    BY DEF Event, EventType, PlanChangeFor
  <2>2. Send(e) /\ subscribed' = "free"
    BY <1>2 DEF SubscriptionEnds
  <2> HIDE DEF e
  <2> QED BY <2>1, <2>2, SendInv
<1>3. ASSUME OtherEvent PROVE BillingInv'
  <2>1. PICK type \in EventType \ {"customer.subscription.deleted"} :
          Send([type |-> type, plan |-> None, org |-> FALSE])
    BY <1>3 DEF OtherEvent
  <2> DEFINE e == [type |-> type, plan |-> None, org |-> FALSE]
  <2>2. e \in Event /\ PlanChangeFor(e) = None
    BY DEF Event, EventType, PlanChangeFor
  <2>3. Send(e) /\ subscribed' = subscribed /\ subscribed \in Plan
    BY <1>3, <2>1 DEF OtherEvent, BillingInv, BillingTyped
  <2> HIDE DEF e
  <2> QED BY <2>2, <2>3, SendInv
<1> QED BY <1>1, <1>2, <1>3

\* What a webhook's step leaves as it was.
LEMMA WebhookInv ==
  ASSUME BillingInv, NEW c \in Call, pc' \in [Call -> BillingStatement], inHand' \in [Call -> Nat],
         \A d \in Call \ {c} : pc'[d] = pc[d] /\ inHand'[d] = inHand[d],
         {pc[c], pc'[c]} \subseteq Webhook \cup {"idle"},
         UNCHANGED <<faults, creditVars, customerVars, sent, subscribed>>,
         plan' \in Plan, acked' \subseteq DOMAIN sent, newest' \in Nat, late' \in BOOLEAN, EventsInv', FollowInv'
  PROVE  BillingInv'
<1>1. ClaimsInv' /\ CustomersInv' /\ claimed' \in Nat /\ customer' \in Nat /\ customers' \in Nat
  BY WebhookCounts
<1>2. BillingTyped'
  BY <1>1 DEF BillingInv, BillingTyped
<1> QED BY <1>1, <1>2 DEF BillingInv

LEMMA DeliverInv ==
  ASSUME BillingInv, NEW c \in Call, NEW n \in EventNo, Deliver(c, n)
  PROVE  BillingInv'
<1>1. /\ n \in Awaiting /\ n \in DOMAIN sent /\ n \in Nat
      /\ Goes(c, "idle", "find_org_of_event") /\ inHand' = [inHand EXCEPT ![c] = n]
      /\ UNCHANGED <<plan, faults, creditVars, customerVars, sent, subscribed, acked, newest, late>>
      /\ BillingTyped
  BY DEF Deliver, BillingInv, stripeVars, Awaiting, EventNo
<1>2. /\ pc' \in [Call -> BillingStatement] /\ pc[c] = "idle" /\ pc'[c] = "find_org_of_event"
      /\ \A d \in Call \ {c} : pc'[d] = pc[d] /\ inHand'[d] = inHand[d]
      /\ inHand' \in [Call -> Nat] /\ inHand'[c] = n
  BY <1>1, CallMoves DEF BillingTyped, BillingStatement
<1>3. Awaiting' = Awaiting /\ \A m : Changes(m)' <=> Changes(m)
  BY <1>1, NextChanges DEF Awaiting
<1>4. EventsInv'
  <2>1. /\ \A m \in DOMAIN sent' : Changes(m)' => sent'[m].org
        /\ \A m \in DOMAIN sent' :
             (Changes(m)' /\ \A k \in DOMAIN sent' : Changes(k)' => k <= m)
               => PlanChangeFor(sent[m])' = subscribed'
    BY <1>1, <1>3, NextChanges DEF BillingInv, EventsInv
  <2>2. \A d \in Call : pc'[d] \in Webhook => inHand'[d] \in DOMAIN sent'
    BY <1>1, <1>2 DEF BillingInv, EventsInv
  <2>3. \A d \in Call : pc'[d] \in {"update_plan", "respond"} => PlanChangeFor(sent'[inHand'[d]]) # None
    BY <1>1, <1>2 DEF BillingInv, EventsInv, Changes
  <2>4. \A d \in Call : pc'[d] \in {"update_plan", "respond"} => Changes(inHand[d])'
    BY <2>3 DEF Changes, PlanChangeFor
  <2> QED BY <2>1, <2>2, <2>4 DEF EventsInv
<1>5. FollowInv'
  <2>1. \A d \in Call : pc'[d] = "respond" => pc[d] = "respond" /\ inHand'[d] = inHand[d]
    BY <1>2
  <2>2. \A m : PlanChangeFor(sent[m])' = PlanChangeFor(sent[m])
    BY <1>1, NextChanges
  <2> QED BY <1>1, <1>3, <2>1, <2>2 DEF BillingInv, FollowInv
<1>6. /\ {pc[c], pc'[c]} \subseteq Webhook \cup {"idle"} /\ plan' \in Plan /\ acked' \subseteq DOMAIN sent
      /\ newest' \in Nat /\ late' \in BOOLEAN
  BY <1>1, <1>2 DEF Webhook, BillingTyped
<1> QED BY <1>1, <1>2, <1>4, <1>5, <1>6, WebhookInv

\* An event that is acknowledged without a change changes nothing.
LEMMA FindOrgOfEventInv ==
  ASSUME BillingInv, NEW c \in Call, FindOrgOfEvent(c)
  PROVE  BillingInv'
<1> DEFINE n == inHand[c]
<1>1. /\ pc[c] = "find_org_of_event"
      /\ UNCHANGED <<plan, faults, creditVars, customerVars, sent, subscribed, newest, late>>
      /\ BillingTyped /\ n \in DOMAIN sent /\ (Changes(n) => sent[n].org)
  BY DEF FindOrgOfEvent, BillingInv, EventsInv, Webhook
<1>2. CASE Proceeds(c, "find_org_of_event", "update_plan") /\ UNCHANGED acked /\ PlanChangeFor(sent[n]) # None
  <2>1. /\ pc' \in [Call -> BillingStatement] /\ pc'[c] = "update_plan" /\ inHand' = inHand
        /\ \A d \in Call \ {c} : pc'[d] = pc[d]
    BY <1>1, <1>2, ProceedsMoves DEF BillingStatement
  <2>2. Awaiting' = Awaiting /\ \A m : Changes(m)' <=> Changes(m)
    BY <1>1, <1>2, NextChanges DEF Awaiting
  <2>3. EventsInv'
    <3>1. /\ \A m \in DOMAIN sent' : Changes(m)' => sent'[m].org
          /\ \A m \in DOMAIN sent' :
               (Changes(m)' /\ \A k \in DOMAIN sent' : Changes(k)' => k <= m)
                 => PlanChangeFor(sent[m])' = subscribed'
      BY <1>1, <2>2, NextChanges DEF BillingInv, EventsInv
    <3>2. \A d \in Call : pc'[d] \in Webhook => inHand'[d] \in DOMAIN sent'
      BY <1>1, <2>1 DEF BillingInv, EventsInv
    <3>3. \A d \in Call : pc'[d] \in {"update_plan", "respond"} => PlanChangeFor(sent'[inHand'[d]]) # None
      BY <1>1, <1>2, <2>1 DEF BillingInv, EventsInv, Changes
    <3>4. \A d \in Call : pc'[d] \in {"update_plan", "respond"} => Changes(inHand[d])'
      BY <3>3 DEF Changes, PlanChangeFor
    <3> QED BY <3>1, <3>2, <3>4 DEF EventsInv
  <2>4. FollowInv'
    <3>1. \A d \in Call : pc'[d] = "respond" => pc[d] = "respond" /\ inHand'[d] = inHand[d]
      BY <2>1
    <3>2. \A m : PlanChangeFor(sent[m])' = PlanChangeFor(sent[m])
      BY <1>1, NextChanges
    <3> QED BY <1>1, <1>2, <2>2, <3>1, <3>2 DEF BillingInv, FollowInv
  <2>5. /\ {pc[c], pc'[c]} \subseteq Webhook \cup {"idle"} /\ plan' \in Plan /\ acked' \subseteq DOMAIN sent
        /\ inHand' \in [Call -> Nat] /\ newest' \in Nat /\ late' \in BOOLEAN
    BY <1>1, <1>2, <2>1 DEF Webhook, BillingTyped
  <2> QED BY <1>1, <2>1, <2>3, <2>4, <2>5, WebhookInv
<1>3. CASE Answers(c, "find_org_of_event") /\ acked' = acked \cup {n} /\ ~Changes(n)
  <2>1. /\ pc' \in [Call -> BillingStatement] /\ pc'[c] = "idle" /\ inHand' \in [Call -> Nat]
        /\ \A d \in Call \ {c} : pc'[d] = pc[d] /\ inHand'[d] = inHand[d]
    BY <1>1, <1>3, AnswersMoves
  <2>2. /\ \A m : Changes(m)' <=> Changes(m)
        /\ Awaiting' \subseteq Awaiting /\ \A m \in Awaiting : Changes(m) => m \in Awaiting'
    BY <1>1, <1>3, NextChanges DEF Awaiting
  <2>3. EventsInv'
    BY <1>1, <2>1, EventsKept DEF Webhook
  <2>4. FollowInv'
    <3>1. \A d \in Call : pc'[d] = "respond" => pc[d] = "respond" /\ inHand'[d] = inHand[d]
      BY <2>1
    <3>2. \A m : PlanChangeFor(sent[m])' = PlanChangeFor(sent[m])
      BY <1>1, NextChanges
    <3>3. \A m \in acked' : Changes(m)' => m \in acked
      BY <1>3, <2>2
    <3> QED BY <1>1, <2>2, <3>1, <3>2, <3>3 DEF BillingInv, FollowInv
  <2>5. /\ {pc[c], pc'[c]} \subseteq Webhook \cup {"idle"} /\ plan' \in Plan /\ acked' \subseteq DOMAIN sent
        /\ newest' \in Nat /\ late' \in BOOLEAN
    BY <1>1, <1>3, <2>1 DEF Webhook, BillingTyped
  <2> QED BY <1>1, <2>1, <2>3, <2>4, <2>5, WebhookInv
<1>4. \/ Proceeds(c, "find_org_of_event", "update_plan") /\ UNCHANGED acked /\ PlanChangeFor(sent[n]) # None
      \/ Answers(c, "find_org_of_event") /\ acked' = acked \cup {n} /\ ~Changes(n)
  <2>1. sent[n] \in Event
    BY <1>1 DEF BillingTyped
  <2>2. sent[n].type \notin Handled => PlanChangeFor(sent[n]) = None
    BY <2>1 DEF Event, EventType, Handled, PlanChangeFor
  <2>3. ~OrgOf(sent[n]) => ~Changes(n)
    BY <1>1 DEF OrgOf
  <2> QED BY <2>2, <2>3 DEF FindOrgOfEvent, Acknowledge, Changes
<1> QED BY <1>2, <1>3, <1>4

LEMMA Later ==
  ASSUME NEW n \in Nat \ {0}, NEW m \in Nat
  PROVE  /\ (IF n > m THEN n ELSE m) \in Nat \ {0}
         /\ (IF n > m THEN n ELSE m) >= m /\ (IF n > m THEN n ELSE m) >= n
         /\ (IF n > m THEN n ELSE m) \in {m, n}
         /\ ~(n < m) => (IF n > m THEN n ELSE m) = n
OBVIOUS

\* The newest change sets the plan to what it says; an older one is late.
LEMMA UpdateOrgPlanInv ==
  ASSUME BillingInv, NEW c \in Call, UpdateOrgPlan(c)
  PROVE  BillingInv'
<1>0. PICK n : n = inHand[c]
  OBVIOUS
<1>1. /\ pc[c] = "update_plan" /\ plan' = PlanChangeFor(sent[n])
      /\ UNCHANGED <<faults, creditVars, customerVars, sent, subscribed, acked>>
      /\ newest' = (IF n > newest THEN n ELSE newest) /\ late' = (n < newest)
      /\ BillingTyped /\ n \in DOMAIN sent /\ Changes(n)
  BY <1>0 DEF UpdateOrgPlan, BillingInv, EventsInv, Webhook, stripeVars
<1>2. /\ pc' \in [Call -> BillingStatement] /\ pc'[c] = "respond" /\ inHand' = inHand
      /\ \A d \in Call \ {c} : pc'[d] = pc[d]
  BY <1>1, ProceedsMoves DEF BillingStatement, UpdateOrgPlan
<1>3. plan' \in Plan
  <2>1. sent[n] \in Event /\ PlanChangeFor(sent[n]) # None
    BY <1>1 DEF BillingTyped, Changes
  <2> QED BY <1>1, <2>1, BillingAssumption DEF Event, EventType, PlanChangeFor
<1>4. Awaiting' = Awaiting /\ \A m : Changes(m)' <=> Changes(m)
  BY <1>1, NextChanges DEF Awaiting
<1>5. EventsInv'
  <2>1. /\ \A m \in DOMAIN sent' : Changes(m)' => sent'[m].org
        /\ \A m \in DOMAIN sent' :
             (Changes(m)' /\ \A k \in DOMAIN sent' : Changes(k)' => k <= m)
               => PlanChangeFor(sent[m])' = subscribed'
    BY <1>1, <1>4, NextChanges DEF BillingInv, EventsInv
  <2>2. \A d \in Call : pc'[d] \in Webhook => inHand'[d] \in DOMAIN sent'
    BY <1>0, <1>1, <1>2 DEF BillingInv, EventsInv
  <2>3. \A d \in Call : pc'[d] \in {"update_plan", "respond"} => PlanChangeFor(sent'[inHand'[d]]) # None
    BY <1>0, <1>1, <1>2 DEF BillingInv, EventsInv, Changes
  <2>4. \A d \in Call : pc'[d] \in {"update_plan", "respond"} => Changes(inHand[d])'
    BY <2>3 DEF Changes, PlanChangeFor
  <2> QED BY <2>1, <2>2, <2>4 DEF EventsInv
<1>6. newest' \in Nat /\ late' \in BOOLEAN /\ newest' >= newest /\ newest' >= n /\ n # 0
      /\ (newest' = newest \/ newest' = n) /\ (newest' = n \/ late')
  <2>1. n \in Nat /\ n # 0 /\ newest \in Nat
    BY <1>1 DEF BillingTyped
  <2>2. n \in Nat \ {0}
    BY <2>1
  <2>3. late' \in BOOLEAN /\ (late' \/ ~(n < newest))
    <3>1. late' = (n < newest)
      BY <1>0 DEF UpdateOrgPlan
    <3>2. (n < newest) \in BOOLEAN
      OBVIOUS
    <3>3. late' \in BOOLEAN
      BY <3>1, <3>2, Zenon
    <3>4. late' \/ ~(n < newest)
      BY <3>1, Zenon
    <3> QED BY <3>3, <3>4
  <2> HIDE <1>1
  <2>4. newest' = (IF n > newest THEN n ELSE newest)
    BY <1>1
  <2>5. /\ newest' \in Nat \ {0} /\ newest' >= newest /\ newest' >= n
        /\ newest' \in {newest, n} /\ (~(n < newest) => newest' = n)
    BY <2>1, <2>2, <2>4, Later
  <2> QED BY <2>2, <2>3, <2>5
<1>8. FollowInv'
  <2>1. ASSUME NEW m \in acked', Changes(m)' PROVE m <= newest'
    <3>1. m \in acked /\ Changes(m) /\ m \in Nat /\ newest \in Nat
      BY <1>1, <1>4, <2>1 DEF BillingTyped
    <3>2. m <= newest
      BY <3>1 DEF BillingInv, FollowInv
    <3> QED BY <1>6, <3>1, <3>2
  <2>2. ASSUME NEW d \in Call, pc'[d] = "respond" PROVE inHand'[d] <= newest'
    <3>1. CASE d = c
      BY <1>0, <1>2, <1>6, <3>1
    <3>2. CASE d # c
      <4>1. inHand[d] <= newest /\ inHand[d] \in Nat /\ newest \in Nat
        BY <1>1, <1>2, <2>2, <3>2 DEF BillingInv, FollowInv, BillingTyped
      <4> QED BY <1>2, <1>6, <4>1
    <3> QED BY <3>1, <3>2
  <2>3. newest' \in DOMAIN sent' /\ Changes(newest)'
    <3>1. CASE newest' = n
      <4>1. newest' \in DOMAIN sent /\ PlanChangeFor(sent[newest']) # None
        BY <1>1, <3>1 DEF Changes
      <4> QED BY <1>1, <4>1 DEF Changes, PlanChangeFor
    <3>2. CASE newest' = newest /\ newest # n
      <4>1. newest \in DOMAIN sent /\ PlanChangeFor(sent[newest]) # None
        <5>1. newest # 0
          BY <1>1, <1>6, <3>2 DEF BillingTyped
        <5> QED BY <5>1 DEF BillingInv, FollowInv, Changes
      <4> QED BY <1>1, <3>2, <4>1 DEF Changes, PlanChangeFor
    <3> QED BY <1>6, <3>1, <3>2
  <2>4. late' \/ plan' = PlanChangeFor(sent[newest])'
    BY <1>1, <1>6 DEF PlanChangeFor
  <2>5. \E m \in DOMAIN sent' : Changes(m)'
    BY <1>1, <1>4
  <2> QED BY <2>1, <2>2, <2>3, <2>4, <2>5 DEF FollowInv
<1>7. {pc[c], pc'[c]} \subseteq Webhook \cup {"idle"} /\ acked' \subseteq DOMAIN sent /\ inHand' \in [Call -> Nat]
  BY <1>1, <1>2 DEF Webhook, BillingTyped
<1> QED BY <1>1, <1>2, <1>3, <1>5, <1>6, <1>7, <1>8, WebhookInv

LEMMA RespondInv ==
  ASSUME BillingInv, NEW c \in Call, Respond(c)
  PROVE  BillingInv'
<1>0. PICK n : n = inHand[c]
  OBVIOUS
<1>1. /\ pc[c] = "respond" /\ Answers(c, "respond") /\ acked' = acked \cup {n}
      /\ UNCHANGED <<plan, faults, creditVars, customerVars, sent, subscribed, newest, late>>
      /\ BillingTyped /\ n \in DOMAIN sent
  BY <1>0 DEF Respond, Acknowledge, Answers, Goes, BillingInv, EventsInv, Webhook
<1>2. /\ pc' \in [Call -> BillingStatement] /\ pc'[c] = "idle" /\ inHand' \in [Call -> Nat]
      /\ \A d \in Call \ {c} : pc'[d] = pc[d] /\ inHand'[d] = inHand[d]
  BY <1>1, AnswersMoves
<1>3. \A m : Changes(m)' <=> Changes(m)
  BY <1>1, NextChanges
<1>4. EventsInv'
  BY <1>1, <1>2, EventsKept DEF Webhook
<1>5. FollowInv'
  <2>1. \A d \in Call : pc'[d] = "respond" => pc[d] = "respond" /\ inHand'[d] = inHand[d]
    BY <1>2
  <2>2. \A m : PlanChangeFor(sent[m])' = PlanChangeFor(sent[m])
    BY <1>1, NextChanges
  <2>3. n <= newest
    BY <1>0, <1>1 DEF BillingInv, FollowInv
  <2> QED BY <1>1, <1>3, <2>1, <2>2, <2>3 DEF BillingInv, FollowInv
<1>6. /\ {pc[c], pc'[c]} \subseteq Webhook \cup {"idle"} /\ plan' \in Plan /\ acked' \subseteq DOMAIN sent
      /\ newest' \in Nat /\ late' \in BOOLEAN
  BY <1>1, <1>2 DEF Webhook, BillingTyped
<1> QED BY <1>1, <1>2, <1>4, <1>5, <1>6, WebhookInv

\* A call that fails: a customer that was created and not stored is one failure more.
LEMMA FailCallInv ==
  ASSUME BillingInv, NEW c \in Call, FailCall(c)
  PROVE  BillingInv'
<1>1. /\ pc[c] # "idle" /\ Answers(c, pc[c]) /\ faults' = faults + 1
      /\ UNCHANGED <<plan, claimed, customer, customers, sent, subscribed, acked, newest, late>>
      /\ BillingTyped
  BY DEF FailCall, Fault, BillingInv, creditVars, customerVars, stripeVars
<1>2. /\ pc' \in [Call -> BillingStatement] /\ pc'[c] = "idle" /\ inHand' \in [Call -> Nat]
      /\ \A d \in Call \ {c} : pc'[d] = pc[d] /\ inHand'[d] = inHand[d]
  BY <1>1, AnswersMoves
<1>3. faults \in Nat /\ faults' \in Nat
  BY <1>1 DEF BillingTyped
<1>4. \A s : s # "idle" => InStatement(s)' = InStatement(s) \ {c}
  BY <1>2 DEF InStatement
<1>5. ClaimsInv'
  BY <1>1, <1>4, ClaimsKept
<1>6. CustomersInv'
  <2>1. PICK S, T : S = InStatement("set_customer") /\ T = InStatement("create_customer")
    OBVIOUS
  <2>2. InStatement("set_customer")' = S \ {c} /\ InStatement("create_customer")' = T \ {c}
    BY <1>4, <2>1
  <2>3. /\ IsFiniteSet(S) /\ Cardinality(S) \in Nat /\ IsFiniteSet(T) /\ Cardinality(T) \in Nat
        /\ Cardinality(Call) \in Nat
    BY <2>1, CallSets DEF InStatement
  <2>4. PICK k, l \in Nat : /\ k = Cardinality(S \ {c}) /\ l = Cardinality(T \ {c})
                            /\ Cardinality(S) <= k + 1 /\ l <= Cardinality(T)
    <3>1. Cardinality(S \ {c}) = IF c \in S THEN Cardinality(S) - 1 ELSE Cardinality(S)
      BY <2>3, FS_RemoveElement
    <3>2. Cardinality(T \ {c}) = IF c \in T THEN Cardinality(T) - 1 ELSE Cardinality(T)
      BY <2>3, FS_RemoveElement
    <3>3. Cardinality(S \ {c}) \in Nat /\ Cardinality(T \ {c}) \in Nat
      <4>1. S \ {c} \in SUBSET Call /\ T \ {c} \in SUBSET Call
        BY <2>1 DEF InStatement
      <4> QED BY <4>1, CallSets
    <3> QED BY <2>3, <3>1, <3>2, <3>3
  <2>5. /\ customer = 0 => customers <= Cardinality(S) + faults
        /\ customers + Cardinality(T) <= Cardinality(Call) + faults /\ customers \in Nat
    BY <1>1, <2>1 DEF BillingInv, CustomersInv, BillingTyped
  <2>6. customer = 0 => customers <= k + (faults + 1)
    BY <1>3, <2>3, <2>4, <2>5
  <2>7. customers + l <= Cardinality(Call) + (faults + 1)
    BY <1>3, <2>3, <2>4, <2>5
  <2>8. \A d \in S \ {c} : inHand'[d] > 0
    BY <1>2, <2>1 DEF BillingInv, CustomersInv, InStatement
  <2> QED BY <1>1, <2>2, <2>4, <2>6, <2>7, <2>8 DEF CustomersInv
<1>7. EventsInv'
  BY <1>1, <1>2, EventsKept DEF Webhook
<1>8. FollowInv'
  BY <1>1, <1>2, FollowKept DEF Webhook
<1>9. BillingTyped'
  BY <1>1, <1>2, <1>3 DEF BillingTyped
<1> QED BY <1>5, <1>6, <1>7, <1>8, <1>9 DEF BillingInv

LEMMA BillingNextInv ==
  ASSUME BillingInv, ReferralsNext \/ SubscriptionNext
  PROVE  BillingInv'
<1>1. ASSUME NEW c \in Call,
             HasClaimedReferral(c) \/ FindOrg(c)
      PROVE  BillingInv'
  <2>1. claimed > 0 \/ ~(claimed > 0)
    OBVIOUS
  <2> QED BY <1>1, <2>1, QuietCalls, HasClaimedInv, FindOrgInv
<1> QED BY <1>1, QuietCalls, CreditReferredInv, CreateCustomerInv, SetCustomerInv, DeliverInv,
           FindOrgOfEventInv, UpdateOrgPlanInv, RespondInv, FailCallInv, StripeInv
        DEF ReferralsNext, SubscriptionNext

-----------------------------------------------------------------------------
(* The management API                                                      *)

\* What a behaviour does not follow stays as it began.
TenancyInv ==
  /\ faults \in Nat
  /\ task = "organisation" => OrgInv
  /\ task # "organisation" => \A p \in Person : left[p] = None
  /\ task = "accounts" => AccountsInv
  /\ task # "accounts" => user = None /\ ~enabled /\ \A l \in Try : redeemed[l] = 0
  /\ task \in {"referrals", "subscription"} => BillingInv
  /\ task \notin {"referrals", "subscription"} =>
       claimed = 0 /\ customers = 0 /\ plan = subscribed

LEMMA TenancyBegins ==
  ASSUME Init
  PROVE  TenancyInv
<1>1. TenantInit /\ OrgInit /\ AccountsInit /\ BillingInit
  BY DEF Init
<1>2. OrgInv /\ AccountsInv /\ BillingInv
  BY <1>1, OrgBegins, AccountsBegin, BillingBegins
<1>3. faults \in Nat /\ claimed = 0 /\ customers = 0 /\ plan = subscribed
  BY <1>1 DEF TenantInit, BillingInit
<1>4. user = None /\ ~enabled /\ \A l \in Try : redeemed[l] = 0
  BY <1>1 DEF AccountsInit
<1>5. \A p \in Person : left[p] = None
  BY <1>1 DEF OrgInit
<1> QED BY <1>2, <1>3, <1>4, <1>5 DEF TenancyInv

\* Failures are counted; only billing sets the plan.
Counted == UNCHANGED plan /\ (UNCHANGED faults \/ Fault)

LEMMA OrgCounts ==
  ASSUME OrgNext
  PROVE  Counted
<1>1. ASSUME NEW c \in Call, Request(c) PROVE Counted
  BY <1>1 DEF Counted, Request, RemoveMember, InviteMember, UpdateMemberRole, CreateKey, RevokeKey, Scim,
              Accept
<1>2. ASSUME NEW c \in Call, Perform(c) PROVE Counted
  BY <1>2 DEF Counted, Perform, CountOwners, ReadRole, Refuse, DeleteMember, RevokeKeysForUser, AddMember,
              CheckAssignee, InsertKey, FindKey, DeleteKey, RevokeOne
<1>3. ASSUME NEW c \in Call, RemovalFails(c) \/ Abandon(c) PROVE Counted
  BY <1>3 DEF Counted, RemovalFails, Abandon
<1>4. ASSUME NEW p \in Person, SetScimToken(p) PROVE Counted
  BY <1>4 DEF Counted, SetScimToken
<1> QED BY <1>1, <1>2, <1>3, <1>4 DEF OrgNext

LEMMA AccountsCount ==
  ASSUME AccountsNext
  PROVE  UNCHANGED plan
<1>1. ASSUME NEW c \in Call, Signup(c) \/ Login(c) \/ Invite(c) \/ Enroll(c) \/ Confirm(c) \/ Disable(c)
      PROVE  UNCHANGED plan
  BY <1>1 DEF Signup, Login, Invite, Enroll, Confirm, Disable, Begin
<1>2. ASSUME NEW c \in Call, NEW l \in Try, AcceptInvite(c, l) PROVE UNCHANGED plan
  BY <1>2 DEF AcceptInvite, Begin
<1>3. ASSUME NEW c \in Call,
             \/ CreateUser(c) \/ CreateOrg(c) \/ CreateSession(c)
             \/ FindInvited(c) \/ CreatePlaceholder(c) \/ Join(c) \/ CreateAuthToken(c)
             \/ ConsumeAuthToken(c) \/ UpdatePassword(c)
      PROVE  UNCHANGED plan
  BY <1>3 DEF CreateUser, CreateOrg, CreateSession, FindInvited, CreatePlaceholder, Join, CreateAuthToken,
              ConsumeAuthToken, UpdatePassword
<1>4. ASSUME NEW c \in Call,
             \/ FindLogin(c) \/ CheckCode(c)
             \/ SetTotpSecret(c) \/ Enrolled(c) \/ GetTotpSecret(c) \/ EnableTotp(c) \/ DisableTotp(c)
             \/ GiveUp(c)
      PROVE  UNCHANGED plan
  BY <1>4 DEF FindLogin, CheckCode, SetTotpSecret, Enrolled, GetTotpSecret, EnableTotp, DisableTotp, GiveUp
<1>5. ASSUME Logout \/ DisableAccount PROVE UNCHANGED plan
  BY <1>5 DEF Logout, DisableAccount
<1> QED BY <1>1, <1>2, <1>3, <1>4, <1>5 DEF AccountsNext

\* What an organisation sets up leaves its members alone.
SetUpStep == Counted /\ UNCHANGED <<members, left>>

LEMMA HandlersStep ==
  ASSUME NEW Ops, Handlers(Ops)
  PROVE  SetUpStep
<1>1. ASSUME NEW c \in Call, NEW p \in Person, NEW a, Receive(c, p, a) PROVE SetUpStep
  BY <1>1 DEF SetUpStep, Counted, Receive
<1>2. ASSUME NEW c \in Call, RequirePlanFeature(c) \/ TeamBelongsToOrg(c) \/ RoleInOrg(c)
      PROVE  SetUpStep
  BY <1>2 DEF SetUpStep, Counted, RequirePlanFeature, TeamBelongsToOrg, RoleInOrg, Check, Rest
<1>3. ASSUME NEW c \in Call, Change(c) PROVE SetUpStep
  <2>1. ASSUME NEW done, Commits(c, done) PROVE SetUpStep
    BY <2>1 DEF SetUpStep, Counted, Commits, Rest
  <2>2. ASSUME ClearDefault(c) \/ ClearAwaited(c) PROVE SetUpStep
    BY <2>2 DEF SetUpStep, Counted, ClearDefault, ClearAwaited
  <2>3. ASSUME NEW ok \in BOOLEAN, TestProvider(c, ok) PROVE SetUpStep
    BY <2>3 DEF SetUpStep, Counted, TestProvider, Rest
  <2>4. ASSUME CreateCredential(c) PROVE SetUpStep
    <3>1. Commits(c, FALSE) \/ UNCHANGED <<Rest, faults>>
      BY <2>4 DEF CreateCredential
    <3> QED BY <2>1, <3>1 DEF SetUpStep, Counted, Rest
  <2>5. ASSUME \/ CreateTeam(c) \/ UpdateTeam(c) \/ DeleteTeam(c) \/ AddTeamMember(c)
               \/ RemoveTeamMember(c) \/ CreateBudget(c) \/ DeleteBudget(c) \/ CreatePolicy(c)
               \/ DeletePolicy(c) \/ UpdateKey(c) \/ UpdateOrgSettings(c) \/ DeleteCredential(c)
        PROVE  SetUpStep
    <3>1. \E done : Commits(c, done)
      BY <2>5 DEF CreateTeam, UpdateTeam, DeleteTeam, AddTeamMember, RemoveTeamMember, CreateBudget,
                  DeleteBudget, CreatePolicy, DeletePolicy, UpdateKey, UpdateOrgSettings, Overwrites, DeleteCredential
    <3> QED BY <2>1, <3>1
  <2> QED BY <1>3, <2>2, <2>3, <2>4, <2>5 DEF Change
<1>4. ASSUME NEW c \in Call, Forget(c) \/ ForgetFails(c) \/ Audit(c) \/ Drop(c) PROVE SetUpStep
  BY <1>4 DEF SetUpStep, Counted, Forget, ForgetFails, Audit, Drop, Rest
<1> QED BY <1>1, <1>2, <1>3, <1>4 DEF Handlers

SetUpNext == ProjectStep \/ BudgetStep \/ CredentialStep \/ SettingStep \/ ReportStep

\* Members who come and go while projects are set up do so in no call's statement.
LEMMA SetUpLeaves ==
  ASSUME SetUpNext
  PROVE  /\ Counted /\ UNCHANGED <<left, accountVars, billingVars, task>>
         /\ UNCHANGED members \/ UNCHANGED pc
         /\ task \in SetUp
<1>1. ASSUME JoinsOrLeaves PROVE Counted /\ UNCHANGED <<left, pc>>
  BY <1>1 DEF Counted, JoinsOrLeaves
<1>2. ASSUME ReportsNext PROVE SetUpStep
  BY <1>2 DEF SetUpStep, Counted, ReportsNext, RecordUsage, NextDay, ProjectsChange, tenantVars, orgVars
<1>3. UNCHANGED <<accountVars, billingVars, task>> /\ task \in SetUp
  BY DEF SetUpNext, ProjectStep, BudgetStep, CredentialStep, SettingStep, ReportStep, SetUp
<1>4. \/ SetUpStep \/ JoinsOrLeaves
  BY <1>2, HandlersStep DEF SetUpNext, ProjectStep, BudgetStep, CredentialStep, SettingStep, ReportStep,
     ProjectsNext, BudgetsNext, CredentialsNext, SettingsNext
<1> QED BY <1>1, <1>3, <1>4 DEF SetUpStep

LEMMA CountedFaults ==
  ASSUME faults \in Nat, Counted
  PROVE  faults' \in Nat
BY DEF Counted, Fault

LEMMA TenancyNext ==
  ASSUME TenancyInv, Next
  PROVE  TenancyInv'
<1>1. CASE OrganisationStep
  <2>1. /\ task = "organisation" /\ OrgNext /\ UNCHANGED <<accountVars, billingVars, task>>
        /\ faults \in Nat /\ OrgInv /\ user = None /\ ~enabled /\ (\A l \in Try : redeemed[l] = 0)
        /\ claimed = 0 /\ customers = 0 /\ plan = subscribed
    BY <1>1 DEF OrganisationStep, TenancyInv
  <2>2. OrgInv' /\ faults' \in Nat /\ UNCHANGED plan
    BY <2>1, OrgNextInv, OrgCounts, CountedFaults DEF Counted
  <2> QED BY <2>1, <2>2 DEF TenancyInv, accountVars, billingVars
<1>2. CASE AccountStep
  <2>1. /\ task = "accounts" /\ AccountsNext /\ UNCHANGED <<orgVars, billingVars, task>>
        /\ AccountsInv /\ (\A p \in Person : left[p] = None)
        /\ claimed = 0 /\ customers = 0 /\ plan = subscribed
    BY <1>2 DEF AccountStep, TenancyInv
  <2>2. AccountsInv' /\ UNCHANGED plan
    BY <2>1, AccountsNextInv, AccountsCount
  <2>3. faults' \in Nat
    BY <2>2 DEF AccountsInv, AccountsTyped
  <2> QED BY <2>1, <2>2, <2>3 DEF TenancyInv, orgVars, billingVars
<1>3. CASE ReferralStep \/ SubscriptionStep
  <2>1. /\ task \in {"referrals", "subscription"} /\ (ReferralsNext \/ SubscriptionNext)
        /\ UNCHANGED <<orgVars, accountVars, task>>
        /\ BillingInv /\ (\A p \in Person : left[p] = None)
        /\ user = None /\ ~enabled /\ (\A l \in Try : redeemed[l] = 0)
    BY <1>3 DEF ReferralStep, SubscriptionStep, TenancyInv
  <2>2. BillingInv'
    BY <2>1, BillingNextInv
  <2>3. faults' \in Nat
    BY <2>2 DEF BillingInv, BillingTyped
  <2> QED BY <2>1, <2>2, <2>3 DEF TenancyInv, orgVars, accountVars
<1>4. CASE SetUpNext
  <2>1. /\ Counted /\ UNCHANGED <<left, accountVars, billingVars, task>> /\ task \in SetUp
    BY <1>4, SetUpLeaves
  <2>2. faults \in Nat
    BY DEF TenancyInv
  <2>3. faults' \in Nat /\ UNCHANGED plan
    BY <2>1, <2>2, CountedFaults DEF Counted
  <2> QED BY <2>1, <2>3 DEF TenancyInv, SetUp, accountVars, billingVars
<1> QED BY <1>1, <1>2, <1>3, <1>4 DEF Next, SetUpNext

LEMMA TenancyStutters ==
  ASSUME TenancyInv, UNCHANGED vars
  PROVE  TenancyInv'
<1> USE DEF vars, tenantVars, orgVars, accountVars, billingVars
<1>1. OrgInv => OrgInv'
  BY DEF OrgInv, OrgTypeOK, OrgAsk, LeftFor, KeysUnderWay, KeyRequest
<1>2. AccountsInv => AccountsInv'
  BY DEF AccountsInv, AccountsTyped, LinkInv, Owning, HeldInv, FactorInv, RowInv, SignupWhole
<1>3. BillingInv => BillingInv'
  <2>1. /\ \A m : Changes(m)' <=> Changes(m)
        /\ \A m : PlanChangeFor(sent[m])' = PlanChangeFor(sent[m])
    BY DEF Changes
  <2>2. Awaiting' = Awaiting /\ \A s : InStatement(s)' = InStatement(s)
    BY DEF Awaiting, InStatement
  <2>4. ClaimsInv => ClaimsInv'
    BY <2>2 DEF ClaimsInv
  <2>5. CustomersInv => CustomersInv'
    BY <2>2 DEF CustomersInv
  <2>6. EventsInv => EventsInv'
    BY <2>1 DEF EventsInv
  <2>7. FollowInv => FollowInv'
    BY <2>1 DEF FollowInv
  <2>8. BillingTyped => BillingTyped'
    BY DEF BillingTyped
  <2> QED BY <2>4, <2>5, <2>6, <2>7, <2>8 DEF BillingInv
<1> QED BY <1>1, <1>2, <1>3 DEF TenancyInv

\* The organisation, the accounts and the billing keep what their own steps need, whatever a
\* behaviour follows.
THEOREM TenancyInvariance == Spec => []TenancyInv
<1>1. Init => TenancyInv
  BY TenancyBegins
<1>2. TenancyInv /\ [Next]_vars => TenancyInv'
  BY TenancyNext, TenancyStutters
<1> QED BY <1>1, <1>2, PTL DEF Spec

\* Once a person is deprovisioned no key of theirs works but one that was under way, an invitation
\* sets one password, the second factor has been proven and a signup is whole or cut short.
THEOREM PeopleSafe == Spec => []PeopleSafety
<1>1. TenancyInv => PeopleSafety
  <2> SUFFICES ASSUME TenancyInv PROVE PeopleSafety
    OBVIOUS
  <2>1. Deprovisioned
    <3>1. CASE task = "organisation"
      BY <3>1 DEF TenancyInv, OrgInv, LeftFor, Deprovisioned
    <3>2. CASE task # "organisation"
      BY <3>2 DEF TenancyInv, Deprovisioned
    <3> QED BY <3>1, <3>2
  <2>2. CASE task = "accounts"
    <3>1. (\A l \in Try : LinkInv(l)) /\ FactorInv /\ SignupWhole
      BY <2>2 DEF TenancyInv, AccountsInv
    <3>2. TokenOnce
      BY <3>1 DEF LinkInv, TokenOnce
    <3>3. SecondFactorProven
      BY <3>1 DEF FactorInv, SecondFactorProven
    <3> QED BY <2>1, <3>1, <3>2, <3>3 DEF PeopleSafety
  <2>3. CASE task # "accounts"
    <3>1. TokenOnce
      BY <2>3 DEF TenancyInv, TokenOnce
    <3>2. SecondFactorProven /\ SignupWhole
      BY <2>3 DEF TenancyInv, SecondFactorProven, SignupWhole
    <3> QED BY <2>1, <3>1, <3>2 DEF PeopleSafety
  <2> QED BY <2>2, <2>3
<1> QED BY <1>1, TenancyInvariance, PTL

\* Overlapping claims credit no more often than there are calls, overlapping checkouts make no more
\* customers than there are calls and failures, and an organisation whose events have all been taken
\* is on the plan it pays for, unless an older one set its plan after a newer.
THEOREM BillingSafe == Spec => []BillingSafety
<1>1. TenancyInv => BillingSafety
  <2> SUFFICES ASSUME TenancyInv PROVE BillingSafety
    OBVIOUS
  <2>1. Cardinality(Call) \in Nat /\ faults \in Nat
    BY TenantAssumption, FS_CardinalityType DEF TenancyInv
  <2>2. CASE task \in {"referrals", "subscription"}
    <3>1. BillingTyped /\ ClaimsInv /\ CustomersInv /\ EventsInv /\ FollowInv
      BY <2>2 DEF TenancyInv, BillingInv
    <3>2. PICK S, T : S = InStatement("credit") /\ T = InStatement("create_customer")
      OBVIOUS
    <3>3. Cardinality(S) \in Nat /\ Cardinality(T) \in Nat
      BY <3>2, CallSets DEF InStatement
    <3>4. /\ claimed \in Nat /\ customers \in Nat
          /\ claimed + Cardinality(S) <= Cardinality(Call)
          /\ customers + Cardinality(T) <= Cardinality(Call) + faults
      BY <3>1, <3>2 DEF BillingTyped, ClaimsInv, CustomersInv
    <3>5. ClaimsBounded
      BY <2>1, <3>3, <3>4 DEF ClaimsBounded
    <3>6. CustomersBounded
      BY <2>1, <3>3, <3>4 DEF CustomersBounded
    <3>7. PlanCurrent
      <4> SUFFICES ASSUME Awaiting = {} PROVE plan = subscribed \/ late
        BY DEF PlanCurrent
      <4>1. CASE \E n \in DOMAIN sent : Changes(n)
        <5>1. PICK n \in DOMAIN sent : Changes(n)
          BY <4>1
        <5>2. \A m \in DOMAIN sent : Changes(m) => m <= newest
          BY <3>1 DEF Awaiting, FollowInv
        <5>3. newest # 0
          BY <3>1, <5>1, <5>2 DEF BillingTyped
        <5> QED BY <3>1, <5>2, <5>3 DEF FollowInv, EventsInv
      <4>2. CASE \A n \in DOMAIN sent : ~Changes(n)
        BY <3>1, <4>2 DEF FollowInv
      <4> QED BY <4>1, <4>2
    <3> QED BY <3>5, <3>6, <3>7 DEF BillingSafety
  <2>3. CASE task \notin {"referrals", "subscription"}
    <3>1. claimed = 0 /\ customers = 0 /\ plan = subscribed
      BY <2>3 DEF TenancyInv
    <3>2. ClaimsBounded /\ CustomersBounded
      BY <2>1, <3>1 DEF ClaimsBounded, CustomersBounded
    <3> QED BY <3>1, <3>2 DEF BillingSafety, PlanCurrent
  <2> QED BY <2>2, <2>3
<1> QED BY <1>1, TenancyInvariance, PTL

\* A removal takes the last owner only if the owners or the person's role changed after it read them.
THEOREM LastOwnerKeptAlways == Spec => LastOwnerKept
<1> DEFINE Kept ==
      \A c \in Call :
        (pc[c] = "delete" /\ pc'[c] # "delete" /\ Owners # {} /\ Owners' = {})
          => \/ seen[c].owners # Cardinality(Owners)
             \/ seen[c].role # members[ask[c].whom]
<1>1. ASSUME TenancyInv, [Next]_vars PROVE [Kept]_<<tenantVars, orgVars>>
  <2>1. CASE OrganisationStep
    <3>1. OrgNext /\ pc \in [Call -> Statement] /\ members \in [Person -> Role \cup {None}]
      BY <1>1, <2>1 DEF OrganisationStep, TenancyInv, OrgInv, OrgTypeOK
    <3> QED BY <3>1, LastOwnerStep
  <2>2. CASE UNCHANGED members
    BY <2>2 DEF Owners
  <2>3. CASE UNCHANGED pc
    BY <2>3
  <2>4. \/ OrganisationStep \/ UNCHANGED members \/ UNCHANGED pc
    <3>1. CASE SetUpNext
      BY <3>1, SetUpLeaves
    <3>2. CASE AccountStep \/ ReferralStep \/ SubscriptionStep \/ UNCHANGED vars
      BY <3>2 DEF AccountStep, ReferralStep, SubscriptionStep, vars, orgVars
    <3> QED BY <1>1, <3>1, <3>2 DEF Next, SetUpNext
  <2> QED BY <2>1, <2>2, <2>3, <2>4
<1>2. TenancyInv /\ [Next]_vars => [Kept]_<<tenantVars, orgVars>>
  BY <1>1
<1> QED BY <1>2, TenancyInvariance, PTL DEF Spec, LastOwnerKept

-----------------------------------------------------------------------------
(* The reports of a period                                                 *)

UsageRow == [day : 1 .. MaxDay, team : Id \cup {None}, user : Person \cup {None}, cost : Cost]

UsageTyped == usage \in Seq(UsageRow)

\* No two projects have one id, or one name.
TeamsApart ==
  /\ teams \subseteq [id : Id, name : Name] /\ IsFiniteSet(teams)
  /\ \A t, u \in teams : (t.id = u.id \/ t.name = u.name) => t = u

CostsOf(rows) == [i \in 1 .. Len(usage) |-> IF i \in rows THEN usage[i].cost ELSE 0]

LEMMA CostsTyped ==
  ASSUME UsageTyped, NEW rows
  PROVE  /\ Len(usage) \in Nat /\ DOMAIN usage = 1 .. Len(usage)
         /\ CostsOf(rows) \in [1 .. Len(usage) -> Int]
         /\ CostOf(rows) = Total(CostsOf(rows), Len(usage)) /\ CostOf(rows) \in Int
<1>1. Len(usage) \in Nat /\ DOMAIN usage = 1 .. Len(usage)
  BY DEF UsageTyped
<1>2. \A i \in 1 .. Len(usage) : usage[i].cost \in Int
  <2> SUFFICES ASSUME NEW i \in 1 .. Len(usage) PROVE usage[i].cost \in Int
    OBVIOUS
  <2>1. PICK T : T = UsageRow /\ usage \in Seq(T)
    BY DEF UsageTyped
  <2>2. usage[i] \in T
    BY <2>1
  <2>3. usage[i].cost \in Cost
    BY <2>1, <2>2 DEF UsageRow
  <2>4. \A v \in Cost : v \in Int
    BY ReportsAssumption
  <2> QED BY <2>3, <2>4, Zenon
<1>3. CostsOf(rows) \in [1 .. Len(usage) -> Int]
  BY <1>2 DEF CostsOf
<1>4. CostOf(rows) = Total(CostsOf(rows), Len(usage))
  BY <1>1 DEF CostOf, CostsOf
<1> QED BY <1>1, <1>3, <1>4, TotalType

LEMMA CostOfNone ==
  ASSUME UsageTyped
  PROVE  CostOf({}) = 0
<1>1. CostsOf({}) = [i \in 1 .. Len(usage) |-> 0]
  BY DEF CostsOf
<1> QED BY <1>1, CostsTyped, TotalZero

\* The cost of two sets of rows that have none in common.
LEMMA CostOfBoth ==
  ASSUME UsageTyped, NEW R, NEW Q, R \cap Q = {}
  PROVE  CostOf(R \cup Q) = CostOf(R) + CostOf(Q)
<1>0. PICK n \in Nat : n = Len(usage)
  BY CostsTyped
<1>1. PICK f \in [1 .. n -> Int], g \in [1 .. n -> Int] : f = CostsOf(R) /\ g = CostsOf(Q)
  BY <1>0, CostsTyped
<1>2. CostsOf(R \cup Q) = [i \in 1 .. n |-> f[i] + g[i]]
  <2>1. ASSUME NEW i \in 1 .. n PROVE CostsOf(R \cup Q)[i] = f[i] + g[i]
    <3>1. f[i] \in Int /\ g[i] \in Int
      OBVIOUS
    <3>2. CostsOf(R \cup Q)[i] = IF i \in R \cup Q THEN usage[i].cost ELSE 0
      BY <1>0 DEF CostsOf
    <3>3. /\ f[i] = IF i \in R THEN usage[i].cost ELSE 0
          /\ g[i] = IF i \in Q THEN usage[i].cost ELSE 0
      BY <1>0, <1>1 DEF CostsOf
    <3> QED BY <3>1, <3>2, <3>3
  <2> QED BY <1>0, <2>1 DEF CostsOf
<1>3. Total([i \in 1 .. n |-> f[i] + g[i]], n) = Total(f, n) + Total(g, n)
  BY TotalSum
<1> QED BY <1>0, <1>1, <1>2, <1>3, CostsTyped

\* What the rows of each key cost adds up to what the rows cost.
LEMMA CostByKey ==
  ASSUME UsageTyped, NEW K, IsFiniteSet(K), NEW Of \in [K -> SUBSET Nat],
         \A k, l \in K : k # l => Of[k] \cap Of[l] = {},
         NEW f \in [K -> Int], \A k \in K : f[k] = CostOf(Of[k])
  PROVE  SumOver(f, K) = CostOf(UNION {Of[k] : k \in K})
<1> DEFINE All(s) == UNION {Of[k] : k \in s}
           of == [s \in SUBSET K |-> CostOf(All(s))]
<1>1. of \in [SUBSET K -> Int]
  BY CostsTyped
<1>2. of[{}] = 0
  <2>1. All({}) = {}
    OBVIOUS
  <2> QED BY <2>1, CostOfNone
<1>3. ASSUME NEW s \in SUBSET K, NEW x \in K, x \in s PROVE of[s] = f[x] + of[s \ {x}]
  <2>1. All(s) = Of[x] \cup All(s \ {x})
    BY <1>3
  <2>2. Of[x] \cap All(s \ {x}) = {}
    BY <1>3
  <2> HIDE DEF All
  <2>3. CostOf(All(s)) = CostOf(Of[x]) + CostOf(All(s \ {x}))
    BY <2>1, <2>2, CostOfBoth
  <2> QED BY <2>3
<1>4. Enumerates(of, f, K)
  <2> HIDE DEF of
  <2> QED BY <1>1, <1>2, <1>3 DEF Enumerates
<1>5. SumOver(f, K) = of[K]
  <2> HIDE DEF of
  <2> QED BY <1>4, SumOverCounts
<1> QED BY <1>5

\* The rows of a period.
LEMMA RowTyped ==
  ASSUME UsageTyped, NEW from, NEW to, NEW i \in Between(from, to)
  PROVE  /\ i \in 1 .. Len(usage) /\ i \in Nat
         /\ usage[i].team \in Id \cup {None} /\ usage[i].user \in Person \cup {None}
<1>1. Len(usage) \in Nat /\ DOMAIN usage = 1 .. Len(usage)
  BY CostsTyped
<1>2. i \in 1 .. Len(usage)
  BY <1>1 DEF Between
<1>3. PICK T : T = UsageRow /\ usage \in Seq(T)
  BY DEF UsageTyped
<1>4. usage[i] \in T
  BY <1>2, <1>3
<1> QED BY <1>1, <1>2, <1>3, <1>4 DEF UsageRow

\* NameOf is the name of the one project with the id.
LEMMA NameIs ==
  ASSUME TeamsApart
  PROVE  /\ \A t \in teams : NameOf(t.id) = {t.name} /\ t.name \in Name /\ t.id \in Id
         /\ \A d : (\A t \in teams : t.id # d) => NameOf(d) = {}
         /\ \A d, n : NameOf(d) = {n} => \E t \in teams : t.id = d /\ t.name = n
<1>1. ASSUME NEW t \in teams PROVE NameOf(t.id) = {t.name}
  <2>1. {u \in teams : u.id = t.id} = {t}
    BY DEF TeamsApart
  <2> QED BY <2>1 DEF NameOf
<1>2. \A t \in teams : t.name \in Name /\ t.id \in Id
  BY DEF TeamsApart
<1> QED BY <1>1, <1>2 DEF NameOf

\* The rows of each line of the chargeback.
CenterRows(from, to, x) ==
  {i \in Between(from, to) : NameOf(usage[i].team) = IF x = None THEN {} ELSE {x}}

TeamRows(from, to, d) == {i \in Between(from, to) : usage[i].team = d}

UserRows(from, to, p) == {i \in Between(from, to) : usage[i].user = p}

\* Of is what a sum over keys is about.
LEMMA SumOfRows ==
  ASSUME UsageTyped, NEW K, IsFiniteSet(K), NEW Of \in [K -> SUBSET Nat],
         \A k, l \in K : k # l => Of[k] \cap Of[l] = {}
  PROVE  SumOver([k \in K |-> CostOf(Of[k])], K) = CostOf(UNION {Of[k] : k \in K})
<1> DEFINE f == [k \in K |-> CostOf(Of[k])]
<1>1. f \in [K -> Int]
  BY CostsTyped
<1>2. \A k \in K : f[k] = CostOf(Of[k])
  OBVIOUS
<1> HIDE DEF f
<1>3. SumOver(f, K) = CostOf(UNION {Of[k] : k \in K})
  BY <1>1, <1>2, CostByKey
<1> QED BY <1>3 DEF f

\* The lines and what no project has: all.
LEMMA CentersAddUp ==
  ASSUME UsageTyped, TeamsApart, NEW from, NEW to
  PROVE  /\ Chargeback(from, to).total = CostOf(Between(from, to))
         /\ Chargeback(from, to).unattributed = CostOf(CenterRows(from, to, None))
         /\ \A x \in Name : Chargeback(from, to).lines[x] = Summary(CenterRows(from, to, x))
<1> DEFINE K == Name \cup {None}
           Of == [x \in K |-> CenterRows(from, to, x)]
           entries == SpendByCostCenter(from, to)
<1>0. None \notin Name /\ IsFiniteSet(K) /\ IsFiniteSet({None})
  BY ProjectsAssumption, FS_AddElement, FS_Singleton
<1>1. /\ entries = [x \in K |-> Summary(CenterRows(from, to, x))]
  BY DEF SpendByCostCenter, CenterRows
<1>2. /\ DOMAIN entries = K /\ \A x \in K : entries[x] = Summary(CenterRows(from, to, x))
      /\ \A x \in K : entries[x].spend = CostOf(CenterRows(from, to, x))
  BY <1>1 DEF Summary
<1>3. Of \in [K -> SUBSET Nat]
  BY RowTyped DEF CenterRows
<1>4. ASSUME NEW k \in K, NEW l \in K, k # l PROVE Of[k] \cap Of[l] = {}
  <2>1. (IF k = None THEN {} ELSE {k}) # (IF l = None THEN {} ELSE {l})
    BY <1>4
  <2> QED BY <2>1 DEF CenterRows
<1>5. UNION {Of[k] : k \in K} = Between(from, to)
  <2>1. \A k \in K : Of[k] \subseteq Between(from, to)
    BY DEF CenterRows
  <2>2. ASSUME NEW i \in Between(from, to) PROVE \E k \in K : i \in Of[k]
    <3>1. CASE \E t \in teams : t.id = usage[i].team
      <4>1. PICK t \in teams : t.id = usage[i].team
        BY <3>1
      <4>2. NameOf(usage[i].team) = {t.name} /\ t.name \in Name
        BY <4>1, NameIs
      <4>3. i \in Of[t.name]
        BY <4>2, <1>0 DEF CenterRows
      <4> QED BY <4>2, <4>3
    <3>2. CASE ~ \E t \in teams : t.id = usage[i].team
      <4>1. NameOf(usage[i].team) = {}
        BY <3>2, NameIs
      <4>2. i \in Of[None]
        BY <4>1 DEF CenterRows
      <4> QED BY <4>2
    <3> QED BY <3>1, <3>2
  <2> HIDE DEF Of, K
  <2> QED BY <2>1, <2>2
<1>6. SumOver([x \in K |-> CostOf(Of[x])], K) = CostOf(Between(from, to))
  <2> HIDE DEF Of, K
  <2> QED BY <1>0, <1>3, <1>4, <1>5, SumOfRows
<1>7. SumOver([x \in {None} |-> CostOf(CenterRows(from, to, x))], {None}) = CostOf(CenterRows(from, to, None))
  <2> DEFINE One == [x \in {None} |-> CenterRows(from, to, x)]
  <2>1. One \in [{None} -> SUBSET Nat] /\ One[None] = CenterRows(from, to, None)
    BY RowTyped DEF CenterRows
  <2>2. \A k, l \in {None} : k # l => One[k] \cap One[l] = {}
    OBVIOUS
  <2>3. [x \in {None} |-> CostOf(CenterRows(from, to, x))] = [x \in {None} |-> CostOf(One[x])]
    OBVIOUS
  <2> HIDE DEF One
  <2>4. SumOver([x \in {None} |-> CostOf(One[x])], {None}) = CostOf(UNION {One[k] : k \in {None}})
    BY <1>0, <2>1, <2>2, SumOfRows
  <2>5. UNION {One[k] : k \in {None}} = One[None]
    OBVIOUS
  <2> QED BY <2>1, <2>3, <2>4, <2>5
<1>8. DOMAIN entries \cap {None} = {None}
  BY <1>2
<1>9. /\ [x \in K |-> entries[x].spend] = [x \in K |-> CostOf(Of[x])]
      /\ [x \in {None} |-> entries[x].spend] = [x \in {None} |-> CostOf(CenterRows(from, to, x))]
  BY <1>2
<1>10. /\ Chargeback(from, to).total = SumOver([x \in K |-> entries[x].spend], K)
       /\ Chargeback(from, to).unattributed = SumOver([x \in {None} |-> entries[x].spend], {None})
       /\ \A x \in Name : Chargeback(from, to).lines[x] = entries[x]
  <2> HIDE DEF K, Of
  <2>1. Chargeback(from, to) =
          [lines |-> [x \in Name |-> entries[x]],
           total |-> SumOver([x \in K |-> entries[x].spend], K),
           unattributed |-> SumOver([x \in {None} |-> entries[x].spend], {None})]
    BY <1>2, <1>8 DEF Chargeback
  <2> HIDE DEF entries
  <2> QED BY <2>1
<1> HIDE DEF entries, Of
<1> QED BY <1>2, <1>6, <1>7, <1>9, <1>10

\* What belongs to projects that are there.
LEMMA TeamsAddUp ==
  ASSUME UsageTyped, TeamsApart, NEW from, NEW to
  PROVE  /\ SumOver([t \in teams |-> UsageSummaryForTeam(t.id, from, to).spend], teams)
              = CostOf(Between(from, to)) - CostOf(CenterRows(from, to, None))
         /\ \A t \in teams : Summary(CenterRows(from, to, t.name)) = UsageSummaryForTeam(t.id, from, to)
<1> DEFINE Of == [t \in teams |-> TeamRows(from, to, t.id)]
           Owned == {i \in Between(from, to) : \E t \in teams : t.id = usage[i].team}
<1>1. IsFiniteSet(teams)
  BY DEF TeamsApart
<1>2. Of \in [teams -> SUBSET Nat]
  BY RowTyped DEF TeamRows
<1>3. \A k, l \in teams : k # l => Of[k] \cap Of[l] = {}
  BY DEF TeamRows, TeamsApart
<1>4. UNION {Of[t] : t \in teams} = Owned
  BY DEF TeamRows
<1>5. [t \in teams |-> UsageSummaryForTeam(t.id, from, to).spend] = [t \in teams |-> CostOf(Of[t])]
  BY DEF UsageSummaryForTeam, Summary, TeamRows
<1>6. SumOver([t \in teams |-> CostOf(Of[t])], teams) = CostOf(Owned)
  <2>1. SumOver([t \in teams |-> CostOf(Of[t])], teams) = CostOf(UNION {Of[t] : t \in teams})
    <3> HIDE DEF Of
    <3> QED BY <1>1, <1>2, <1>3, SumOfRows
  <2> QED BY <1>4, <2>1
<1>7. CenterRows(from, to, None) = Between(from, to) \ Owned
  <2>1. ASSUME NEW i \in Between(from, to)
        PROVE  NameOf(usage[i].team) = {} <=> ~ \E t \in teams : t.id = usage[i].team
    BY NameIs
  <2> QED BY <2>1 DEF CenterRows
<1>8. /\ Between(from, to) = Owned \cup CenterRows(from, to, None)
      /\ Owned \cap CenterRows(from, to, None) = {}
  BY <1>7
<1>9. CostOf(Between(from, to)) = CostOf(Owned) + CostOf(CenterRows(from, to, None))
  <2> HIDE DEF Owned
  <2> QED BY <1>8, CostOfBoth
<1>10. CostOf(Owned) \in Int /\ CostOf(CenterRows(from, to, None)) \in Int
  BY CostsTyped
<1>11. CostOf(Owned) = CostOf(Between(from, to)) - CostOf(CenterRows(from, to, None))
  <2> HIDE DEF Owned
  <2> QED BY <1>9, <1>10
<1>12. ASSUME NEW t \in teams
       PROVE  Summary(CenterRows(from, to, t.name)) = UsageSummaryForTeam(t.id, from, to)
  <2>1. t.name # None
    BY ProjectsAssumption, NameIs
  <2>2. ASSUME NEW i \in Between(from, to)
        PROVE  NameOf(usage[i].team) = {t.name} <=> usage[i].team = t.id
    BY NameIs DEF TeamsApart
  <2>3. CenterRows(from, to, t.name) = {i \in Between(from, to) : usage[i].team = t.id}
    BY <2>1, <2>2 DEF CenterRows
  <2> QED BY <2>3 DEF UsageSummaryForTeam
<1> HIDE DEF Of, Owned
<1> QED BY <1>5, <1>6, <1>11, <1>12

\* Every row is somebody's or nobody's.
LEMMA UsersAddUp ==
  ASSUME UsageTyped, NEW from, NEW to
  PROVE  SumOver([p \in Person \cup {None} |-> UsageSummaryForUser(p, from, to).spend], Person \cup {None})
           = CostOf(Between(from, to))
<1> DEFINE K == Person \cup {None}
           Of == [p \in K |-> UserRows(from, to, p)]
<1>1. IsFiniteSet(K)
  BY OrganisationAssumption, FS_AddElement
<1>2. Of \in [K -> SUBSET Nat]
  BY RowTyped DEF UserRows
<1>3. \A k, l \in K : k # l => Of[k] \cap Of[l] = {}
  BY DEF UserRows
<1>4. UNION {Of[p] : p \in K} = Between(from, to)
  <2>1. \A p \in K : Of[p] \subseteq Between(from, to)
    BY DEF UserRows
  <2>2. \A i \in Between(from, to) : usage[i].user \in K /\ i \in Of[usage[i].user]
    BY RowTyped DEF UserRows
  <2> HIDE DEF Of, K
  <2> QED BY <2>1, <2>2
<1>5. [p \in K |-> UsageSummaryForUser(p, from, to).spend] = [p \in K |-> CostOf(Of[p])]
  BY DEF UsageSummaryForUser, Summary, UserRows
<1>6. SumOver([p \in K |-> CostOf(Of[p])], K) = CostOf(UNION {Of[p] : p \in K})
  <2> HIDE DEF Of, K
  <2> QED BY <1>1, <1>2, <1>3, SumOfRows
<1> HIDE DEF Of
<1> QED BY <1>4, <1>5, <1>6

\* The savings report has all rows, or as many as fit.
LEMMA SavingsFit ==
  ASSUME UsageTyped, NEW from, NEW to
  PROVE  LET all == UsageSummary(from, to) IN
           IF all.requests <= PageLimit THEN SavingsReport(from, to) = all
           ELSE SavingsReport(from, to).requests = PageLimit
<1> DEFINE R == Between(from, to)
           L == {i \in R : Cardinality({j \in R : j > i}) < PageLimit}
<1>1. R \in SUBSET Nat /\ IsFiniteSet(R) /\ Cardinality(R) \in Nat
  <2>1. R \subseteq 1 .. Len(usage) /\ R \in SUBSET Nat
    BY RowTyped
  <2>2. IsFiniteSet(1 .. Len(usage))
    BY CostsTyped, FS_Interval
  <2> HIDE DEF R
  <2> QED BY <2>1, <2>2, FS_Subset, FS_CardinalityType
<1>2. ListRequests(from, to, 10000) = L
  <2>1. PageLimit \in 0 .. 10000
    BY ReportsAssumption
  <2>2. (IF 10000 < PageLimit THEN 10000 ELSE PageLimit) = PageLimit
    BY <2>1
  <2> QED BY <2>2 DEF ListRequests
<1>3. SavingsReport(from, to) = Summary(L) /\ UsageSummary(from, to) = Summary(R)
  <2> HIDE DEF L
  <2> QED BY <1>2 DEF SavingsReport, UsageSummary
<1>4. PageLimit \in Nat
  BY ReportsAssumption
<1> HIDE DEF R
<1>5. CASE Cardinality(R) <= PageLimit
  <2>1. ASSUME NEW i \in R PROVE Cardinality({j \in R : j > i}) < PageLimit
    <3>1. {j \in R : j > i} \subseteq R /\ {j \in R : j > i} # R
      BY <1>1
    <3> DEFINE S == {j \in R : j > i}
    <3> HIDE DEF S
    <3>3. IsFiniteSet(S) /\ Cardinality(S) \in Nat
      BY <1>1, <3>1, FS_Subset, FS_CardinalityType DEF S
    <3>2. Cardinality(S) < Cardinality(R)
      <4>1. Cardinality(S) <= Cardinality(R) /\ (Cardinality(S) = Cardinality(R) => S = R)
        BY <1>1, <3>1, FS_Subset DEF S
      <4> QED BY <1>1, <3>1, <3>3, <4>1 DEF S
    <3> USE DEF S
    <3> QED BY <1>1, <1>4, <1>5, <3>2, <3>3
  <2>2. L = R
    BY <2>1
  <2> HIDE DEF L
  <2> QED BY <1>3, <1>5, <2>2 DEF Summary
<1>6. CASE ~(Cardinality(R) <= PageLimit)
  <2>1. PageLimit <= Cardinality(R)
    BY <1>1, <1>4, <1>6
  <2>2. Cardinality(L) = PageLimit
    BY <1>1, <1>4, <2>1, LastOnes
  <2> HIDE DEF L
  <2> QED BY <1>3, <1>6, <2>2 DEF Summary
<1> QED BY <1>5, <1>6

\* All reports of a period agree.
LEMMA ReportsAgreeAlways ==
  ASSUME UsageTyped, TeamsApart
  PROVE  ReportsAgree
<1>1. PICK from, to : from = day /\ to = MaxDay + 1
  OBVIOUS
<1>2. UsageSummary(from, to).spend = CostOf(Between(from, to))
  BY DEF UsageSummary, Summary
<1>3. \A t \in teams : t.name \in Name
  BY NameIs
<1>4. PICK all, back : all = UsageSummary(from, to) /\ back = Chargeback(from, to)
  OBVIOUS
<1>5. back.total = all.spend
  BY <1>2, <1>4, CentersAddUp
<1>6. back.unattributed =
        all.spend - SumOver([t \in teams |-> UsageSummaryForTeam(t.id, from, to).spend], teams)
  <2>1. PICK a \in Int, b \in Int :
          a = CostOf(Between(from, to)) /\ b = CostOf(CenterRows(from, to, None))
    BY CostsTyped
  <2>2. SumOver([t \in teams |-> UsageSummaryForTeam(t.id, from, to).spend], teams) = a - b
    BY <2>1, TeamsAddUp
  <2>3. back.unattributed = b /\ all.spend = a
    BY <1>2, <1>4, <2>1, CentersAddUp
  <2>4. b = a - (a - b)
    OBVIOUS
  <2> QED BY <2>2, <2>3, <2>4
<1>7. \A t \in teams : back.lines[t.name] = UsageSummaryForTeam(t.id, from, to)
  BY <1>3, <1>4, CentersAddUp, TeamsAddUp
<1>8. all.spend = SumOver([p \in Person \cup {None} |-> UsageSummaryForUser(p, from, to).spend],
                          Person \cup {None})
  BY <1>2, <1>4, UsersAddUp
<1>9. IF all.requests <= PageLimit THEN SavingsReport(from, to) = all
      ELSE SavingsReport(from, to).requests = PageLimit
  BY <1>4, SavingsFit
<1> QED BY <1>1, <1>4, <1>5, <1>6, <1>7, <1>8, <1>9 DEF ReportsAgree

-----------------------------------------------------------------------------
(* The ceilings of a scope                                                 *)

\* No two budgets have one id.
BudgetsApart ==
  /\ budgets \subseteq [id : Id, scope : Scopes, limit : Cap, hard : BOOLEAN]
  /\ \A b, d \in budgets : b.id = d.id => b = d

Ceilings == [limit : Nat, hard : BOOLEAN]

\* c is the ceiling that rows of one scope set: the lowest limit, refusing if a row of that limit does.
CeilingOf(c, rows) ==
  IF rows = {} THEN c = None
  ELSE /\ c \in Ceilings
       /\ \A b \in rows : c.limit <= b.limit
       /\ \E b \in rows : c.limit = b.limit
       /\ c.hard = \E b \in rows : b.limit = c.limit /\ b.hard

LEMMA TighterSound ==
  ASSUME NEW rows, \A b \in rows : b.limit \in Nat /\ b.hard \in BOOLEAN,
         NEW c, CeilingOf(c, rows), NEW b, b.limit \in Nat, b.hard \in BOOLEAN
  PROVE  CeilingOf(Tighter(c, b), rows \cup {b})
<1> DEFINE new == [limit |-> b.limit, hard |-> b.hard]
<1>0. new \in Ceilings /\ new.limit = b.limit /\ new.hard = b.hard
  BY DEF Ceilings
<1>1. CASE rows = {}
  <2>1. c = None
    BY <1>1 DEF CeilingOf
  <2>2. Tighter(c, b) = new
    BY <2>1 DEF Tighter
  <2> HIDE DEF new
  <2>3. \A d \in rows \cup {b} : d = b
    BY <1>1
  <2>4. /\ new \in Ceilings
        /\ \A d \in rows \cup {b} : new.limit <= d.limit
        /\ \E d \in rows \cup {b} : new.limit = d.limit
    BY <1>0, <2>3
  <2>5. new.hard = \E d \in rows \cup {b} : d.limit = new.limit /\ d.hard
    BY <1>0, <2>3
  <2>6. rows \cup {b} # {}
    OBVIOUS
  <2> QED BY <2>2, <2>4, <2>5, <2>6 DEF CeilingOf
<1>2. CASE rows # {}
  <2>1. /\ c \in Ceilings /\ c.limit \in Nat /\ c.hard \in BOOLEAN
        /\ \A d \in rows : c.limit <= d.limit
        /\ \E d \in rows : c.limit = d.limit
        /\ c.hard = \E d \in rows : d.limit = c.limit /\ d.hard
    BY <1>2 DEF CeilingOf, Ceilings
  <2>2. c # None
    BY <2>1, ProjectsAssumption DEF Ceilings
  <2>3. CASE c.limit > b.limit
    <3>1. Tighter(c, b) = new
      BY <2>2, <2>3 DEF Tighter
    <3>2. \A d \in rows : b.limit <= d.limit /\ b.limit # d.limit
      BY <2>1, <2>3
    <3> HIDE DEF new
    <3>4. /\ new \in Ceilings
          /\ \A d \in rows \cup {b} : new.limit <= d.limit
          /\ \E d \in rows \cup {b} : new.limit = d.limit
      BY <1>0, <3>2
    <3>5. new.hard = \E d \in rows \cup {b} : d.limit = new.limit /\ d.hard
      BY <1>0, <3>2
    <3>6. rows \cup {b} # {}
      OBVIOUS
    <3> QED BY <3>1, <3>4, <3>5, <3>6 DEF CeilingOf
  <2>4. CASE c.limit = b.limit
    <3> DEFINE r == [c EXCEPT !.hard = @ \/ b.hard]
    <3>1. Tighter(c, b) = r
      BY <2>1, <2>2, <2>4 DEF Tighter
    <3>2. r \in Ceilings /\ r.limit = c.limit /\ r.hard = (c.hard \/ b.hard)
      BY <2>1 DEF Ceilings
    <3>3. r.hard = \E d \in rows \cup {b} : d.limit = c.limit /\ d.hard
      BY <2>1, <2>4, <3>2
    <3> HIDE DEF r
    <3> QED BY <2>1, <2>4, <3>1, <3>2, <3>3 DEF CeilingOf
  <2>5. CASE c.limit < b.limit
    <3>1. Tighter(c, b) = c
      BY <2>1, <2>2, <2>5 DEF Tighter
    <3>2. b.limit # c.limit /\ c.limit <= b.limit
      BY <2>1, <2>5
    <3> QED BY <2>1, <3>1, <3>2 DEF CeilingOf
  <2> QED BY <2>1, <2>3, <2>4, <2>5
<1> QED BY <1>1, <1>2

\* The rows of a scope that the first n calls made.
FirstRows(scope, n) == {b \in budgets : b.scope = scope /\ b.id < n}

LEMMA FromRowsSound ==
  ASSUME BudgetsApart, NEW scope
  PROVE  CeilingOf(FromRows(scope), {b \in budgets : b.scope = scope})
<1> DEFINE N == MaxCalls + 1
           S == Ceilings \cup {None}
           MadeBy(n) == CHOOSE b \in RowsOf(scope, n - 1) : TRUE
           Body(cap) == [n \in 0 .. N |->
                           IF n = 0 THEN None
                           ELSE IF RowsOf(scope, n - 1) = {} THEN cap[n - 1]
                           ELSE Tighter(cap[n - 1], CHOOSE b \in RowsOf(scope, n - 1) : TRUE)]
           c == CHOOSE cap : cap = Body(cap)
           G == [p \in S \X (1 .. N) |->
                   IF RowsOf(scope, p[2] - 1) = {} THEN p[1] ELSE Tighter(p[1], MadeBy(p[2]))]
<1>0. N \in Nat /\ MaxCalls \in Nat
  BY OrganisationAssumption
<1>1. \A b \in budgets : b.limit \in Nat /\ b.hard \in BOOLEAN /\ b.id \in 0 .. MaxCalls
  <2>1. \A b \in budgets : b.limit \in Cap /\ b.hard \in BOOLEAN /\ b.id \in Id
    BY DEF BudgetsApart
  <2>2. \A v \in Cap : v \in Nat
    BY ProjectsAssumption
  <2> QED BY <2>1, <2>2 DEF Id
<1>2. \A n : RowsOf(scope, n - 1) # {} => MadeBy(n) \in budgets /\ MadeBy(n).id = n - 1 /\ MadeBy(n).scope = scope
  BY DEF RowsOf
<1>3. G \in [S \X (1 .. N) -> S]
  <2>1. ASSUME NEW e \in S, NEW n \in 1 .. N, RowsOf(scope, n - 1) # {}
        PROVE  Tighter(e, MadeBy(n)) \in S
    <3>1. PICK b \in budgets : b = MadeBy(n)
      BY <1>2, <2>1
    <3>2. Tighter(e, b) \in S
      BY <1>1 DEF Tighter, Ceilings
    <3> QED BY <3>1, <3>2
  <2> HIDE DEF S, MadeBy, N
  <2> QED BY <2>1
<1>4. PICK h : Follows(h, None, G, S, N)
  <2>1. None \in S
    OBVIOUS
  <2> HIDE DEF G, S, N
  <2> QED BY <1>0, <1>3, <2>1, StepsExist
<1>5. h = Body(h)
  <2>1. h \in [0 .. N -> S] /\ h[0] = None /\ \A n \in 1 .. N : h[n] = G[<<h[n - 1], n>>]
    BY <1>4 DEF Follows
  <2>2. ASSUME NEW n \in 1 .. N
        PROVE  h[n] = IF RowsOf(scope, n - 1) = {} THEN h[n - 1] ELSE Tighter(h[n - 1], MadeBy(n))
    <3>1. h[n - 1] \in S
      BY <1>0, <2>1
    <3>2. PICK e \in S : e = h[n - 1]
      BY <3>1
    <3>3. G[<<e, n>>] = IF RowsOf(scope, n - 1) = {} THEN e ELSE Tighter(e, MadeBy(n))
      <4> HIDE DEF S, N, MadeBy
      <4> QED OBVIOUS
    <3> HIDE DEF S, N, G, MadeBy
    <3> QED BY <2>1, <3>2, <3>3
  <2>3. \A n \in 0 .. N : n # 0 => n \in 1 .. N
    BY <1>0
  <2> HIDE DEF S, N, G
  <2> QED BY <2>1, <2>2, <2>3
<1>6. c = Body(c)
  BY <1>5
<1>7. FromRows(scope) = c[N]
  BY DEF FromRows
<1> HIDE DEF c
<1>8. c[0] = None /\ \A n \in 1 .. N :
        c[n] = IF RowsOf(scope, n - 1) = {} THEN c[n - 1] ELSE Tighter(c[n - 1], MadeBy(n))
  <2>1. \A n \in 0 .. N : c[n] = IF n = 0 THEN None
                                 ELSE IF RowsOf(scope, n - 1) = {} THEN c[n - 1]
                                 ELSE Tighter(c[n - 1], MadeBy(n))
    BY <1>6
  <2>2. 0 \in 0 .. N /\ \A n \in 1 .. N : n \in 0 .. N /\ n # 0
    BY <1>0
  <2> HIDE DEF N, MadeBy
  <2> QED BY <2>1, <2>2
<1> HIDE DEF N, MadeBy
<1> DEFINE Bad == {n \in 0 .. N : ~CeilingOf(c[n], FirstRows(scope, n))}
<1>9. Bad = {}
  <2>1. SUFFICES ASSUME Bad # {} PROVE FALSE
    OBVIOUS
  <2>2. Bad \subseteq Nat
    OBVIOUS
  <2>3. \E n \in Bad : \A k \in Bad : n <= k
    <3> HIDE DEF Bad
    <3> QED BY <2>1, <2>2, Minimum
  <2>4. PICK n \in 0 .. N : /\ ~CeilingOf(c[n], FirstRows(scope, n))
                            /\ \A k \in 0 .. N : ~CeilingOf(c[k], FirstRows(scope, k)) => n <= k
    BY <2>3
  <2>5. n # 0
    <3>1. FirstRows(scope, 0) = {}
      BY <1>1 DEF FirstRows
    <3>2. CeilingOf(c[0], FirstRows(scope, 0))
      BY <1>8, <3>1 DEF CeilingOf
    <3> QED BY <2>4, <3>2
  <2>6. n \in 1 .. N /\ n - 1 \in 0 .. N /\ ~(n <= n - 1)
    BY <1>0, <2>5
  <2>7. CeilingOf(c[n - 1], FirstRows(scope, n - 1))
    BY <2>4, <2>6
  <2>8. FirstRows(scope, n) = FirstRows(scope, n - 1) \cup RowsOf(scope, n - 1)
    <3>1. \A b \in budgets : b.id < n <=> (b.id < n - 1 \/ b.id = n - 1)
      BY <1>1, <2>6
    <3> QED BY <3>1 DEF FirstRows, RowsOf
  <2>9. CASE RowsOf(scope, n - 1) = {}
    <3>1. c[n] = c[n - 1] /\ FirstRows(scope, n) = FirstRows(scope, n - 1)
      BY <1>8, <2>6, <2>8, <2>9
    <3> QED BY <2>4, <2>7, <3>1
  <2>10. CASE RowsOf(scope, n - 1) # {}
    <3>1. PICK b \in budgets : b = MadeBy(n) /\ b.id = n - 1 /\ b.scope = scope
      BY <1>2, <2>10 DEF MadeBy
    <3>2. RowsOf(scope, n - 1) = {b}
      BY <3>1 DEF RowsOf, BudgetsApart
    <3>3. c[n] = Tighter(c[n - 1], b)
      BY <1>8, <2>6, <2>10, <3>1
    <3>4. \A d \in FirstRows(scope, n - 1) : d.limit \in Nat /\ d.hard \in BOOLEAN
      BY <1>1 DEF FirstRows
    <3>5. b.limit \in Nat /\ b.hard \in BOOLEAN
      BY <1>1, <3>1
    <3>6. CeilingOf(Tighter(c[n - 1], b), FirstRows(scope, n - 1) \cup {b})
      BY <2>7, <3>4, <3>5, TighterSound
    <3> QED BY <2>4, <2>8, <3>2, <3>3, <3>6
  <2> QED BY <2>9, <2>10
<1>10. N \in 0 .. N /\ N = MaxCalls + 1
  BY <1>0 DEF N
<1>11. CeilingOf(c[N], FirstRows(scope, N))
  BY <1>9, <1>10
<1>12. FirstRows(scope, N) = {b \in budgets : b.scope = scope}
  <2>1. \A b \in budgets : b.id < N
    BY <1>0, <1>1, <1>10
  <2> QED BY <2>1 DEF FirstRows
<1> QED BY <1>7, <1>11, <1>12

\* TightestCap
LEMMA TightestCapAlways ==
  ASSUME BudgetsApart
  PROVE  TightestCap
<1> SUFFICES ASSUME NEW s
             PROVE  LET of  == {b \in budgets : b.scope = s}
                        low == {b \in of : \A o \in of : b.limit <= o.limit}
                    IN \A b \in low : FromRows(s) = [limit |-> b.limit, hard |-> \E o \in low : o.hard]
  BY DEF TightestCap
<1>a. PICK of : of = {b \in budgets : b.scope = s}
  OBVIOUS
<1>b. PICK low : low = {b \in of : \A o \in of : b.limit <= o.limit}
  OBVIOUS
<1> SUFFICES ASSUME NEW b \in low
             PROVE  FromRows(s) = [limit |-> b.limit, hard |-> \E o \in low : o.hard]
  BY <1>a, <1>b
<1>1. PICK c : c = FromRows(s) /\ CeilingOf(c, of)
  BY <1>a, FromRowsSound
<1>2. \A d \in of : d.limit \in Nat /\ d.hard \in BOOLEAN
  <2>1. \A d \in budgets : d.limit \in Cap /\ d.hard \in BOOLEAN
    BY DEF BudgetsApart
  <2>2. \A v \in Cap : v \in Nat
    BY ProjectsAssumption
  <2> QED BY <1>a, <2>1, <2>2
<1>3. /\ c \in Ceilings /\ (\A d \in of : c.limit <= d.limit) /\ (\E d \in of : c.limit = d.limit)
      /\ c.hard = \E d \in of : d.limit = c.limit /\ d.hard
  BY <1>1, <1>b DEF CeilingOf
<1>4. c.limit = b.limit
  <2>1. c.limit \in Nat
    BY <1>3 DEF Ceilings
  <2> QED BY <1>2, <1>3, <1>b, <2>1
<1>5. \A o \in of : o \in low <=> o.limit = c.limit
  BY <1>2, <1>3, <1>4, <1>b
<1>6. c.hard = \E o \in low : o.hard
  BY <1>3, <1>5, <1>b
<1>7. c = [limit |-> c.limit, hard |-> c.hard]
  BY <1>3 DEF Ceilings
<1> QED BY <1>1, <1>4, <1>6, <1>7

-----------------------------------------------------------------------------
(* The calls that set something up, and the log of them                    *)

\* A call that sets something up: before its change commits, and after.
Pending   == {"plan", "team", "person", "clear", "wait", "write"}
Committed == {"forget", "audit"}

SetUpOps == Creates \cup Deletes \cup Rosters \cup Updates \cup {"test_provider"}

SetUpAsk ==
  [op : SetUpOps, of : Id, serial : Serial, name : Name \cup Provider \cup {None},
   whom : Person \cup {None}, role : {"lead", "member", None}, default : BOOLEAN,
   scope : Scopes \cup {None}, limit : Cap \cup {None}, hard : BOOLEAN]

\* What it asks for fits what it does.
Fits(a) ==
  /\ a.op \in {"create_team", "update_team"} => a.name \in Name
  /\ a.op = "create_provider" => a.name \in Provider
  /\ a.op = "create_budget" => a.scope \in Scopes /\ a.limit \in Cap

SetUpTyped ==
  /\ pc \in [Call -> {"idle"} \cup Pending \cup Committed]
  /\ ask \in [Call -> SetUpAsk \cup {None}]
  /\ begun \in 0 .. MaxCalls
  /\ \A c \in Call : pc[c] # "idle" => ask[c] \in SetUpAsk /\ Fits(ask[c])

CredentialsTyped ==
  credentials \subseteq [id : Id, provider : Provider, default : BOOLEAN, ok : BOOLEAN \cup {None}]

\* Every call has a number of its own.
OwnSerials ==
  /\ \A c \in Call : pc[c] # "idle" => ask[c].serial \in 1 .. begun
  /\ \A c, d \in Call : pc[c] # "idle" /\ pc[d] # "idle" /\ c # d => ask[c].serial # ask[d].serial

\* No call under way before its change has the number x.
Used(x) == x <= begun /\ \A c \in Call : pc[c] \in Pending => ask[c].serial # x

\* A row's creation has committed.
RowsMade == \A r \in Rowed : r.of \in Nat /\ Used(r.of)

\* Its entry is there, or about to be written, or was lost.
RowsTold ==
  \A r \in Rowed :
    \/ r.of \in lost \cup {0}
    \/ \E e \in log : e.op = r.op /\ e.of = r.of
    \/ \E c \in Call : pc[c] \in Committed /\ ask[c].op = r.op /\ ask[c].serial = r.of

\* The creation that a deletion undoes.
Undoes(op) ==
  IF op = "delete_team" THEN "create_team" ELSE IF op = "delete_provider" THEN "create_provider"
  ELSE IF op = "delete_policy" THEN "create_policy" ELSE "create_budget"

\* What has been deleted does not come back: its number is spent.
Gone(op, x) == x \in Nat /\ Used(x) /\ [op |-> Undoes(op), of |-> x] \notin Rowed

DeletedStays ==
  /\ \A e \in log : e.op \in Deletes => Gone(e.op, e.of)
  /\ \A c \in Call : pc[c] \in Committed /\ ask[c].op \in Deletes => Gone(ask[c].op, ask[c].of)

\* No two calls delete one row.
DeletedOnce ==
  /\ \A d, e \in log : (d.op \in Deletes /\ d.op = e.op /\ d.of = e.of) => d.call = e.call
  /\ \A c \in Call, e \in log :
       pc[c] \in Committed /\ ask[c].op \in Deletes => e.op # ask[c].op \/ e.of # ask[c].of
  /\ \A c, d \in Call :
       pc[c] \in Committed /\ pc[d] \in Committed /\ c # d /\ ask[c].op \in Deletes
         => ask[d].op # ask[c].op \/ ask[d].of # ask[c].of

AuditInv == SetUpTyped /\ OwnSerials /\ RowsMade /\ RowsTold /\ DeletedStays /\ DeletedOnce

LEMMA Statements ==
  /\ "idle" \notin Pending \cup Committed /\ Pending \cap Committed = {}
  /\ "write" \in Pending /\ "plan" \in Pending /\ "team" \in Pending /\ "person" \in Pending
  /\ "clear" \in Pending /\ "wait" \in Pending /\ "forget" \in Committed /\ "audit" \in Committed
BY DEF Pending, Committed

LEMMA OpsApart ==
  /\ Creates = {"create_team", "create_provider", "create_policy", "create_budget"}
  /\ Creates \cap Deletes = {}
  /\ \A op \in Deletes : Undoes(op) \in Creates
BY DEF Creates, Feature, Deletes, Undoes

\* What Rowed has of each table.
LEMMA RowedIs ==
  /\ \A x : [op |-> "create_team", of |-> x] \in Rowed <=> \E t \in teams : t.id = x
  /\ \A x : [op |-> "create_provider", of |-> x] \in Rowed <=> \E k \in credentials : k.id = x
  /\ \A x : [op |-> "create_policy", of |-> x] \in Rowed <=> x \in policies
  /\ \A x : [op |-> "create_budget", of |-> x] \in Rowed <=> \E b \in budgets : b.id = x
  /\ \A r \in Rowed : r = [op |-> r.op, of |-> r.of] /\ r.op \in Creates
<1>1. \A x : [op |-> "create_team", of |-> x] \in Rowed <=> \E t \in teams : t.id = x
  BY DEF Rowed
<1>2. \A x : [op |-> "create_provider", of |-> x] \in Rowed <=> \E k \in credentials : k.id = x
  BY DEF Rowed
<1>3. \A x : [op |-> "create_policy", of |-> x] \in Rowed <=> x \in policies
  BY DEF Rowed
<1>4. \A x : [op |-> "create_budget", of |-> x] \in Rowed <=> \E b \in budgets : b.id = x
  BY DEF Rowed
<1>5. \A r \in Rowed : r = [op |-> r.op, of |-> r.of] /\ r.op \in Creates
  BY OpsApart DEF Rowed
<1> QED BY <1>1, <1>2, <1>3, <1>4, <1>5

\* Numbers that are spent stay so when calls go on or answer.
LEMMA StaysUsed ==
  ASSUME \A d \in Call : pc'[d] \in Pending => pc[d] \in Pending /\ ask'[d] = ask[d], begun' = begun
  PROVE  \A x : Used(x) => Used(x)'
BY DEF Used

\* A call answers, whether it had changed something or not.
LEMMA EndsKeeps ==
  ASSUME AuditInv, NEW c \in Call, pc[c] # "idle",
         pc' = [pc EXCEPT ![c] = "idle"], ask' = [ask EXCEPT ![c] = None],
         Rowed' \subseteq Rowed, log' = log, begun' = begun, lost \subseteq lost',
         pc[c] \in Committed => ask[c].serial \in lost'
  PROVE  AuditInv'
<1>0. /\ pc \in [Call -> {"idle"} \cup Pending \cup Committed] /\ ask \in [Call -> SetUpAsk \cup {None}]
      /\ begun \in 0 .. MaxCalls
      /\ \A d \in Call : pc[d] # "idle" => ask[d] \in SetUpAsk /\ Fits(ask[d])
  BY DEF AuditInv, SetUpTyped
<1>1. /\ pc'[c] = "idle" /\ \A d \in Call : d # c => pc'[d] = pc[d] /\ ask'[d] = ask[d]
  BY <1>0
<1>2. SetUpTyped'
  BY <1>0, <1>1 DEF SetUpTyped, Fits
<1>3. OwnSerials'
  BY <1>1 DEF AuditInv, OwnSerials
<1>4. \A x : Used(x) => Used(x)'
  BY <1>1, StaysUsed, Statements
<1>5. RowsMade'
  BY <1>4 DEF AuditInv, RowsMade
<1>6. RowsTold'
  <2> SUFFICES ASSUME NEW r \in Rowed'
               PROVE  \/ r.of \in lost' \cup {0}
                      \/ \E e \in log' : e.op = r.op /\ e.of = r.of
                      \/ \E d \in Call : pc'[d] \in Committed /\ ask'[d].op = r.op /\ ask'[d].serial = r.of
    BY DEF RowsTold
  <2>1. \/ r.of \in lost \cup {0}
        \/ \E e \in log : e.op = r.op /\ e.of = r.of
        \/ \E d \in Call : pc[d] \in Committed /\ ask[d].op = r.op /\ ask[d].serial = r.of
    BY DEF AuditInv, RowsTold
  <2>2. ASSUME NEW d \in Call, pc[d] \in Committed, ask[d].op = r.op, ask[d].serial = r.of
        PROVE  \/ r.of \in lost'
               \/ pc'[d] \in Committed /\ ask'[d].op = r.op /\ ask'[d].serial = r.of
    BY <1>1, <2>2
  <2> QED BY <2>1, <2>2
<1>7. DeletedStays'
  <2>1. \A op, x : Gone(op, x) => Gone(op, x)'
    BY <1>4 DEF Gone
  <2> QED BY <1>1, <2>1, Statements DEF AuditInv, DeletedStays
<1>8. DeletedOnce'
  BY <1>1, Statements DEF AuditInv, DeletedOnce
<1> QED BY <1>2, <1>3, <1>5, <1>6, <1>7, <1>8 DEF AuditInv

\* A call goes on to another statement on its side of the commit.
LEMMA MovesKeeps ==
  ASSUME AuditInv, NEW c \in Call, NEW to, pc' = [pc EXCEPT ![c] = to],
         \/ pc[c] \in Pending /\ to \in Pending
         \/ pc[c] \in Committed /\ to \in Committed,
         UNCHANGED <<ask, log, begun, lost>>, Rowed' = Rowed
  PROVE  AuditInv'
<1>0. /\ pc \in [Call -> {"idle"} \cup Pending \cup Committed] /\ ask \in [Call -> SetUpAsk \cup {None}]
      /\ begun \in 0 .. MaxCalls
      /\ \A d \in Call : pc[d] # "idle" => ask[d] \in SetUpAsk /\ Fits(ask[d])
  BY DEF AuditInv, SetUpTyped
<1>1. /\ pc' \in [Call -> {"idle"} \cup Pending \cup Committed]
      /\ \A d \in Call : /\ pc'[d] \in Pending <=> pc[d] \in Pending
                         /\ pc'[d] \in Committed <=> pc[d] \in Committed
                         /\ pc'[d] = "idle" <=> pc[d] = "idle"
  BY <1>0, Statements
<1>2. SetUpTyped'
  BY <1>0, <1>1 DEF SetUpTyped, Fits
<1>3. OwnSerials'
  BY <1>1 DEF AuditInv, OwnSerials
<1>4. \A x : Used(x) => Used(x)'
  BY <1>1, StaysUsed
<1>5. RowsMade' /\ RowsTold'
  BY <1>1, <1>4 DEF AuditInv, RowsMade, RowsTold
<1>6. \A op, x : Gone(op, x) => Gone(op, x)'
  BY <1>4 DEF Gone
<1>7. DeletedStays' /\ DeletedOnce'
  BY <1>1, <1>6 DEF AuditInv, DeletedStays, DeletedOnce
<1> QED BY <1>2, <1>3, <1>5, <1>7 DEF AuditInv

\* The change of a call commits.
LEMMA CommitsKeeps ==
  ASSUME AuditInv, NEW c \in Call, NEW to \in Committed, pc[c] = "write", pc' = [pc EXCEPT ![c] = to],
         UNCHANGED <<ask, log, begun, lost>>,
         Rowed' \subseteq Rowed \cup {[op |-> ask[c].op, of |-> ask[c].serial]},
         ask[c].op \notin Creates => Rowed' \subseteq Rowed,
         ask[c].op \in Deletes => [op |-> Undoes(ask[c].op), of |-> ask[c].of] \in Rowed \ Rowed'
  PROVE  AuditInv'
<1>0. /\ pc \in [Call -> {"idle"} \cup Pending \cup Committed] /\ ask \in [Call -> SetUpAsk \cup {None}]
      /\ begun \in 0 .. MaxCalls
      /\ \A d \in Call : pc[d] # "idle" => ask[d] \in SetUpAsk /\ Fits(ask[d])
  BY DEF AuditInv, SetUpTyped
<1>1. /\ pc' \in [Call -> {"idle"} \cup Pending \cup Committed]
      /\ pc'[c] = to /\ pc'[c] \notin Pending /\ pc'[c] # "idle" /\ pc[c] \in Pending /\ pc[c] # "idle"
      /\ \A d \in Call : d # c => pc'[d] = pc[d]
  BY <1>0, Statements
<1>2. SetUpTyped'
  BY <1>0, <1>1 DEF SetUpTyped, Fits
<1>3. OwnSerials'
  BY <1>1 DEF AuditInv, OwnSerials
<1>4. \A x : Used(x) => Used(x)'
  BY <1>1, StaysUsed
<1>5. Used(ask[c].serial)' /\ ask[c].serial \in Nat
  <2>1. ask[c].serial \in 1 .. begun
    BY <1>1 DEF AuditInv, OwnSerials
  <2>2. \A d \in Call : pc'[d] \in Pending => ask[d].serial # ask[c].serial
    BY <1>1, Statements DEF AuditInv, OwnSerials
  <2> QED BY <1>0, <2>1, <2>2 DEF Used
<1>6. RowsMade'
  <2> SUFFICES ASSUME NEW r \in Rowed' PROVE r.of \in Nat /\ Used(r.of)'
    BY DEF RowsMade
  <2>1. CASE r \in Rowed
    BY <1>4, <2>1 DEF AuditInv, RowsMade
  <2>2. CASE r = [op |-> ask[c].op, of |-> ask[c].serial]
    BY <1>5, <2>2
  <2> QED BY <2>1, <2>2
<1>7. RowsTold'
  <2> SUFFICES ASSUME NEW r \in Rowed'
               PROVE  \/ r.of \in lost \cup {0}
                      \/ \E e \in log : e.op = r.op /\ e.of = r.of
                      \/ \E d \in Call : pc'[d] \in Committed /\ ask[d].op = r.op /\ ask[d].serial = r.of
    BY DEF RowsTold
  <2>1. CASE r \in Rowed
    <3>1. \A d \in Call : pc[d] \in Committed => pc'[d] \in Committed
      BY <1>1
    <3> QED BY <2>1, <3>1 DEF AuditInv, RowsTold
  <2>2. CASE r = [op |-> ask[c].op, of |-> ask[c].serial]
    BY <1>1, <2>2
  <2> QED BY <2>1, <2>2
<1>8. ASSUME NEW op \in Deletes, NEW x, Gone(op, x) PROVE Gone(op, x)'
  <2>1. [op |-> Undoes(op), of |-> x] \notin Rowed /\ x \in Nat /\ Used(x)
    BY <1>8 DEF Gone
  <2>2. x # ask[c].serial
    BY <1>1, <2>1 DEF Used
  <2>3. [op |-> Undoes(op), of |-> x] # [op |-> ask[c].op, of |-> ask[c].serial]
    BY <2>2
  <2> QED BY <1>4, <2>1, <2>3 DEF Gone
<1>9. ASSUME ask[c].op \in Deletes
      PROVE  Gone(ask[c].op, ask[c].of)' /\ ~Gone(ask[c].op, ask[c].of)
  <2> DEFINE r == [op |-> Undoes(ask[c].op), of |-> ask[c].of]
  <2>1. r \in Rowed /\ r \notin Rowed' /\ r.of = ask[c].of
    BY <1>9
  <2>2. r.of \in Nat /\ Used(r.of)
    BY <2>1 DEF AuditInv, RowsMade
  <2>3. ask[c].of \in Nat /\ Used(ask[c].of)'
    BY <1>4, <2>1, <2>2
  <2> QED BY <2>1, <2>3 DEF Gone
<1>10. DeletedStays'
  BY <1>1, <1>8, <1>9 DEF AuditInv, DeletedStays
<1>11. DeletedOnce'
  <2>1. \A d, e \in log : (d.op \in Deletes /\ d.op = e.op /\ d.of = e.of) => d.call = e.call
    BY DEF AuditInv, DeletedOnce
  <2>2. ASSUME NEW d \in Call, NEW e \in log, pc'[d] \in Committed, ask[d].op \in Deletes
        PROVE  e.op # ask[d].op \/ e.of # ask[d].of
    <3>1. CASE d = c
      BY <1>9, <2>2, <3>1 DEF AuditInv, DeletedStays
    <3>2. CASE d # c
      BY <1>1, <2>2, <3>2 DEF AuditInv, DeletedOnce
    <3> QED BY <3>1, <3>2
  <2>3. ASSUME NEW d \in Call, NEW b \in Call, pc'[d] \in Committed, pc'[b] \in Committed, d # b,
               ask[d].op \in Deletes
        PROVE  ask[b].op # ask[d].op \/ ask[b].of # ask[d].of
    <3>1. CASE d = c
      <4>1. pc[b] \in Committed
        BY <1>1, <2>3, <3>1
      <4> QED BY <1>9, <2>3, <3>1, <4>1 DEF AuditInv, DeletedStays
    <3>2. CASE b = c
      <4>1. pc[d] \in Committed
        BY <1>1, <2>3, <3>2
      <4> QED BY <1>9, <2>3, <3>2, <4>1 DEF AuditInv, DeletedStays
    <3>3. CASE d # c /\ b # c
      BY <1>1, <2>3, <3>3 DEF AuditInv, DeletedOnce
    <3> QED BY <3>1, <3>2, <3>3
  <2> QED BY <2>1, <2>2, <2>3 DEF DeletedOnce
<1> QED BY <1>2, <1>3, <1>6, <1>7, <1>10, <1>11 DEF AuditInv

\* The entry is written.
LEMMA AuditKeeps ==
  ASSUME AuditInv, NEW c \in Call, Audit(c)
  PROVE  AuditInv'
<1> DEFINE new == [op |-> ask[c].op, call |-> ask[c].serial,
                   of |-> IF ask[c].op \in Creates THEN ask[c].serial ELSE ask[c].of]
<1>a. /\ pc[c] = "audit" /\ pc' = [pc EXCEPT ![c] = "idle"] /\ ask' = [ask EXCEPT ![c] = None]
      /\ log' = log \cup {new} /\ begun' = begun /\ lost' = lost
      /\ UNCHANGED <<teams, credentials, policies, budgets>>
  BY DEF Audit, Goes, Answered, Rest, Rows
<1>b. Rowed' = Rowed
  BY <1>a DEF Rowed
<1>0. /\ pc \in [Call -> {"idle"} \cup Pending \cup Committed] /\ ask \in [Call -> SetUpAsk \cup {None}]
      /\ begun \in 0 .. MaxCalls
      /\ \A d \in Call : pc[d] # "idle" => ask[d] \in SetUpAsk /\ Fits(ask[d])
  BY DEF AuditInv, SetUpTyped
<1>1. /\ pc'[c] = "idle" /\ pc[c] \in Committed
      /\ \A d \in Call : d # c => pc'[d] = pc[d] /\ ask'[d] = ask[d]
  BY <1>a, <1>0, Statements
<1>2. SetUpTyped'
  BY <1>a, <1>0, <1>1 DEF SetUpTyped, Fits
<1>3. OwnSerials'
  BY <1>a, <1>1 DEF AuditInv, OwnSerials
<1>4. \A x : Used(x) => Used(x)'
  BY <1>a, <1>1, StaysUsed, Statements
<1>5. RowsMade'
  BY <1>4, <1>b DEF AuditInv, RowsMade
<1>c. new.op = ask[c].op /\ (ask[c].op \in Creates => new.of = ask[c].serial)
      /\ (ask[c].op \notin Creates => new.of = ask[c].of)
  OBVIOUS
<1> HIDE DEF new
<1>6. RowsTold'
  <2> SUFFICES ASSUME NEW r \in Rowed
               PROVE  \/ r.of \in lost \cup {0}
                      \/ \E e \in log' : e.op = r.op /\ e.of = r.of
                      \/ \E d \in Call : pc'[d] \in Committed /\ ask'[d].op = r.op /\ ask'[d].serial = r.of
    BY <1>a, <1>b DEF RowsTold
  <2>1. \/ r.of \in lost \cup {0}
        \/ \E e \in log : e.op = r.op /\ e.of = r.of
        \/ \E d \in Call : pc[d] \in Committed /\ ask[d].op = r.op /\ ask[d].serial = r.of
    BY DEF AuditInv, RowsTold
  <2>2. ASSUME NEW d \in Call, pc[d] \in Committed, ask[d].op = r.op, ask[d].serial = r.of
        PROVE  \/ \E e \in log' : e.op = r.op /\ e.of = r.of
               \/ pc'[d] \in Committed /\ ask'[d].op = r.op /\ ask'[d].serial = r.of
    <3>1. CASE d = c
      <4>1. r.op \in Creates
        BY RowedIs
      <4>2. new.op = r.op /\ new.of = r.of
        BY <1>c, <2>2, <3>1, <4>1
      <4> QED BY <1>a, <4>2
    <3>2. CASE d # c
      BY <1>1, <2>2, <3>2
    <3> QED BY <3>1, <3>2
  <2> QED BY <1>a, <2>1, <2>2
<1>7. \A op, x : Gone(op, x) => Gone(op, x)'
  BY <1>4, <1>b DEF Gone
<1>8. DeletedStays'
  <2>1. ASSUME NEW e \in log', e.op \in Deletes PROVE Gone(e.op, e.of)'
    <3>1. CASE e \in log
      BY <1>7, <2>1, <3>1 DEF AuditInv, DeletedStays
    <3>2. CASE e = new
      <4>1. ask[c].op \in Deletes /\ e.op = ask[c].op /\ e.of = ask[c].of
        BY <1>c, <2>1, <3>2, OpsApart
      <4> QED BY <1>1, <1>7, <4>1 DEF AuditInv, DeletedStays
    <3> QED BY <1>a, <3>1, <3>2
  <2>2. ASSUME NEW d \in Call, pc'[d] \in Committed, ask'[d].op \in Deletes
        PROVE  Gone(ask[d].op, ask[d].of)'
    <3>1. d # c /\ pc[d] \in Committed /\ ask'[d] = ask[d]
      BY <1>1, <2>2, Statements
    <3>2. Gone(ask[d].op, ask[d].of)
      BY <2>2, <3>1 DEF AuditInv, DeletedStays
    <3>3. \A op, x : op = ask[d].op /\ x = ask[d].of => Gone(op, x)'
      BY <1>7, <3>2
    <3> QED BY <3>1, <3>3
  <2> QED BY <2>1, <2>2 DEF DeletedStays
<1>9. DeletedOnce'
  <2>1. ASSUME NEW e \in log, new.op \in Deletes PROVE e.op # new.op \/ e.of # new.of
    <3>1. ask[c].op \in Deletes /\ new.op = ask[c].op /\ new.of = ask[c].of
      BY <1>c, <2>1, OpsApart
    <3> QED BY <1>1, <3>1 DEF AuditInv, DeletedOnce
  <2>2. ASSUME NEW d \in log', NEW e \in log', d.op \in Deletes, d.op = e.op, d.of = e.of
        PROVE  d.call = e.call
    <3>1. \A a, b \in log : (a.op \in Deletes /\ a.op = b.op /\ a.of = b.of) => a.call = b.call
      BY DEF AuditInv, DeletedOnce
    <3> QED BY <1>a, <2>1, <2>2, <3>1
  <2>3. ASSUME NEW d \in Call, NEW e \in log', pc'[d] \in Committed, ask'[d].op \in Deletes
        PROVE  e.op # ask'[d].op \/ e.of # ask'[d].of
    <3>1. d # c /\ pc[d] \in Committed /\ ask[d].op \in Deletes /\ ask'[d] = ask[d]
      BY <1>1, <2>3, Statements
    <3>2. CASE e \in log
      BY <3>1, <3>2 DEF AuditInv, DeletedOnce
    <3>3. CASE e = new /\ e.op = ask[d].op
      <4>1. e.of = ask[c].of /\ ask[c].op = ask[d].op
        BY <1>c, <3>1, <3>3, OpsApart
      <4> QED BY <1>1, <3>1, <4>1 DEF AuditInv, DeletedOnce
    <3> QED BY <1>a, <3>1, <3>2, <3>3
  <2>4. \A a, b \in Call :
          pc'[a] \in Committed /\ pc'[b] \in Committed /\ a # b /\ ask'[a].op \in Deletes
            => ask'[b].op # ask'[a].op \/ ask'[b].of # ask'[a].of
    BY <1>1, Statements DEF AuditInv, DeletedOnce
  <2> QED BY <2>2, <2>3, <2>4 DEF DeletedOnce
<1> QED BY <1>2, <1>3, <1>5, <1>6, <1>8, <1>9 DEF AuditInv

\* What is asked for fits, and its number is the next one.
LEMMA AskedTyped ==
  ASSUME begun \in 0 .. MaxCalls, begun < MaxCalls, NEW op \in SetUpOps, NEW a \in AskedFor(op)
  PROVE  a \in SetUpAsk /\ Fits(a) /\ a.serial = begun + 1
<1>0. MaxCalls \in Nat /\ begun \in Nat
  BY OrganisationAssumption
<1>1. begun + 1 \in Serial /\ {0, 1} \subseteq Id /\ begun + 1 \in Nat
  BY <1>0 DEF Serial, Id
<1>2. Cap \subseteq Nat /\ Capped \subseteq [scope : Scopes, limit : Cap, hard : BOOLEAN]
  BY ProjectsAssumption
<1>3. /\ a.op = op /\ a.serial = begun + 1 /\ a.of \in {0, 1}
      /\ a.name \in IF op = "create_provider" THEN Provider
                    ELSE Carried(op, {"create_team", "update_team"}, Name, None)
      /\ a.whom \in Carried(op, Rosters, Person, None)
      /\ a.role \in Carried(op, {"add_team_member"}, {"lead", "member"}, None)
      /\ a.default \in Carried(op, {"create_provider"}, BOOLEAN, FALSE)
      /\ a.scope \in Carried(op, {"create_budget"}, {b.scope : b \in Capped}, None)
      /\ a.limit \in Carried(op, {"create_budget"}, Cap, None)
      /\ a.hard \in Carried(op, {"create_budget"}, BOOLEAN, FALSE)
      /\ a = [op |-> a.op, of |-> a.of, serial |-> a.serial, name |-> a.name, whom |-> a.whom,
              role |-> a.role, default |-> a.default, scope |-> a.scope, limit |-> a.limit, hard |-> a.hard]
  <2> HIDE DEF SetUpOps
  <2> QED BY DEF AskedFor
<1>s. \A x \in {b.scope : b \in Capped} : x \in Scopes
  BY <1>2
<1> HIDE DEF SetUpOps
<1>4. /\ a.name \in Name \cup Provider \cup {None} /\ a.whom \in Person \cup {None}
      /\ a.role \in {"lead", "member", None} /\ a.scope \in Scopes \cup {None}
      /\ a.limit \in Cap \cup {None} /\ a.default \in BOOLEAN /\ a.hard \in BOOLEAN
  BY <1>3, <1>s DEF Carried
<1>5. a \in SetUpAsk
  BY <1>1, <1>3, <1>4 DEF SetUpAsk
<1>6. Fits(a)
  BY <1>3, <1>s DEF Fits, Carried
<1> QED BY <1>3, <1>5, <1>6

LEMMA FirstStatements ==
  ASSUME NEW a
  PROVE  AfterPlan(a) \in Pending /\ AfterTeam(a) \in Pending
BY DEF AfterPlan, AfterTeam, Pending

\* A call is received.
LEMMA ReceiveKeeps ==
  ASSUME AuditInv, NEW c \in Call, NEW p, NEW op \in SetUpOps, NEW a \in AskedFor(op), Receive(c, p, a)
  PROVE  AuditInv'
<1>0. /\ pc \in [Call -> {"idle"} \cup Pending \cup Committed] /\ ask \in [Call -> SetUpAsk \cup {None}]
      /\ begun \in 0 .. MaxCalls /\ begun \in Nat /\ MaxCalls \in Nat
      /\ \A d \in Call : pc[d] # "idle" => ask[d] \in SetUpAsk /\ Fits(ask[d])
  BY OrganisationAssumption DEF AuditInv, SetUpTyped
<1>1. PICK to : /\ to \in Pending /\ pc' = [pc EXCEPT ![c] = to] /\ pc[c] = "idle"
                /\ begun < MaxCalls /\ begun' = begun + 1 /\ ask' = [ask EXCEPT ![c] = a]
                /\ log' = log /\ lost' = lost /\ Rowed' = Rowed
  BY FirstStatements, Statements DEF Receive, Goes, projectVars, Rowed
<1>2. a \in SetUpAsk /\ Fits(a) /\ a.serial = begun + 1
  BY <1>0, <1>1, AskedTyped
<1>3. /\ pc'[c] \in Pending /\ pc'[c] \notin Committed /\ ask'[c] = a
      /\ \A d \in Call : d # c => pc'[d] = pc[d] /\ ask'[d] = ask[d]
  BY <1>0, <1>1, Statements
<1>4. SetUpTyped'
  <2>1. pc' \in [Call -> {"idle"} \cup Pending \cup Committed] /\ ask' \in [Call -> SetUpAsk \cup {None}]
    BY <1>0, <1>1, <1>2
  <2>2. begun' \in 0 .. MaxCalls
    BY <1>0, <1>1
  <2>3. \A d \in Call : pc'[d] # "idle" => ask'[d] \in SetUpAsk /\ Fits(ask'[d])
    BY <1>0, <1>2, <1>3
  <2> QED BY <2>1, <2>2, <2>3 DEF SetUpTyped, Fits
<1>5. OwnSerials'
  <2>1. \A d \in Call : pc'[d] # "idle" => ask'[d].serial \in 1 .. begun'
    BY <1>0, <1>1, <1>2, <1>3 DEF AuditInv, OwnSerials
  <2>2. \A d \in Call : pc'[d] # "idle" /\ d # c => ask'[d].serial # ask'[c].serial
    BY <1>0, <1>2, <1>3 DEF AuditInv, OwnSerials
  <2>3. \A b, d \in Call : pc'[b] # "idle" /\ pc'[d] # "idle" /\ b # c /\ d # c /\ b # d =>
          ask'[b].serial # ask'[d].serial
    BY <1>3 DEF AuditInv, OwnSerials
  <2> QED BY <2>1, <2>2, <2>3 DEF OwnSerials
<1>6. \A x \in Nat : Used(x) => Used(x)'
  BY <1>0, <1>1, <1>2, <1>3 DEF Used
<1>7. RowsMade'
  BY <1>1, <1>6 DEF AuditInv, RowsMade
<1>8. RowsTold'
  <2>1. \A d \in Call : pc[d] \in Committed => pc'[d] \in Committed /\ ask'[d] = ask[d]
    BY <1>1, <1>3, Statements
  <2> QED BY <1>1, <2>1 DEF AuditInv, RowsTold
<1>9. \A o, x : Gone(o, x) => Gone(o, x)'
  BY <1>1, <1>6 DEF Gone
<1>10. DeletedStays'
  <2>1. \A e \in log : e.op \in Deletes => Gone(e.op, e.of)'
    BY <1>9 DEF AuditInv, DeletedStays
  <2>2. ASSUME NEW d \in Call, pc'[d] \in Committed, ask'[d].op \in Deletes
        PROVE  Gone(ask[d].op, ask[d].of)'
    <3>1. pc[d] \in Committed /\ ask'[d] = ask[d]
      BY <1>3, <2>2
    <3>2. Gone(ask[d].op, ask[d].of)
      BY <2>2, <3>1 DEF AuditInv, DeletedStays
    <3>3. \A o, x : o = ask[d].op /\ x = ask[d].of => Gone(o, x)'
      BY <1>9, <3>2
    <3> QED BY <3>1, <3>3
  <2> QED BY <1>1, <2>1, <2>2 DEF DeletedStays
<1>11. DeletedOnce'
  <2>1. \A d \in Call : pc'[d] \in Committed => pc[d] \in Committed /\ ask'[d] = ask[d]
    BY <1>3
  <2> QED BY <1>1, <2>1 DEF AuditInv, DeletedOnce
<1> QED BY <1>4, <1>5, <1>7, <1>8, <1>10, <1>11 DEF AuditInv

Tables == TeamsApart /\ BudgetsApart /\ CredentialsTyped

SetUpHolds == Tables /\ AuditInv

\* The number of a call whose change is not made is no row's.
LEMMA Fresh ==
  ASSUME AuditInv, NEW c \in Call, pc[c] = "write"
  PROVE  /\ \A t \in teams : t.id # ask[c].serial
         /\ \A b \in budgets : b.id # ask[c].serial
         /\ ask[c].serial \in Id /\ ask[c] \in SetUpAsk /\ Fits(ask[c])
<1>1. ask[c] \in SetUpAsk /\ Fits(ask[c]) /\ pc[c] \in Pending /\ pc[c] # "idle"
  BY Statements DEF AuditInv, SetUpTyped
<1>2. \A r \in Rowed : r.of # ask[c].serial
  BY <1>1 DEF AuditInv, RowsMade, Used
<1>3. \A t \in teams : t.id # ask[c].serial
  <2> TAKE t \in teams
  <2>1. [op |-> "create_team", of |-> t.id] \in Rowed
    BY RowedIs
  <2> QED BY <1>2, <2>1
<1>4. \A b \in budgets : b.id # ask[c].serial
  <2> TAKE b \in budgets
  <2>1. [op |-> "create_budget", of |-> b.id] \in Rowed
    BY RowedIs
  <2> QED BY <1>2, <2>1
<1>5. ask[c].serial \in Serial /\ MaxCalls \in Nat
  BY <1>1, OrganisationAssumption DEF SetUpAsk
<1>6. ask[c].serial \in Id
  BY <1>5 DEF Serial, Id
<1> QED BY <1>1, <1>3, <1>4, <1>6

\* A statement commits, or answers and leaves the tables alone.
LEMMA CommitsInv ==
  ASSUME AuditInv, NEW c \in Call, pc[c] = "write", NEW done \in BOOLEAN, Commits(c, done),
         Rowed' \subseteq Rowed \cup {[op |-> ask[c].op, of |-> ask[c].serial]},
         ask[c].op \notin Creates \/ ~done => Rowed' \subseteq Rowed,
         done /\ ask[c].op \in Deletes => [op |-> Undoes(ask[c].op), of |-> ask[c].of] \in Rowed \ Rowed'
  PROVE  AuditInv'
<1>1. CASE done
  <2>1. PICK to : to \in Committed /\ pc' = [pc EXCEPT ![c] = to]
    BY <1>1, Statements DEF Commits, Goes, After
  <2>2. UNCHANGED <<ask, log, begun, lost>>
    BY <1>1 DEF Commits, Rest
  <2> QED BY <1>1, <2>1, <2>2, CommitsKeeps
<1>2. CASE ~done
  <2>1. /\ pc' = [pc EXCEPT ![c] = "idle"] /\ ask' = [ask EXCEPT ![c] = None]
        /\ log' = log /\ begun' = begun /\ lost' = lost
    BY <1>2 DEF Commits, Goes, Answered, Rest
  <2>2. pc[c] # "idle" /\ pc[c] \notin Committed /\ lost \subseteq lost'
    BY <2>1, Statements
  <2> QED BY <1>2, <2>1, <2>2, EndsKeeps
<1> QED BY <1>1, <1>2

\* Rows of the tables come from rows that were there, or from one more.
LEMMA RowedGrows ==
  ASSUME NEW x,
         \A t \in teams' : (\E u \in teams : u.id = t.id) \/ x = [op |-> "create_team", of |-> t.id],
         \A k \in credentials' :
           (\E j \in credentials : j.id = k.id) \/ x = [op |-> "create_provider", of |-> k.id],
         \A i \in policies' : i \in policies \/ x = [op |-> "create_policy", of |-> i],
         \A b \in budgets' : (\E d \in budgets : d.id = b.id) \/ x = [op |-> "create_budget", of |-> b.id]
  PROVE  Rowed' \subseteq Rowed \cup {x}
<1> SUFFICES ASSUME NEW r \in Rowed' PROVE r \in Rowed \/ r = x
  OBVIOUS
<1>1. CASE \E t \in teams' : r = [op |-> "create_team", of |-> t.id]
  BY <1>1, RowedIs
<1>2. CASE \E k \in credentials' : r = [op |-> "create_provider", of |-> k.id]
  BY <1>2, RowedIs
<1>3. CASE \E i \in policies' : r = [op |-> "create_policy", of |-> i]
  BY <1>3, RowedIs
<1>4. CASE \E b \in budgets' : r = [op |-> "create_budget", of |-> b.id]
  BY <1>4, RowedIs
<1> QED BY <1>1, <1>2, <1>3, <1>4 DEF Rowed

LEMMA CreateTeamKeeps ==
  ASSUME SetUpHolds, NEW c \in Call, CreateTeam(c)
  PROVE  SetUpHolds'
<1>1. pc[c] = "write" /\ ask[c].op = "create_team" /\ AuditInv /\ Tables
  BY DEF SetUpHolds, CreateTeam
<1> DEFINE new == [id |-> ask[c].serial, name |-> ask[c].name]
<1>2. PICK free \in BOOLEAN :
        /\ free = Unused(ask[c].name, ask[c].serial) /\ Commits(c, free)
        /\ teams' = IF free THEN teams \cup {new} ELSE teams
        /\ UNCHANGED <<credentials, policies, budgets>>
  BY DEF CreateTeam, Unused
<1>3. /\ Rowed' \subseteq Rowed \cup {[op |-> "create_team", of |-> ask[c].serial]}
      /\ ~free => Rowed' \subseteq Rowed
  <2>1. \A t \in teams' : t \in teams \/ t.id = ask[c].serial
    BY <1>2
  <2>2. PICK x : x = [op |-> "create_team", of |-> ask[c].serial]
    OBVIOUS
  <2>3. Rowed' \subseteq Rowed \cup {x}
    BY <1>2, <2>1, <2>2, RowedGrows
  <2>4. ~free => Rowed' = Rowed
    BY <1>2 DEF Rowed
  <2> QED BY <2>2, <2>3, <2>4
<1>4. AuditInv'
  BY <1>1, <1>2, <1>3, OpsApart, CommitsInv
<1>5. TeamsApart'
  <2>1. CASE ~free
    BY <1>1, <1>2, <2>1 DEF Tables, TeamsApart
  <2>2. CASE free
    <3>1. \A t \in teams : t.id # ask[c].serial /\ t.name # ask[c].name
      BY <1>1, <1>2, <2>2, Fresh DEF Unused
    <3>2. ask[c].serial \in Id /\ ask[c].name \in Name
      BY <1>1, Fresh DEF Fits
    <3>3. new \in [id : Id, name : Name] /\ new.id = ask[c].serial /\ new.name = ask[c].name
      BY <3>2
    <3> HIDE DEF new
    <3>4. teams' = teams \cup {new} /\ IsFiniteSet(teams')
      BY <1>1, <1>2, <2>2, FS_AddElement DEF Tables, TeamsApart
    <3>5. \A t, u \in teams' : (t.id = u.id \/ t.name = u.name) => t = u
      BY <1>1, <3>1, <3>3, <3>4 DEF Tables, TeamsApart
    <3>6. teams' \subseteq [id : Id, name : Name]
      BY <1>1, <3>3, <3>4 DEF Tables, TeamsApart
    <3> QED BY <3>4, <3>5, <3>6 DEF TeamsApart
  <2> QED BY <2>1, <2>2
<1>6. BudgetsApart' /\ CredentialsTyped'
  BY <1>1, <1>2 DEF Tables, BudgetsApart, CredentialsTyped
<1> QED BY <1>4, <1>5, <1>6 DEF SetUpHolds, Tables

LEMMA UpdateTeamKeeps ==
  ASSUME SetUpHolds, NEW c \in Call, UpdateTeam(c)
  PROVE  SetUpHolds'
<1>1. pc[c] = "write" /\ ask[c].op = "update_team" /\ AuditInv /\ Tables
  BY DEF SetUpHolds, UpdateTeam
<1> DEFINE name == ask[c].name
<1>2. PICK found : /\ found = {t \in teams : t.id = ask[c].of /\ Unused(name, t.id)}
                   /\ teams' = (teams \ found) \cup {[t EXCEPT !.name = name] : t \in found}
                   /\ Commits(c, found # {})
                   /\ UNCHANGED <<credentials, policies, budgets>>
  BY DEF UpdateTeam
<1>3. \A t \in teams : t \in [id : Id, name : Name] /\ t.id \in Id
  BY <1>1 DEF Tables, TeamsApart
<1>4. name \in Name
  BY <1>1, Fresh DEF Fits
<1>5. \A t \in found : /\ [t EXCEPT !.name = name] \in [id : Id, name : Name]
                       /\ [t EXCEPT !.name = name].id = t.id /\ [t EXCEPT !.name = name].name = name
  BY <1>2, <1>3, <1>4
<1>6. \A u \in teams' :
        \/ u \in teams /\ u \notin found
        \/ \E t \in found : u \in [id : Id, name : Name] /\ u.id = t.id /\ u.name = name
                            /\ u = [t EXCEPT !.name = name]
  BY <1>2, <1>5
<1>7. \A t \in found : t \in teams /\ t.id = ask[c].of /\ \A u \in teams : u.name = name => u.id = t.id
  BY <1>2 DEF Unused
<1>8. TeamsApart'
  <2>1. teams' \subseteq [id : Id, name : Name]
    BY <1>3, <1>6
  <2>2. IsFiniteSet(teams')
    <3>1. IsFiniteSet(teams) /\ IsFiniteSet(found)
      BY <1>1, <1>2, FS_Subset DEF Tables, TeamsApart
    <3>2. PICK renamed : renamed = {[t EXCEPT !.name = name] : t \in found}
      OBVIOUS
    <3>4. \A x, y \in renamed : x = y
      <4>1. \A t, u \in found : t = u
        BY <1>1, <1>7 DEF Tables, TeamsApart
      <4> QED BY <3>2, <4>1
    <3>5. IsFiniteSet(renamed)
      <4>1. CASE renamed = {}
        BY <4>1, FS_EmptySet
      <4>2. CASE renamed # {}
        <5>1. PICK x : renamed = {x}
          BY <3>4, <4>2
        <5> QED BY <5>1, FS_Singleton
      <4> QED BY <4>1, <4>2
    <3>3. IsFiniteSet(teams \ found)
      BY <3>1, FS_Subset
    <3> QED BY <1>2, <3>2, <3>3, <3>5, FS_Union
  <2>3. ASSUME NEW t \in teams', NEW u \in teams', t.id = u.id \/ t.name = u.name PROVE t = u
    <3>1. \A v, w \in teams : (v.id = w.id \/ v.name = w.name) => v = w
      BY <1>1 DEF Tables, TeamsApart
    <3>2. CASE t \in teams /\ u \in teams
      BY <2>3, <3>1, <3>2
    <3>3. ASSUME NEW v \in teams', NEW w \in teams', v \in teams, v \notin found, w \notin teams \/ w \in found
          PROVE  v.id # w.id /\ v.name # w.name
      <4>1. PICK x \in found : w.id = x.id /\ w.name = name
        BY <1>6, <3>3
      <4>2. v # x /\ x \in teams
        BY <1>7, <3>3
      <4>3. v.id # x.id
        BY <3>1, <3>3, <4>2
      <4> QED BY <1>7, <3>3, <4>1, <4>2, <4>3
    <3>4. CASE ~(t \in teams /\ t \notin found) /\ ~(u \in teams /\ u \notin found)
      <4>1. PICK x \in found : t = [x EXCEPT !.name = name]
        BY <1>6, <3>4
      <4>2. PICK y \in found : u = [y EXCEPT !.name = name]
        BY <1>6, <3>4
      <4>3. x = y
        BY <1>7, <3>1
      <4> QED BY <4>1, <4>2, <4>3
    <3> QED BY <2>3, <3>2, <3>3, <3>4
  <2> QED BY <2>1, <2>2, <2>3 DEF TeamsApart
<1>9. Rowed' \subseteq Rowed
  <2>1. \A u \in teams' : \E t \in teams : u.id = t.id
    BY <1>6, <1>7
  <2> QED BY <1>2, <2>1 DEF Rowed
<1>10. AuditInv'
  <2>1. ask[c].op \notin Creates /\ ask[c].op \notin Deletes
    BY <1>1, OpsApart DEF Deletes
  <2> QED BY <1>1, <1>2, <1>9, <2>1, CommitsInv
<1>11. BudgetsApart' /\ CredentialsTyped'
  BY <1>1, <1>2 DEF Tables, BudgetsApart, CredentialsTyped
<1> QED BY <1>8, <1>10, <1>11 DEF SetUpHolds, Tables

LEMMA DeleteTeamKeeps ==
  ASSUME SetUpHolds, NEW c \in Call, DeleteTeam(c)
  PROVE  SetUpHolds'
<1>1. pc[c] = "write" /\ ask[c].op = "delete_team" /\ AuditInv /\ Tables
  BY DEF SetUpHolds, DeleteTeam
<1>2. PICK done \in BOOLEAN :
        /\ done = (teams' # teams) /\ Commits(c, done)
        /\ teams' = {t \in teams : t.id # ask[c].of}
        /\ budgets' \subseteq budgets
        /\ UNCHANGED <<credentials, policies>>
  BY DEF DeleteTeam
<1>3. Rowed' \subseteq Rowed
  BY <1>2 DEF Rowed
<1>4. done => [op |-> "create_team", of |-> ask[c].of] \in Rowed \ Rowed'
  <2>1. ASSUME done PROVE \E t \in teams : t.id = ask[c].of
    BY <1>2, <2>1
  <2>2. [op |-> "create_team", of |-> ask[c].of] \notin Rowed'
    BY <1>2 DEF Rowed
  <2> QED BY <2>1, <2>2, RowedIs
<1>5. AuditInv'
  <2>1. ask[c].op \notin Creates /\ Undoes(ask[c].op) = "create_team"
    BY <1>1, OpsApart DEF Undoes
  <2> QED BY <1>1, <1>2, <1>3, <1>4, <2>1, CommitsInv
<1>6. TeamsApart'
  BY <1>1, <1>2, FS_Subset DEF Tables, TeamsApart
<1>7. BudgetsApart' /\ CredentialsTyped'
  BY <1>1, <1>2 DEF Tables, BudgetsApart, CredentialsTyped
<1> QED BY <1>5, <1>6, <1>7 DEF SetUpHolds, Tables

LEMMA CreateBudgetKeeps ==
  ASSUME SetUpHolds, NEW c \in Call, CreateBudget(c)
  PROVE  SetUpHolds'
<1>1. pc[c] = "write" /\ ask[c].op = "create_budget" /\ AuditInv /\ Tables
  BY DEF SetUpHolds, CreateBudget
<1> DEFINE new == [id |-> ask[c].serial, scope |-> ask[c].scope, limit |-> ask[c].limit,
                   hard |-> ask[c].hard]
<1>2. PICK refers \in BOOLEAN :
        /\ Commits(c, refers)
        /\ budgets' = IF refers THEN budgets \cup {new} ELSE budgets
        /\ UNCHANGED <<teams, credentials, policies>>
  BY DEF CreateBudget, Refers
<1>3. new \in [id : Id, scope : Scopes, limit : Cap, hard : BOOLEAN] /\ new.id = ask[c].serial
  BY <1>1, Fresh DEF Fits, SetUpAsk
<1> HIDE DEF new
<1>4. PICK x : x = [op |-> "create_budget", of |-> ask[c].serial]
  OBVIOUS
<1>5. Rowed' \subseteq Rowed \cup {x}
  <2>1. \A b \in budgets' : b \in budgets \/ b.id = ask[c].serial
    BY <1>2, <1>3
  <2> QED BY <1>2, <1>4, <2>1, RowedGrows
<1>6. ~refers => Rowed' = Rowed
  BY <1>2 DEF Rowed
<1>7. AuditInv'
  <2>1. ask[c].op \notin Deletes
    BY <1>1 DEF Deletes
  <2>2. ask[c].op \in Creates
    BY <1>1, OpsApart
  <2> QED BY <1>1, <1>2, <1>4, <1>5, <1>6, <2>1, <2>2, CommitsInv
<1>8. BudgetsApart'
  <2>1. \A b \in budgets : b.id # new.id
    BY <1>1, <1>3, Fresh
  <2>2. budgets' \subseteq [id : Id, scope : Scopes, limit : Cap, hard : BOOLEAN]
    BY <1>1, <1>2, <1>3 DEF Tables, BudgetsApart
  <2>3. \A b, d \in budgets' : b.id = d.id => b = d
    BY <1>1, <1>2, <2>1 DEF Tables, BudgetsApart
  <2> QED BY <2>2, <2>3 DEF BudgetsApart
<1>9. TeamsApart' /\ CredentialsTyped'
  BY <1>1, <1>2 DEF Tables, TeamsApart, CredentialsTyped
<1> QED BY <1>7, <1>8, <1>9 DEF SetUpHolds, Tables

LEMMA DeleteBudgetKeeps ==
  ASSUME SetUpHolds, NEW c \in Call, DeleteBudget(c)
  PROVE  SetUpHolds'
<1>1. pc[c] = "write" /\ ask[c].op = "delete_budget" /\ AuditInv /\ Tables
  BY DEF SetUpHolds, DeleteBudget
<1>2. PICK done \in BOOLEAN :
        /\ done = (budgets' # budgets) /\ Commits(c, done)
        /\ budgets' = {b \in budgets : b.id # ask[c].of}
        /\ UNCHANGED <<teams, credentials, policies>>
  BY DEF DeleteBudget
<1>3. Rowed' \subseteq Rowed
  BY <1>2 DEF Rowed
<1>4. done => [op |-> "create_budget", of |-> ask[c].of] \in Rowed \ Rowed'
  <2>1. ASSUME done PROVE \E b \in budgets : b.id = ask[c].of
    BY <1>2, <2>1
  <2>2. [op |-> "create_budget", of |-> ask[c].of] \notin Rowed'
    BY <1>2 DEF Rowed
  <2> QED BY <2>1, <2>2, RowedIs
<1>5. AuditInv'
  <2>1. ask[c].op \notin Creates /\ Undoes(ask[c].op) = "create_budget"
    BY <1>1, OpsApart DEF Undoes
  <2> QED BY <1>1, <1>2, <1>3, <1>4, <2>1, CommitsInv
<1>6. Tables'
  BY <1>1, <1>2 DEF Tables, TeamsApart, BudgetsApart, CredentialsTyped
<1> QED BY <1>5, <1>6 DEF SetUpHolds

LEMMA CreatePolicyKeeps ==
  ASSUME SetUpHolds, NEW c \in Call, CreatePolicy(c)
  PROVE  SetUpHolds'
<1>1. pc[c] = "write" /\ ask[c].op = "create_policy" /\ AuditInv /\ Tables
  BY DEF SetUpHolds, CreatePolicy
<1>2. /\ Commits(c, TRUE) /\ policies' = policies \cup {ask[c].serial}
      /\ UNCHANGED <<teams, credentials, budgets>>
  BY DEF CreatePolicy
<1>3. PICK x : x = [op |-> "create_policy", of |-> ask[c].serial]
  OBVIOUS
<1>4. Rowed' \subseteq Rowed \cup {x}
  BY <1>2, <1>3, RowedGrows
<1>5. AuditInv'
  <2>1. ask[c].op \notin Deletes
    BY <1>1 DEF Deletes
  <2>2. ask[c].op \in Creates
    BY <1>1, OpsApart
  <2> QED BY <1>1, <1>2, <1>3, <1>4, <2>1, <2>2, CommitsInv
<1>6. Tables'
  BY <1>1, <1>2 DEF Tables, TeamsApart, BudgetsApart, CredentialsTyped
<1> QED BY <1>5, <1>6 DEF SetUpHolds

LEMMA DeletePolicyKeeps ==
  ASSUME SetUpHolds, NEW c \in Call, DeletePolicy(c)
  PROVE  SetUpHolds'
<1>1. pc[c] = "write" /\ ask[c].op = "delete_policy" /\ AuditInv /\ Tables
  BY DEF SetUpHolds, DeletePolicy
<1>2. PICK done \in BOOLEAN :
        /\ done = (policies' # policies) /\ Commits(c, done)
        /\ policies' = policies \ {ask[c].of}
        /\ UNCHANGED <<teams, credentials, budgets>>
  BY DEF DeletePolicy
<1>3. Rowed' \subseteq Rowed
  BY <1>2 DEF Rowed
<1>4. done => [op |-> "create_policy", of |-> ask[c].of] \in Rowed \ Rowed'
  <2>1. ASSUME done PROVE ask[c].of \in policies
    BY <1>2, <2>1
  <2>2. [op |-> "create_policy", of |-> ask[c].of] \notin Rowed'
    BY <1>2 DEF Rowed
  <2> QED BY <2>1, <2>2, RowedIs
<1>5. AuditInv'
  <2>1. ask[c].op \notin Creates /\ Undoes(ask[c].op) = "create_policy"
    BY <1>1, OpsApart DEF Undoes
  <2> QED BY <1>1, <1>2, <1>3, <1>4, <2>1, CommitsInv
<1>6. Tables'
  BY <1>1, <1>2 DEF Tables, TeamsApart, BudgetsApart, CredentialsTyped
<1> QED BY <1>5, <1>6 DEF SetUpHolds

LEMMA DeleteCredentialKeeps ==
  ASSUME SetUpHolds, NEW c \in Call, DeleteCredential(c)
  PROVE  SetUpHolds'
<1>1. pc[c] = "write" /\ ask[c].op = "delete_provider" /\ AuditInv /\ Tables
  BY DEF SetUpHolds, DeleteCredential
<1>2. PICK done \in BOOLEAN :
        /\ done = (credentials' # credentials) /\ Commits(c, done)
        /\ credentials' = {k \in credentials : k.id # ask[c].of}
        /\ UNCHANGED <<teams, policies, budgets>>
  BY DEF DeleteCredential
<1>3. Rowed' \subseteq Rowed
  BY <1>2 DEF Rowed
<1>4. done => [op |-> "create_provider", of |-> ask[c].of] \in Rowed \ Rowed'
  <2>1. ASSUME done PROVE \E k \in credentials : k.id = ask[c].of
    BY <1>2, <2>1
  <2>2. [op |-> "create_provider", of |-> ask[c].of] \notin Rowed'
    BY <1>2 DEF Rowed
  <2> QED BY <2>1, <2>2, RowedIs
<1>5. AuditInv'
  <2>1. ask[c].op \notin Creates /\ Undoes(ask[c].op) = "create_provider"
    BY <1>1, OpsApart DEF Undoes
  <2> QED BY <1>1, <1>2, <1>3, <1>4, <2>1, CommitsInv
<1>6. Tables'
  BY <1>1, <1>2 DEF Tables, TeamsApart, BudgetsApart, CredentialsTyped
<1> QED BY <1>5, <1>6 DEF SetUpHolds

LEMMA QuietTables ==
  ASSUME Tables, UNCHANGED <<teams, credentials, policies, budgets>>
  PROVE  Tables' /\ Rowed' = Rowed
BY DEF Tables, TeamsApart, BudgetsApart, CredentialsTyped, Rowed

\* Memberships and settings are no rows of these tables.
LEMMA OthersKeep ==
  ASSUME SetUpHolds, NEW c \in Call, AddTeamMember(c) \/ RemoveTeamMember(c) \/ UpdateKey(c) \/ UpdateOrgSettings(c)
  PROVE  SetUpHolds'
<1>1. /\ pc[c] = "write" /\ ask[c].op \in Rosters \cup Updates /\ AuditInv /\ Tables
      /\ UNCHANGED <<teams, credentials, policies, budgets>>
  BY DEF SetUpHolds, AddTeamMember, RemoveTeamMember, UpdateKey, UpdateOrgSettings, Overwrites, Rosters, Updates
<1>2. PICK done \in BOOLEAN : Commits(c, done)
  BY DEF AddTeamMember, RemoveTeamMember, UpdateKey, UpdateOrgSettings, Overwrites
<1>3. Tables' /\ Rowed' = Rowed
  BY <1>1, QuietTables
<1>4. ask[c].op \notin Creates /\ ask[c].op \notin Deletes
  BY <1>1, OpsApart DEF Rosters, Updates, Deletes
<1>5. AuditInv'
  BY <1>1, <1>2, <1>3, <1>4, CommitsInv
<1> QED BY <1>3, <1>5 DEF SetUpHolds

LEMMA CreateCredentialKeeps ==
  ASSUME SetUpHolds, NEW c \in Call, CreateCredential(c)
  PROVE  SetUpHolds'
<1>1. pc[c] = "write" /\ ask[c].op = "create_provider" /\ AuditInv /\ Tables
  BY DEF SetUpHolds, CreateCredential
<1> DEFINE new == [id |-> ask[c].serial, provider |-> ask[c].name, default |-> ask[c].default, ok |-> None]
           Left(k) == [k EXCEPT !.default = @ /\ k.id # cleared[c]]
<1>2. UNCHANGED <<teams, policies, budgets>>
  BY DEF CreateCredential
<1>3. CASE Commits(c, FALSE) /\ UNCHANGED credentials
  <2>1. Tables' /\ Rowed' = Rowed
    BY <1>1, <1>2, <1>3, QuietTables
  <2>2. AuditInv'
    BY <1>1, <1>3, <2>1, CommitsInv
  <2> QED BY <2>1, <2>2 DEF SetUpHolds
<1>4. CASE /\ Goes(c, "write", "audit") /\ UNCHANGED <<Rest, faults, ask, log, lost>>
           /\ credentials' = {Left(k) : k \in credentials} \cup {new}
  <2>1. new \in [id : Id, provider : Provider, default : BOOLEAN, ok : BOOLEAN \cup {None}]
        /\ new.id = ask[c].serial
    BY <1>1, Fresh DEF Fits, SetUpAsk
  <2>2. \A k \in credentials :
          /\ Left(k) \in [id : Id, provider : Provider, default : BOOLEAN, ok : BOOLEAN \cup {None}]
          /\ Left(k).id = k.id
    BY <1>1 DEF Tables, CredentialsTyped
  <2> HIDE DEF new, Left
  <2>3. CredentialsTyped'
    BY <1>4, <2>1, <2>2 DEF CredentialsTyped
  <2>4. PICK x : x = [op |-> "create_provider", of |-> ask[c].serial]
    OBVIOUS
  <2>5. Rowed' \subseteq Rowed \cup {x}
    <3>1. \A k \in credentials' : (\E j \in credentials : j.id = k.id) \/ k.id = ask[c].serial
      BY <1>4, <2>1, <2>2
    <3> QED BY <1>2, <2>4, <3>1, RowedGrows
  <2>6. AuditInv'
    <3>1. ask[c].op \notin Deletes /\ ask[c].op \in Creates
      BY <1>1, OpsApart DEF Deletes
    <3>2. pc' = [pc EXCEPT ![c] = "audit"] /\ UNCHANGED <<ask, log, begun, lost>>
      BY <1>4 DEF Goes, Rest
    <3> QED BY <1>1, <2>4, <2>5, <3>1, <3>2, Statements, CommitsKeeps
  <2>7. TeamsApart' /\ BudgetsApart'
    BY <1>1, <1>2 DEF Tables, TeamsApart, BudgetsApart
  <2> QED BY <2>3, <2>6, <2>7 DEF SetUpHolds, Tables
<1> QED BY <1>1, <1>3, <1>4 DEF CreateCredential

LEMMA TestProviderKeeps ==
  ASSUME SetUpHolds, NEW c \in Call, NEW ok \in BOOLEAN, TestProvider(c, ok)
  PROVE  SetUpHolds'
<1> DEFINE Noted(k) == [k EXCEPT !.ok = IF k.id = ask[c].of THEN ok ELSE @]
<1>1. /\ pc[c] = "write" /\ AuditInv /\ Tables
      /\ pc' = [pc EXCEPT ![c] = "idle"] /\ ask' = [ask EXCEPT ![c] = None]
      /\ credentials' = {Noted(k) : k \in credentials}
      /\ UNCHANGED <<teams, policies, budgets, log, begun, lost>>
  BY DEF SetUpHolds, TestProvider, Goes, Answered, Rest
<1>2. \A k \in credentials :
        /\ Noted(k) \in [id : Id, provider : Provider, default : BOOLEAN, ok : BOOLEAN \cup {None}]
        /\ Noted(k).id = k.id
  BY <1>1 DEF Tables, CredentialsTyped
<1> HIDE DEF Noted
<1>3. CredentialsTyped'
  BY <1>1, <1>2 DEF CredentialsTyped
<1>4. Rowed' \subseteq Rowed
  <2>1. \A k \in credentials' : \E j \in credentials : j.id = k.id
    BY <1>1, <1>2
  <2> QED BY <1>1, <2>1 DEF Rowed
<1>5. AuditInv'
  <2>1. pc[c] # "idle" /\ pc[c] \notin Committed /\ lost \subseteq lost'
    BY <1>1, Statements
  <2> QED BY <1>1, <1>4, <2>1, EndsKeeps
<1>6. TeamsApart' /\ BudgetsApart'
  BY <1>1 DEF Tables, TeamsApart, BudgetsApart
<1> QED BY <1>3, <1>5, <1>6 DEF SetUpHolds, Tables

LEMMA CheckKeeps ==
  ASSUME SetUpHolds, NEW c \in Call, NEW at \in Pending, NEW to \in Pending, NEW holds \in BOOLEAN,
         Check(c, at, holds, to)
  PROVE  SetUpHolds'
<1>1. /\ pc[c] = at /\ AuditInv /\ Tables
      /\ UNCHANGED <<teams, credentials, policies, budgets, log, begun, lost>>
      /\ IF holds THEN pc' = [pc EXCEPT ![c] = to] /\ UNCHANGED ask
                  ELSE pc' = [pc EXCEPT ![c] = "idle"] /\ ask' = [ask EXCEPT ![c] = None]
  BY DEF SetUpHolds, Check, Rest, Rows, Goes, Answered
<1>2. Tables' /\ Rowed' = Rowed
  BY <1>1, QuietTables
<1>3. pc[c] # "idle" /\ pc[c] \notin Committed /\ lost \subseteq lost'
  BY <1>1, Statements
<1>4. CASE holds
  BY <1>1, <1>2, <1>4, MovesKeeps DEF SetUpHolds
<1>5. CASE ~holds
  BY <1>1, <1>2, <1>3, <1>5, EndsKeeps DEF SetUpHolds
<1> QED BY <1>4, <1>5

LEMMA ChecksKeep ==
  ASSUME SetUpHolds, NEW c \in Call, RequirePlanFeature(c) \/ TeamBelongsToOrg(c) \/ RoleInOrg(c)
  PROVE  SetUpHolds'
<1>1. CASE RequirePlanFeature(c)
  <2>1. PICK holds \in BOOLEAN : Check(c, "plan", holds, AfterPlan(ask[c]))
    <3>1. Check(c, "plan", PlanIncludes(plan, Feature[ask[c].op]), AfterPlan(ask[c]))
      BY <1>1 DEF RequirePlanFeature
    <3>2. CASE PlanIncludes(plan, Feature[ask[c].op])
      <4>1. Check(c, "plan", TRUE, AfterPlan(ask[c]))
        BY <3>1, <3>2 DEF Check
      <4> QED BY <4>1
    <3>3. CASE ~PlanIncludes(plan, Feature[ask[c].op])
      <4>1. Check(c, "plan", FALSE, AfterPlan(ask[c]))
        BY <3>1, <3>3 DEF Check
      <4> QED BY <4>1
    <3> QED BY <3>2, <3>3
  <2> QED BY <2>1, Statements, FirstStatements, CheckKeeps
<1>2. CASE TeamBelongsToOrg(c)
  <2>1. PICK holds \in BOOLEAN : Check(c, "team", holds, AfterTeam(ask[c]))
    BY <1>2 DEF TeamBelongsToOrg
  <2> QED BY <2>1, Statements, FirstStatements, CheckKeeps
<1>3. CASE RoleInOrg(c)
  <2>1. PICK holds \in BOOLEAN : Check(c, "person", holds, "write")
    BY <1>3 DEF RoleInOrg
  <2> QED BY <2>1, Statements, CheckKeeps
<1> QED BY <1>1, <1>2, <1>3

LEMMA ClearKeeps ==
  ASSUME SetUpHolds, NEW c \in Call, ClearDefault(c) \/ ClearAwaited(c)
  PROVE  SetUpHolds'
<1>1. /\ AuditInv /\ Tables /\ UNCHANGED <<teams, credentials, policies, budgets, ask, log, begun, lost>>
  BY DEF SetUpHolds, ClearDefault, ClearAwaited, Rows
<1>2. pc[c] \in Pending /\ \E to \in Pending : pc' = [pc EXCEPT ![c] = to]
  BY Statements DEF ClearDefault, ClearAwaited, Goes
<1>3. Tables' /\ Rowed' = Rowed
  BY <1>1, QuietTables
<1> QED BY <1>1, <1>2, <1>3, MovesKeeps DEF SetUpHolds

LEMMA ChangeKeeps ==
  ASSUME SetUpHolds, NEW c \in Call, Change(c)
  PROVE  SetUpHolds'
BY CreateTeamKeeps, UpdateTeamKeeps, DeleteTeamKeeps, OthersKeep, CreateBudgetKeeps, DeleteBudgetKeeps,
   CreatePolicyKeeps, DeletePolicyKeeps, ClearKeeps, CreateCredentialKeeps, DeleteCredentialKeeps,
   TestProviderKeeps
DEF Change

LEMMA AfterwardsKeep ==
  ASSUME SetUpHolds, NEW c \in Call, Forget(c) \/ ForgetFails(c) \/ Audit(c) \/ Drop(c)
  PROVE  SetUpHolds'
<1>1. AuditInv /\ Tables /\ UNCHANGED <<teams, credentials, policies, budgets>>
  BY DEF SetUpHolds, Forget, ForgetFails, Audit, Drop, Rows
<1>2. Tables' /\ Rowed' = Rowed
  BY <1>1, QuietTables
<1>3. CASE Forget(c)
  <2>1. /\ pc[c] \in Committed /\ pc' = [pc EXCEPT ![c] = "audit"]
        /\ UNCHANGED <<ask, log, begun, lost>>
    BY <1>3, Statements DEF Forget, Goes, Rest
  <2> QED BY <1>1, <1>2, <2>1, Statements, MovesKeeps DEF SetUpHolds
<1>4. CASE ForgetFails(c)
  <2>1. /\ pc[c] # "idle" /\ pc' = [pc EXCEPT ![c] = "idle"] /\ ask' = [ask EXCEPT ![c] = None]
        /\ UNCHANGED <<log, begun>> /\ lost' = lost \cup {ask[c].serial}
    BY <1>4 DEF ForgetFails, Goes, Answered, Rest
  <2> QED BY <1>1, <1>2, <2>1, EndsKeeps DEF SetUpHolds
<1>5. CASE Audit(c)
  BY <1>1, <1>2, <1>5, AuditKeeps DEF SetUpHolds
<1>6. CASE Drop(c)
  <2>1. /\ pc[c] # "idle" /\ pc' = [pc EXCEPT ![c] = "idle"] /\ ask' = [ask EXCEPT ![c] = None]
        /\ UNCHANGED <<log, begun>> /\ lost \subseteq lost'
        /\ pc[c] \in Committed => ask[c].serial \in lost'
    BY <1>6 DEF Drop, Answered, Committed
  <2> QED BY <1>1, <1>2, <2>1, EndsKeeps DEF SetUpHolds
<1> QED BY <1>3, <1>4, <1>5, <1>6

LEMMA HandlersKeep ==
  ASSUME SetUpHolds, NEW Ops \in SUBSET SetUpOps, Handlers(Ops)
  PROVE  SetUpHolds'
<1>1. ASSUME NEW c \in Call, NEW p, NEW op \in Ops, NEW a \in AskedFor(op), Receive(c, p, a)
      PROVE  SetUpHolds'
  <2>1. AuditInv /\ Tables
    BY DEF SetUpHolds
  <2>2. AuditInv'
    BY <1>1, <2>1, ReceiveKeeps
  <2>3. UNCHANGED <<teams, credentials, policies, budgets>>
    BY <1>1 DEF Receive, projectVars
  <2> QED BY <2>1, <2>2, <2>3, QuietTables DEF SetUpHolds
<1>2. ASSUME NEW c \in Call,
             \/ RequirePlanFeature(c) \/ TeamBelongsToOrg(c) \/ RoleInOrg(c) \/ Change(c)
             \/ Forget(c) \/ ForgetFails(c) \/ Audit(c) \/ Drop(c)
      PROVE  SetUpHolds'
  BY <1>2, ChecksKeep, ChangeKeeps, AfterwardsKeep
<1> QED BY <1>1, <1>2 DEF Handlers

-----------------------------------------------------------------------------
(* What every behaviour has of it                                          *)

LEMMA AuditSame ==
  ASSUME AuditInv, UNCHANGED <<pc, ask, begun, log, lost>>, Rowed' = Rowed
  PROVE  AuditInv'
<1>1. SetUpTyped' /\ OwnSerials'
  BY DEF AuditInv, SetUpTyped, OwnSerials, Fits
<1>2. \A x : Used(x)' <=> Used(x)
  BY DEF Used
<1>3. \A op, x : Gone(op, x)' <=> Gone(op, x)
  BY <1>2 DEF Gone
<1>4. RowsMade' /\ RowsTold'
  BY <1>2 DEF AuditInv, RowsMade, RowsTold
<1>5. DeletedStays' /\ DeletedOnce'
  BY <1>3 DEF AuditInv, DeletedStays, DeletedOnce
<1> QED BY <1>1, <1>4, <1>5 DEF AuditInv

\* While the reports are followed, a change of a project is one step.
LEMMA ChangeAtOnce ==
  ASSUME AuditInv, \A c \in Call : pc[c] = "idle", UNCHANGED <<pc, ask, lost>>,
         begun < MaxCalls, begun' = begun + 1,
         \/ Rowed' \subseteq Rowed /\ log' = log
         \/ /\ Rowed' \subseteq Rowed \cup {[op |-> "create_team", of |-> begun']}
            /\ log' = log \cup {[op |-> "create_team", call |-> begun', of |-> begun']}
  PROVE  AuditInv'
<1> DEFINE row == [op |-> "create_team", of |-> begun']
           new == [op |-> "create_team", call |-> begun', of |-> begun']
<1>0. /\ begun \in 0 .. MaxCalls /\ begun \in Nat /\ MaxCalls \in Nat /\ begun' \in Nat /\ begun' \in 0 .. MaxCalls
      /\ row.op = "create_team" /\ row.of = begun' /\ new.op = "create_team" /\ new.of = begun'
      /\ "create_team" \notin Deletes
      /\ \A c \in Call : pc'[c] = "idle" /\ pc[c] \notin Pending /\ pc[c] \notin Committed
  BY OrganisationAssumption, Statements DEF AuditInv, SetUpTyped, Deletes
<1>1. \/ Rowed' \subseteq Rowed /\ log' = log
      \/ Rowed' \subseteq Rowed \cup {row} /\ log' = log \cup {new}
  OBVIOUS
<1> HIDE DEF row, new
<1>2. SetUpTyped'
  BY <1>0 DEF AuditInv, SetUpTyped
<1>3. OwnSerials'
  BY <1>0 DEF OwnSerials
<1>4. \A x \in Nat : (x <= begun' => Used(x)') /\ (Used(x) => x <= begun)
  BY <1>0 DEF Used
<1>5. RowsMade'
  <2>1. \A r \in Rowed : r.of \in Nat /\ r.of <= begun'
    BY <1>0, <1>4 DEF AuditInv, RowsMade
  <2> QED BY <1>0, <1>1, <1>4, <2>1 DEF RowsMade
<1>6. RowsTold'
  <2>1. \A r \in Rowed : r.of \in lost \cup {0} \/ \E e \in log : e.op = r.op /\ e.of = r.of
    BY <1>0 DEF AuditInv, RowsTold
  <2> QED BY <1>0, <1>1, <2>1 DEF RowsTold
<1>7. DeletedStays'
  <2>1. ASSUME NEW e \in log', e.op \in Deletes PROVE Gone(e.op, e.of)'
    <3>1. e \in log
      BY <1>0, <1>1, <2>1
    <3>2. /\ e.of \in Nat /\ e.of <= begun /\ [op |-> Undoes(e.op), of |-> e.of] \notin Rowed
      BY <1>4, <2>1, <3>1 DEF AuditInv, DeletedStays, Gone
    <3>3. [op |-> Undoes(e.op), of |-> e.of] # row
      BY <1>0, <3>2 DEF row
    <3> QED BY <1>0, <1>1, <1>4, <3>2, <3>3 DEF Gone
  <2> QED BY <1>0, <2>1 DEF DeletedStays
<1>8. DeletedOnce'
  BY <1>0, <1>1 DEF AuditInv, DeletedOnce
<1> QED BY <1>2, <1>3, <1>5, <1>6, <1>7, <1>8 DEF AuditInv

LEMMA ProjectsChangeKeeps ==
  ASSUME SetUpHolds, \A c \in Call : pc[c] = "idle", ProjectsChange
  PROVE  SetUpHolds'
<1>1. /\ AuditInv /\ Tables /\ begun < MaxCalls /\ begun' = begun + 1 /\ begun \in 0 .. MaxCalls
      /\ UNCHANGED <<pc, ask, lost, credentials, policies, budgets>>
  BY DEF SetUpHolds, ProjectsChange, AuditInv, SetUpTyped, tenantVars
<1>2. BudgetsApart' /\ CredentialsTyped'
  BY <1>1 DEF Tables, BudgetsApart, CredentialsTyped
<1>3. /\ \A t \in teams : t.id \in Nat /\ t.id <= begun
      /\ begun \in Nat /\ begun' \in Id /\ MaxCalls \in Nat
  <2>1. \A t \in teams : [op |-> "create_team", of |-> t.id] \in Rowed
    BY RowedIs
  <2>2. \A t \in teams : t.id \in Nat /\ t.id <= begun
    BY <1>1, <2>1 DEF AuditInv, RowsMade, Used
  <2> QED BY <1>1, <2>2, OrganisationAssumption DEF Id
<1>4. \A t, u \in teams : (t.id = u.id \/ t.name = u.name) => t = u
  BY <1>1 DEF Tables, TeamsApart
<1>5. teams \subseteq [id : Id, name : Name] /\ IsFiniteSet(teams)
  BY <1>1 DEF Tables, TeamsApart
<1>6. ASSUME NEW n \in Name, Unused(n, begun'), teams' = teams \cup {[id |-> begun', name |-> n]},
             log' = log \cup {[op |-> "create_team", call |-> begun', of |-> begun']}
      PROVE  AuditInv' /\ TeamsApart'
  <2>1. PICK new : new = [id |-> begun', name |-> n]
    OBVIOUS
  <2>2. new \in [id : Id, name : Name] /\ new.id = begun' /\ new.name = n /\ teams' = teams \cup {new}
    BY <1>3, <1>6, <2>1
  <2>3. \A t \in teams : t.id # begun' /\ t.name # n
    BY <1>1, <1>3, <1>6 DEF Unused
  <2>4. TeamsApart'
    <3>1. IsFiniteSet(teams')
      BY <1>5, <2>2, FS_AddElement
    <3>2. teams' \subseteq [id : Id, name : Name]
      BY <1>5, <2>2
    <3>3. \A t, u \in teams' : (t.id = u.id \/ t.name = u.name) => t = u
      BY <1>4, <2>2, <2>3
    <3> QED BY <3>1, <3>2, <3>3 DEF TeamsApart
  <2>5. PICK x : x = [op |-> "create_team", of |-> begun']
    OBVIOUS
  <2>6. Rowed' \subseteq Rowed \cup {x}
    <3>1. \A t \in teams' : t \in teams \/ t.id = begun'
      BY <2>2
    <3> QED BY <1>1, <2>5, <3>1, RowedGrows
  <2> QED BY <1>1, <1>6, <2>4, <2>5, <2>6, ChangeAtOnce
<1>7. ASSUME NEW t \in teams, NEW n \in Name, Unused(n, t.id),
             teams' = (teams \ {t}) \cup {[t EXCEPT !.name = n]}, log' = log
      PROVE  AuditInv' /\ TeamsApart'
  <2>1. PICK new : new = [t EXCEPT !.name = n]
    OBVIOUS
  <2>2. /\ new \in [id : Id, name : Name] /\ new.id = t.id /\ new.name = n
        /\ teams' = (teams \ {t}) \cup {new}
    BY <1>5, <1>7, <2>1
  <2>3. \A u \in teams \ {t} : u.id # t.id /\ u.name # n
    BY <1>4, <1>7 DEF Unused
  <2>4. TeamsApart'
    <3>1. IsFiniteSet(teams')
      <4>1. IsFiniteSet(teams \ {t})
        BY <1>5, FS_Subset
      <4> QED BY <2>2, <4>1, FS_AddElement
    <3>2. teams' \subseteq [id : Id, name : Name]
      BY <1>5, <2>2
    <3>3. \A u, v \in teams' : (u.id = v.id \/ u.name = v.name) => u = v
      BY <1>4, <2>2, <2>3
    <3> QED BY <3>1, <3>2, <3>3 DEF TeamsApart
  <2>5. Rowed' \subseteq Rowed
    <3>1. \A u \in teams' : \E v \in teams : u.id = v.id
      BY <2>2
    <3> QED BY <1>1, <3>1 DEF Rowed
  <2> QED BY <1>1, <1>7, <2>4, <2>5, ChangeAtOnce
<1>8. ASSUME NEW t \in teams, teams' = teams \ {t}, log' = log
      PROVE  AuditInv' /\ TeamsApart'
  <2>1. TeamsApart'
    BY <1>4, <1>5, <1>8, FS_Subset DEF TeamsApart
  <2>2. Rowed' \subseteq Rowed
    BY <1>1, <1>8 DEF Rowed
  <2> QED BY <1>1, <1>8, <2>1, <2>2, ChangeAtOnce
<1> QED BY <1>2, <1>6, <1>7, <1>8 DEF ProjectsChange, SetUpHolds, Tables

\* What a behaviour of each task has.
SetUpInv ==
  /\ day \in 1 .. MaxDay /\ UsageTyped /\ Tables
  /\ task \in SetUp => AuditInv
  /\ task = "reports" => \A c \in Call : pc[c] = "idle"
  /\ task \notin SetUp => log = {} /\ \A r \in Rowed : r.of = 0

LEMMA SetUpBegins ==
  ASSUME Init
  PROVE  SetUpInv
<1>1. /\ day = 1 /\ usage = <<>> /\ 1 \in 1 .. MaxDay /\ MaxCalls \in Nat
      /\ pc = [c \in Call |-> "idle"] /\ ask = [c \in Call |-> None] /\ begun = 0 /\ log = {} /\ lost = {}
  BY ReportsAssumption, OrganisationAssumption
     DEF Init, TenantInit, OrgInit, ProjectsInit, ReportsInit
<1>2. PICK n \in Name, q \in Provider, limit \in Cap :
        /\ teams = {[id |-> 0, name |-> n]}
        /\ credentials = {[id |-> 0, provider |-> q, default |-> TRUE, ok |-> None]}
        /\ policies = {}
        /\ budgets = {[id |-> 0, scope |-> [kind |-> "org", of |-> 0], limit |-> limit, hard |-> TRUE]}
  BY ProjectsAssumption DEF Init, ProjectsInit
<1>3. 0 \in Id /\ [kind |-> "org", of |-> 0] \in Scopes
  BY <1>1 DEF Id, Scopes
<1>4. TeamsApart
  <2>1. PICK t : t = [id |-> 0, name |-> n]
    OBVIOUS
  <2>2. teams = {t} /\ t \in [id : Id, name : Name]
    BY <1>2, <1>3, <2>1
  <2>3. IsFiniteSet(teams)
    BY <2>2, FS_Singleton
  <2> QED BY <2>2, <2>3 DEF TeamsApart
<1>5. BudgetsApart
  BY <1>2, <1>3 DEF BudgetsApart
<1>6. CredentialsTyped
  BY <1>2, <1>3 DEF CredentialsTyped
<1>7. UsageTyped
  BY <1>1 DEF UsageTyped
<1>8. \A r \in Rowed : r.of = 0
  BY <1>2 DEF Rowed
<1>9. AuditInv
  <2>1. SetUpTyped
    BY <1>1 DEF SetUpTyped
  <2>2. OwnSerials /\ DeletedStays /\ DeletedOnce
    BY <1>1, Statements DEF OwnSerials, DeletedStays, DeletedOnce
  <2>3. RowsMade /\ RowsTold
    BY <1>1, <1>8, Statements DEF RowsMade, RowsTold, Used
  <2> QED BY <2>1, <2>2, <2>3 DEF AuditInv
<1> QED BY <1>1, <1>4, <1>5, <1>6, <1>7, <1>8, <1>9 DEF SetUpInv, Tables

LEMMA SetUpSame ==
  ASSUME SetUpInv, UNCHANGED <<projectVars, reportVars, task>>,
         task \in SetUp => UNCHANGED <<pc, ask, begun>>
  PROVE  SetUpInv'
<1>1. Tables' /\ Rowed' = Rowed
  BY QuietTables DEF SetUpInv, projectVars
<1>2. task \in SetUp => AuditInv'
  BY <1>1, AuditSame DEF SetUpInv, projectVars
<1> QED BY <1>1, <1>2 DEF SetUpInv, UsageTyped, projectVars, reportVars, SetUp

LEMMA ReportsKeep ==
  ASSUME SetUpInv, ReportStep
  PROVE  SetUpInv'
<1>1. /\ task = "reports" /\ task' = task /\ task \in SetUp /\ SetUpHolds
      /\ \A c \in Call : pc[c] = "idle"
  BY DEF ReportStep, SetUpInv, SetUp, SetUpHolds
<1>2. CASE ProjectsChange
  <2>1. SetUpHolds'
    BY <1>1, <1>2, ProjectsChangeKeeps
  <2>2. UNCHANGED <<pc, day, usage>>
    BY <1>2 DEF ProjectsChange, tenantVars, reportVars
  <2> QED BY <1>1, <2>1, <2>2 DEF SetUpInv, SetUpHolds, UsageTyped
<1>3. CASE ~ProjectsChange
  <2>1. UNCHANGED <<tenantVars, orgVars, projectVars>>
    BY <1>3 DEF ReportStep, ReportsNext, RecordUsage, NextDay
  <2>2. Tables' /\ Rowed' = Rowed
    BY <2>1, QuietTables DEF SetUpInv, projectVars
  <2>3. AuditInv'
    BY <1>1, <2>1, <2>2, AuditSame DEF SetUpHolds, tenantVars, orgVars, projectVars
  <2>4. day' \in 1 .. MaxDay /\ UsageTyped'
    <3>1. CASE NextDay
      BY <3>1, ReportsAssumption DEF NextDay, SetUpInv, UsageTyped
    <3>2. ASSUME NEW team \in {t.id : t \in teams} \cup {None}, NEW u \in Person \cup {None},
                 NEW cost \in Cost, RecordUsage(team, u, cost)
          PROVE  day' \in 1 .. MaxDay /\ UsageTyped'
      <4>1. team \in Id \cup {None}
        BY <1>1 DEF SetUpHolds, Tables, TeamsApart
      <4>2. PICK row : row = [day |-> day, team |-> team, user |-> u, cost |-> cost]
        OBVIOUS
      <4>3. row \in UsageRow
        BY <4>1, <4>2 DEF UsageRow, SetUpInv
      <4>4. usage' = Append(usage, row) /\ day' = day
        BY <3>2, <4>2 DEF RecordUsage
      <4>5. usage \in Seq(UsageRow)
        BY DEF SetUpInv, UsageTyped
      <4> QED BY <4>3, <4>4, <4>5 DEF SetUpInv, UsageTyped
    <3> QED BY <1>3, <3>1, <3>2 DEF ReportStep, ReportsNext
  <2> QED BY <1>1, <2>1, <2>2, <2>3, <2>4 DEF SetUpInv, tenantVars
<1> QED BY <1>2, <1>3

LEMMA SetUpNextInv ==
  ASSUME SetUpInv, Next
  PROVE  SetUpInv'
<1>1. CASE ReportStep
  BY <1>1, ReportsKeep
<1>2. CASE ProjectStep \/ BudgetStep \/ CredentialStep \/ SettingStep
  <2>1. /\ task \in SetUp /\ task # "reports" /\ UNCHANGED <<reportVars, task>>
    BY <1>2 DEF ProjectStep, BudgetStep, CredentialStep, SettingStep, SetUp
  <2>2. CASE JoinsOrLeaves
    BY <2>1, <2>2, SetUpSame DEF JoinsOrLeaves
  <2>3. ASSUME NEW Ops \in SUBSET SetUpOps, Handlers(Ops) PROVE SetUpInv'
    <3>1. SetUpHolds'
      BY <2>1, <2>3, HandlersKeep DEF SetUpInv, SetUpHolds
    <3> QED BY <2>1, <3>1 DEF SetUpInv, SetUpHolds, UsageTyped, reportVars
  <2>4. /\ OfProjects \in SUBSET SetUpOps /\ OfBudgets \in SUBSET SetUpOps
        /\ OfCredentials \in SUBSET SetUpOps /\ OfSettings \in SUBSET SetUpOps
    BY OpsApart DEF OfProjects, OfBudgets, OfCredentials, OfSettings, SetUpOps, Rosters, Updates, Deletes
  <2> QED BY <1>2, <2>2, <2>3, <2>4
      DEF ProjectStep, BudgetStep, CredentialStep, SettingStep,
          ProjectsNext, BudgetsNext, CredentialsNext, SettingsNext
<1>3. CASE OrganisationStep \/ AccountStep \/ ReferralStep \/ SubscriptionStep
  <2>1. task \notin SetUp /\ UNCHANGED <<projectVars, reportVars, task>>
    BY <1>3 DEF OrganisationStep, AccountStep, ReferralStep, SubscriptionStep, SetUp
  <2> QED BY <2>1, SetUpSame
<1> QED BY <1>1, <1>2, <1>3 DEF Next

\* A request meets the lowest ceiling of its scope, the log has an entry for every row whose call
\* did not fail and none twice for one deletion, and every report of a period comes to one sum.
THEOREM SetUpSafe == Spec => []SetUpSafety
<1>1. Init => SetUpInv
  BY SetUpBegins
<1>2. SetUpInv /\ [Next]_vars => SetUpInv'
  <2>1. SetUpInv /\ UNCHANGED vars => SetUpInv'
    BY SetUpSame DEF vars, tenantVars, orgVars
  <2> QED BY <2>1, SetUpNextInv
<1>3. SetUpInv => SetUpSafety
  <2> SUFFICES ASSUME SetUpInv PROVE SetUpSafety
    OBVIOUS
  <2>1. UsageTyped /\ TeamsApart /\ BudgetsApart /\ day \in 1 .. MaxDay
    BY DEF SetUpInv, Tables
  <2>2. TightestCap
    BY <2>1, TightestCapAlways
  <2>3. ReportsAgree
    BY <2>1, ReportsAgreeAlways
  <2>4. AuditTells
    <3>1. CASE task \in SetUp
      BY <3>1 DEF SetUpInv, AuditInv, RowsTold, DeletedOnce, Committed, AuditTells
    <3>2. CASE task \notin SetUp
      BY <3>2 DEF SetUpInv, AuditTells
    <3> QED BY <3>1, <3>2
  <2> QED BY <2>2, <2>3, <2>4 DEF SetUpSafety
<1> QED BY <1>1, <1>2, <1>3, PTL DEF Spec

===============================================================================
