------------------------------ MODULE Identity ------------------------------
(***************************************************************************)
(* Who belongs to which company: registration, invitation and the first    *)
(* sign-in of an identity that the provider has verified (api/routes.py,   *)
(* identity/supabase.py), API keys (identity/api_keys.py) and what roles   *)
(* allow (identity/rbac.py).  Requests overlap: each reads what is         *)
(* committed when it starts, and is rolled back if the unique constraints  *)
(* of the users table are against it when it commits.                      *)
(***************************************************************************)
EXTENDS Naturals, FiniteSets

CONSTANTS Tenants, Emails, Subjects, NoSubject, Requests, Keys

VARIABLES
  founder,   \* the email that founded each company, or "none"
  member,    \* the user of each company with each email
  key,       \* of each API key: its company, whether it was revoked
  request    \* what each open request has read and is about to write

ivars == <<founder, member, key, request>>

Role == {"owner", "admin", "operator", "viewer", "legal_approver"}

User == [exists : BOOLEAN, subject : Subjects \cup {NoSubject}, roles : SUBSET Role, active : BOOLEAN]
NoUser == [exists |-> FALSE, subject |-> NoSubject, roles |-> {}, active |-> FALSE]

ApiKey == [state : {"none", "live", "revoked"}, used : BOOLEAN]

SomeCompany == CHOOSE c \in Tenants : TRUE
SomeEmail == CHOOSE e \in Emails : TRUE
NoRequest == [op |-> "none", company |-> SomeCompany, email |-> SomeEmail, user |-> NoUser]

Init == /\ founder = [c \in Tenants |-> "none"]
        /\ member = [c \in Tenants |-> [e \in Emails |-> NoUser]]
        /\ key = [k \in Keys |-> [state |-> "none", used |-> FALSE]]
        /\ request = [r \in Requests |-> NoRequest]

---------------------------------------------------------------------------
(* Roles.                                                                  *)

Reads == {"buyer:read", "campaign:read", "call:read", "report:read", "template:read"}
Operates == Reads \cup {"buyer:write", "import:run", "campaign:write", "campaign:start",
                        "template:write"}
Administers == Operates \cup {"user:manage", "apikey:manage", "company:settings", "audit:read"}

RolePermissions == [ viewer |-> Reads, operator |-> Operates, admin |-> Administers,
                     owner |-> Administers,
                     legal_approver |-> {"template:read", "template:approve_l3", "audit:read"} ]

\* permissions_for: what a role name that is not one grants is nothing.
PermissionsFor(roles) == UNION { RolePermissions[r] : r \in roles \cap Role }

---------------------------------------------------------------------------
(* Users.                                                                  *)

Linked(s) == { x \in Tenants \X Emails : member[x[1]][x[2]].subject = s }
Known(e) == { c \in Tenants : member[c][e].exists }

Open(r, op, c, e, u) ==
  /\ request[r] = NoRequest
  /\ request' = [request EXCEPT ![r] = [op |-> op, company |-> c, email |-> e, user |-> u]]
  /\ UNCHANGED <<founder, member, key>>

\* register: an identity that is linked has its account already, one whose email is
\* known joins that company, and one nobody knows founds a company of its own.
Register(r, s, e) ==
  /\ Linked(s) = {}
  /\ \/ \E c \in Tenants : /\ Known(e) = {c}
                           /\ Open(r, "link", c, e, [member[c][e] EXCEPT !.subject = s])
     \/ /\ Known(e) = {}
        /\ \E c \in Tenants :
             /\ founder[c] = "none" /\ \A q \in Requests : request[q].op = "found" => request[q].company # c
             /\ Open(r, "found", c, e, [exists |-> TRUE, subject |-> s, active |-> TRUE,
                                        roles |-> {"owner", "admin"}])

\* principal_from_supabase_token: the first sign-in of an invited user links the
\* account, unless the user is inactive: the exception rolls the link back.
SignIn(r, s, e) ==
  /\ Linked(s) = {}
  /\ \E c \in Tenants : /\ Known(e) = {c} /\ member[c][e].active
                        /\ Open(r, "link", c, e, [member[c][e] EXCEPT !.subject = s])

\* invite_user, by somebody who may manage the users of c.  The session sees the users
\* of c and no others.
Invite(r, c, e) ==
  /\ \E f \in Emails : "user:manage" \in PermissionsFor(member[c][f].roles)
  /\ ~member[c][e].exists
  /\ \E roles \in {{"viewer"}, {"admin"}} :
       Open(r, "invite", c, e, [exists |-> TRUE, subject |-> NoSubject, active |-> TRUE,
                                roles |-> roles])

\* Mutant: the subject of a user is not unique.
RefusesNewUserOnly(q) == q.op # "link" /\ member[q.company][q.email].exists

\* The unique constraints: an email once in a company, a subject once.
Refused(q) ==
  \/ q.op # "link" /\ member[q.company][q.email].exists
  \/ q.user.subject # NoSubject /\ Linked(q.user.subject) \ {<<q.company, q.email>>} # {}

Commit(r) ==
  LET q == request[r] IN
  /\ q.op \in {"link", "found", "invite"}
  /\ request' = [request EXCEPT ![r] = NoRequest]
  /\ IF Refused(q) THEN UNCHANGED <<founder, member>>
     ELSE /\ founder' = IF q.op = "found" THEN [founder EXCEPT ![q.company] = q.email] ELSE founder
          /\ member' = [member EXCEPT ![q.company][q.email] =
               IF q.op = "link" THEN [@ EXCEPT !.subject = q.user.subject] ELSE q.user]
  /\ UNCHANGED key

Abandon(r) == /\ request[r] # NoRequest /\ request' = [request EXCEPT ![r] = NoRequest]
              /\ UNCHANGED <<founder, member, key>>

\* A user is deactivated in the database: no route does it.
Deactivate(c, e) == /\ member[c][e].active
                    /\ member' = [member EXCEPT ![c][e].active = FALSE]
                    /\ UNCHANGED <<founder, key, request>>

---------------------------------------------------------------------------
(* API keys.                                                               *)

CreateApiKey(k) == /\ key[k].state = "none"
                   /\ key' = [key EXCEPT ![k].state = "live"]
                   /\ UNCHANGED <<founder, member, request>>

\* principal_from_api_key reads the key in the transaction that notes its use.
UseApiKey(k) == /\ key[k].state = "live"
                /\ key' = [key EXCEPT ![k].used = TRUE]
                /\ UNCHANGED <<founder, member, request>>

Revoke(k) == /\ key[k].state # "none"
             /\ key' = [key EXCEPT ![k].state = "revoked"]
             /\ UNCHANGED <<founder, member, request>>

Next == \/ \E r \in Requests :
             \/ \E s \in Subjects, e \in Emails : Register(r, s, e) \/ SignIn(r, s, e)
             \/ \E c \in Tenants, e \in Emails : Invite(r, c, e)
             \/ Commit(r) \/ Abandon(r)
        \/ \E c \in Tenants, e \in Emails : Deactivate(c, e)
        \/ \E k \in Keys : CreateApiKey(k) \/ UseApiKey(k) \/ Revoke(k)

Spec == Init /\ [][Next]_ivars

---------------------------------------------------------------------------
TypeOK == /\ founder \in [Tenants -> Emails \cup {"none"}]
          /\ member \in [Tenants -> [Emails -> User]]
          /\ key \in [Keys -> ApiKey]

\* However registrations, invitations and first sign-ins overlap, an identity has one
\* account in one company, and no company is left without the user who founded it: a
\* registration that loses the race leaves nothing behind (api/routes.py:141-155).
OneAccount ==
  /\ \A s \in Subjects : Cardinality(Linked(s)) <= 1
  /\ \A c \in Tenants : founder[c] # "none" => member[c][founder[c]].subject # NoSubject
=============================================================================
