-------------------------- MODULE Companies_proofs --------------------------
(***************************************************************************)
(* Proofs about companies: what their sessions see, who their users are,   *)
(* the checks and decisions on credit, and which record of a registry is   *)
(* theirs, for any number of companies, sessions, connections, requests,   *)
(* emails, assessments, officers and records. As in Contacts_proofs each   *)
(* part has an inductive invariant over the variables of its component,    *)
(* and a step of BackOffice is one of its steps or leaves them alone       *)
(* (TenancyPart, IdentityPart, CreditPart, ResolutionPart).                *)
(*                                                                         *)
(* Which record is the match does not depend on the order they came in     *)
(* because the sort compares a number (Scores): where one record clearly   *)
(* has the highest it is the match (ClearMatch), and where none has there  *)
(* is no match (NoClearMatch), in any order (SameAnswer).                  *)
(*                                                                         *)
(* Unverified figures buy no more than verified ones because they buy      *)
(* three fifths of it at a score that is never five thirds as high         *)
(* (HalfWeighed): the rest of the evidence always counts (OtherEvidence).  *)
(***************************************************************************)
EXTENDS BackOffice, Sequences, FiniteSetTheorems, WellFoundedInduction, TLAPS

---------------------------------------------------------------------------
(* Tenancy.                                                                *)

\* A connection belongs to one session at a time, and to none that is closed.
OneOwner ==
  /\ \A s, t \in Hands : session[s].on = session[t].on => s = t \/ session[s].on = Nobody
  /\ \A s \in Hands : session[s].engine = "none" => session[s].on = Nobody

\* What the transaction-local setting of a connection says.
Bound ==
  /\ \A s \in Hands : session[s].on # Nobody =>
       setting[session[s].on] = session[s].company
  /\ \A k \in Papers : (\A s \in Hands : session[s].on # k) => setting[k] = Nobody

\* What is proved together.
TenantInv == Ten!TypeOK /\ OneOwner /\ Bound /\ Ten!OwnRowsOnly

---------------------------------------------------------------------------
\* No session is open.
LEMMA InitTenants == Ten!Init => TenantInv
BY DEF Ten!Init, TenantInv, Ten!TypeOK, OneOwner, Bound, Ten!OwnRowsOnly, Ten!Closed, Ten!Session,
       Ten!Nothing

\* Tables, policies and the role say nothing about sessions.
LEMMA SchemaStep ==
  ASSUME TenantInv, Ten!Create \/ Ten!ApplyRls
  PROVE  TenantInv'
BY DEF Ten!Create, Ten!ApplyRls, TenantInv, Ten!TypeOK, OneOwner, Bound, Ten!OwnRowsOnly

\* A session opens or closes outside a transaction.
LEMMA OpenCloseStep ==
  ASSUME TenantInv, NEW s \in Hands, Ten!OpenSession(s) \/ Ten!CloseSession(s)
  PROVE  TenantInv'
<1>1. /\ UNCHANGED <<isolated, created, bypasses, setting, seen>>
      /\ session[s].on = Nobody
      /\ \E x \in Ten!Session : x.on = Nobody /\ session' = [session EXCEPT ![s] = x]
  BY DEF Ten!OpenSession, Ten!CloseSession, Ten!Session, Ten!Closed, TenantInv, Ten!TypeOK
<1>2. PICK x \in Ten!Session : x.on = Nobody /\ session' = [session EXCEPT ![s] = x]
  BY <1>1
<1>3. \A t \in Hands : /\ session'[t].on = session[t].on
                          /\ t # s => session'[t] = session[t]
  BY <1>1, <1>2 DEF TenantInv, Ten!TypeOK
<1>4. Ten!TypeOK'
  BY <1>1, <1>2 DEF TenantInv, Ten!TypeOK
<1>5. OneOwner'
  BY <1>1, <1>3 DEF TenantInv, OneOwner
<1>6. Bound'
  BY <1>1, <1>3 DEF TenantInv, Bound
<1>7. Ten!OwnRowsOnly'
  BY <1>1 DEF TenantInv, Ten!OwnRowsOnly
<1> QED BY <1>4, <1>5, <1>6, <1>7 DEF TenantInv

\* A transaction begins: the connection was free, so its setting is empty or is bound now.
LEMMA BeginTransactionStep ==
  ASSUME TenantInv, NEW s \in Hands, Ten!Begin(s)
  PROVE  TenantInv'
<1>1. PICK k \in Papers : /\ \A t \in Hands : session[t].on # k
                               /\ session' = [session EXCEPT ![s].on = k]
                               /\ setting' = Ten!Bind(s, k)
  BY DEF Ten!Begin
<1>2. /\ UNCHANGED <<isolated, created, bypasses, seen>> /\ session[s].on = Nobody
      /\ session[s].engine # "none"
  BY DEF Ten!Begin
<1>3. /\ session[s] \in Ten!Session /\ session'[s] = [session[s] EXCEPT !.on = k]
      /\ \A t \in Hands \ {s} : session'[t] = session[t]
  BY <1>1 DEF TenantInv, Ten!TypeOK
<1>4. /\ session'[s].on = k /\ session'[s].company = session[s].company
      /\ session'[s].engine = session[s].engine /\ session[s].company \in Companies \cup {Nobody}
      /\ session'[s] \in Ten!Session
  BY <1>3 DEF Ten!Session
<1>5. /\ setting' \in [Papers -> Companies \cup {Nobody}]
      /\ setting'[k] = session[s].company
      /\ \A c \in Papers \ {k} : setting'[c] = setting[c]
  <2>1. setting[k] = Nobody
    BY <1>1 DEF TenantInv, Bound
  <2> QED BY <1>1, <1>4, <2>1 DEF Ten!Bind, TenantInv, Ten!TypeOK
<1>6. Ten!TypeOK'
  BY <1>1, <1>2, <1>4, <1>5 DEF TenantInv, Ten!TypeOK
<1>7. OneOwner'
  <2>1. \A t \in Hands : /\ session'[t].on = IF t = s THEN k ELSE session[t].on
                         /\ session'[t].engine = session[t].engine
    BY <1>3, <1>4
  <2> QED BY <1>1, <1>2, <2>1 DEF TenantInv, OneOwner
<1>8. Bound'
  <2>1. ASSUME NEW t \in Hands, session'[t].on # Nobody
        PROVE  setting'[session'[t].on] = session'[t].company
    <3>1. CASE t = s
      BY <1>4, <1>5, <3>1
    <3>2. CASE t # s
      <4>1. session[t].on \in Papers
        BY <1>3, <2>1, <3>2 DEF TenantInv, Ten!TypeOK, Ten!Session
      <4> QED BY <1>1, <1>3, <1>5, <2>1, <3>2, <4>1 DEF TenantInv, Bound
    <3> QED BY <3>1, <3>2
  <2>2. ASSUME NEW c \in Papers, \A t \in Hands : session'[t].on # c
        PROVE  setting'[c] = Nobody
    <3>1. c # k
      BY <1>4, <2>2
    <3>2. \A t \in Hands : session[t].on # c
      BY <1>2, <1>3, <2>2, <3>1, NobodyIsNobody
    <3> QED BY <1>5, <3>1, <3>2 DEF TenantInv, Bound
  <2> QED BY <2>1, <2>2 DEF Bound
<1>9. Ten!OwnRowsOnly'
  BY <1>2 DEF TenantInv, Ten!OwnRowsOnly
<1> QED BY <1>6, <1>7, <1>8, <1>9 DEF TenantInv

\* set_tenant binds the session and the transaction together.
LEMMA SetTenantStep ==
  ASSUME TenantInv, NEW s \in Hands, Ten!SetTenant(s)
  PROVE  TenantInv'
<1>1. PICK c \in Companies : /\ session' = [session EXCEPT ![s].company = c]
                             /\ setting' = [setting EXCEPT ![session[s].on] = c]
  BY DEF Ten!SetTenant
<1>2. UNCHANGED <<isolated, created, bypasses, seen>> /\ session[s].on # Nobody
  BY DEF Ten!SetTenant
<1>3. /\ session[s] \in Ten!Session /\ session'[s] = [session[s] EXCEPT !.company = c]
      /\ \A t \in Hands \ {s} : session'[t] = session[t]
  BY <1>1 DEF TenantInv, Ten!TypeOK
<1>4. /\ session'[s].on = session[s].on /\ session'[s].company = c
      /\ session'[s].engine = session[s].engine /\ session'[s] \in Ten!Session
      /\ session[s].on \in Papers
  BY <1>2, <1>3 DEF Ten!Session
<1>5. Ten!TypeOK'
  BY <1>1, <1>2, <1>4 DEF TenantInv, Ten!TypeOK
<1>6. OneOwner'
  <2>1. \A t \in Hands : session'[t].on = session[t].on /\ session'[t].engine = session[t].engine
    BY <1>3, <1>4
  <2> QED BY <2>1 DEF TenantInv, OneOwner
<1>7. Bound'
  BY <1>1, <1>2, <1>3, <1>4 DEF TenantInv, Ten!TypeOK, OneOwner, Bound
<1>8. Ten!OwnRowsOnly'
  BY <1>2 DEF TenantInv, Ten!OwnRowsOnly
<1> QED BY <1>5, <1>6, <1>7, <1>8 DEF TenantInv

\* A statement sees what the setting of its connection says, if the schema passes check.
LEMMA QueryStep ==
  ASSUME TenantInv, NEW s \in Hands, Ten!Query(s)
  PROVE  TenantInv'
<1>1. PICK t \in created : seen' = [engine |-> session[s].engine, company |-> session[s].company,
                                    rows |-> Ten!Visible(s, t), checked |-> Ten!CheckPasses]
  BY DEF Ten!Query
<1>2. UNCHANGED <<isolated, created, bypasses, session, setting>> /\ session[s].on # Nobody
  BY DEF Ten!Query
<1>3. setting[session[s].on] = session[s].company
  BY <1>2 DEF TenantInv, Bound
<1>4. Ten!CheckPasses /\ session[s].engine = "app" =>
        Ten!Visible(s, t) = {session[s].company} \ {Nobody}
  BY <1>3 DEF Ten!CheckPasses, Ten!Visible
<1>5. Ten!OwnRowsOnly'
  BY <1>1, <1>4 DEF Ten!OwnRowsOnly
<1>6. Ten!TypeOK' /\ OneOwner' /\ Bound'
  BY <1>2 DEF TenantInv, Ten!TypeOK, OneOwner, Bound
<1> QED BY <1>5, <1>6 DEF TenantInv

\* The end of a transaction empties the setting of the connection it gives back.
LEMMA EndTransactionStep ==
  ASSUME TenantInv, NEW s \in Hands, Ten!EndTransaction(s)
  PROVE  TenantInv'
<1> DEFINE k == session[s].on
<1>1. /\ UNCHANGED <<isolated, created, bypasses, seen>> /\ k # Nobody
      /\ setting' = [setting EXCEPT ![k] = Nobody]
      /\ session' = [session EXCEPT ![s].on = Nobody]
  BY DEF Ten!EndTransaction
<1>2. /\ session[s] \in Ten!Session /\ session'[s] = [session[s] EXCEPT !.on = Nobody]
      /\ \A t \in Hands \ {s} : session'[t] = session[t]
  BY <1>1 DEF TenantInv, Ten!TypeOK
<1>3. session'[s].on = Nobody /\ session'[s] \in Ten!Session /\ k \in Papers
  BY <1>1, <1>2 DEF Ten!Session
<1>4. \A t \in Hands \ {s} : session[t].on # k
  BY <1>1 DEF TenantInv, OneOwner
<1> HIDE DEF k
<1>5. Ten!TypeOK'
  BY <1>1, <1>3 DEF TenantInv, Ten!TypeOK
<1>6. OneOwner'
  BY <1>2, <1>3 DEF TenantInv, OneOwner
<1>7. Bound'
  <2>1. ASSUME NEW t \in Hands, session'[t].on # Nobody
        PROVE  setting'[session'[t].on] = session'[t].company
    <3>1. t # s
      BY <1>3, <2>1
    <3> QED BY <1>1, <1>2, <1>4, <2>1, <3>1 DEF TenantInv, Ten!TypeOK, Bound, Ten!Session
  <2>2. ASSUME NEW c \in Papers, \A t \in Hands : session'[t].on # c
        PROVE  setting'[c] = Nobody
    <3>1. CASE c = k
      BY <1>1, <3>1 DEF TenantInv, Ten!TypeOK
    <3>2. CASE c # k
      <4>1. \A t \in Hands : session[t].on # c
        BY <1>2, <2>2, <3>2 DEF k
      <4> QED BY <1>1, <3>2, <4>1 DEF TenantInv, Ten!TypeOK, Bound
    <3> QED BY <3>1, <3>2
  <2> QED BY <2>1, <2>2 DEF Bound
<1>8. Ten!OwnRowsOnly'
  BY <1>1 DEF TenantInv, Ten!OwnRowsOnly
<1> QED BY <1>5, <1>6, <1>7, <1>8 DEF TenantInv

\* Sessions move or are at rest.
LEMMA TenancyPart == Spec => Ten!Spec
<1>1. Init => Ten!Init
  BY DEF Init
<1>2. [Next]_vars => [Ten!Next]_(Ten!dvars)
  BY DEF Next, vars, AtRest, dvars, Ten!dvars
<1> QED BY <1>1, <1>2, PTL DEF Spec, Ten!Spec

\* What is proved of sessions is true throughout.
LEMMA TenantsKept == Spec => []TenantInv
<1>1. TenantInv /\ [Ten!Next]_(Ten!dvars) => TenantInv'
  <2> SUFFICES ASSUME TenantInv, [Ten!Next]_(Ten!dvars) PROVE TenantInv'
    OBVIOUS
  <2>1. CASE UNCHANGED Ten!dvars
    BY <2>1 DEF Ten!dvars, TenantInv, Ten!TypeOK, OneOwner, Bound, Ten!OwnRowsOnly
  <2> QED BY <2>1, SchemaStep, OpenCloseStep, BeginTransactionStep, SetTenantStep, QueryStep,
             EndTransactionStep DEF Ten!Next
<1> QED BY InitTenants, <1>1, TenancyPart, PTL DEF Ten!Spec

\* On a schema that check passes, a session of the application sees exactly the rows of its
\* tenant, in every transaction it opens, on whichever pooled connection (db.py:7-11).
THEOREM TenantsApart == Spec => []OwnRowsOnly
<1>1. TenantInv => OwnRowsOnly
  BY DEF TenantInv, OwnRowsOnly
<1> QED BY <1>1, TenantsKept, PTL

---------------------------------------------------------------------------
(* Identity.                                                               *)


\* What a request is about to write.
WellFormed(q) ==
  /\ q.op \in {"none", "link", "found", "invite"}
  /\ q.company \in Companies /\ q.email \in Emails /\ q.user \in Ide!User
  /\ q.op \in {"link", "found"} => q.user.subject # Nobody
  /\ q.op \in {"found", "invite"} => q.user.exists
  /\ q.op = "link" => member[q.company][q.email].exists

\* A subject is that of one user; who has one, exists.
OneSubject == \A c, d \in Companies, e, f \in Emails :
  /\ member[c][e].subject # Nobody => member[c][e].exists
  /\ member[c][e].subject # Nobody /\ member[c][e].subject = member[d][f].subject
       => c = d /\ e = f

\* A founded company has its founder.
Founded == \A c \in Companies :
  founder[c] # "none" => founder[c] \in Emails /\ member[c][founder[c]].subject # Nobody

\* Users, founders and requests are well formed.
Members == /\ member \in [Companies -> [Emails -> Ide!User]]
           /\ founder \in [Companies -> Emails \cup {"none"}]
Pending == request \in [Hands -> {request[r] : r \in Hands}]
           /\ \A r \in Hands : WellFormed(request[r])

\* What is proved together.
IdentityInv == Members /\ Pending /\ OneSubject /\ Founded

---------------------------------------------------------------------------
\* Identity counts as everybody does.
LEMMA IdentityCounts == ASSUME NEW S PROVE Ide!Cardinality(S) = Cardinality(S)
BY DEF Ide!Cardinality, Cardinality

\* No company has a founder or a user yet.
LEMMA InitIdentity == ASSUME Ide!Init PROVE IdentityInv
<1>1. Ide!SomeCompany \in Companies /\ Ide!SomeEmail \in Emails
  BY NobodyIsNobody, SomeOfEach DEF Ide!SomeCompany, Ide!SomeEmail
<1>2. Ide!NoUser \in Ide!User
  BY DEF Ide!NoUser, Ide!User
<1>3. Members /\ OneSubject /\ Founded
  BY <1>2 DEF Ide!Init, Members, OneSubject, Founded, Ide!NoUser
<1>4. \A r \in Hands : WellFormed(request[r])
  BY <1>1, <1>2 DEF Ide!Init, Ide!NoRequest, WellFormed
<1>5. Pending
  BY <1>4 DEF Pending, Ide!Init
<1> QED BY <1>3, <1>5 DEF IdentityInv

\* A request starts: it writes nothing yet.
LEMMA OpenRequestStep ==
  ASSUME IdentityInv, NEW r \in Hands, NEW q, WellFormed(q),
         request' = [request EXCEPT ![r] = q], UNCHANGED <<founder, member, key>>
  PROVE  IdentityInv'
<1>1. \A s \in Hands : request'[s] = IF s = r THEN q ELSE request[s]
  BY DEF IdentityInv, Pending
<1>2. \A s \in Hands : WellFormed(request[s])'
  BY <1>1 DEF IdentityInv, Pending, WellFormed
<1>3. request' \in [Hands -> {request[s] : s \in Hands}']
  BY <1>1 DEF IdentityInv, Pending
<1>4. Pending'
  BY <1>2, <1>3 DEF Pending
<1> QED BY <1>4 DEF IdentityInv, Members, OneSubject, Founded

\* What is opened is well formed: a link is to a user who exists.
LEMMA Linking ==
  ASSUME IdentityInv, NEW s \in Subjects, NEW c \in Companies, NEW e \in Emails,
         member[c][e].exists
  PROVE  WellFormed([op |-> "link", company |-> c, email |-> e,
                     user |-> [member[c][e] EXCEPT !.subject = s]])
<1>1. member[c][e] \in Ide!User
  BY DEF IdentityInv, Members
<1>2. [member[c][e] EXCEPT !.subject = s] \in Ide!User
  BY <1>1 DEF Ide!User
<1>3. [member[c][e] EXCEPT !.subject = s].subject = s
  BY <1>1 DEF Ide!User
<1> QED BY <1>2, <1>3, NobodyIsNobody, SomeOfEach DEF WellFormed

\* A registration, or a sign-in, is asked for.
LEMMA RegisterStep ==
  ASSUME IdentityInv, NEW r \in Hands, NEW s \in Subjects, NEW e \in Emails,
         Ide!Register(r, s, e) \/ Ide!SignIn(r, s, e)
  PROVE  IdentityInv'
<1>1. CASE \E c \in Companies : Ide!Known(e) = {c}
             /\ Ide!Open(r, "link", c, e, [member[c][e] EXCEPT !.subject = s])
  <2>1. PICK c \in Companies : Ide!Known(e) = {c}
               /\ Ide!Open(r, "link", c, e, [member[c][e] EXCEPT !.subject = s])
    BY <1>1
  <2>2. member[c][e].exists
    BY <2>1 DEF Ide!Known
  <2> QED BY <2>1, <2>2, Linking, OpenRequestStep DEF Ide!Open
<1>2. CASE \E c \in Companies : Ide!Open(r, "found", c, e,
             [exists |-> TRUE, subject |-> s, active |-> TRUE, roles |-> {"owner", "admin"}])
  <2>1. PICK c \in Companies : Ide!Open(r, "found", c, e,
             [exists |-> TRUE, subject |-> s, active |-> TRUE, roles |-> {"owner", "admin"}])
    BY <1>2
  <2>2. [exists |-> TRUE, subject |-> s, active |-> TRUE, roles |-> {"owner", "admin"}] \in Ide!User
    BY DEF Ide!User, Ide!Role
  <2>3. WellFormed([op |-> "found", company |-> c, email |-> e, user |->
             [exists |-> TRUE, subject |-> s, active |-> TRUE, roles |-> {"owner", "admin"}]])
    BY <2>2, NobodyIsNobody, SomeOfEach DEF WellFormed
  <2> QED BY <2>1, <2>3, OpenRequestStep DEF Ide!Open
<1> QED BY <1>1, <1>2 DEF Ide!Register, Ide!SignIn

\* An invitation is asked for.
LEMMA InviteStep ==
  ASSUME IdentityInv, NEW r \in Hands, NEW c \in Companies, NEW e \in Emails, Ide!Invite(r, c, e)
  PROVE  IdentityInv'
<1>1. PICK roles \in {{"viewer"}, {"admin"}} :
        Ide!Open(r, "invite", c, e, [exists |-> TRUE, subject |-> Nobody, active |-> TRUE,
                                 roles |-> roles])
  BY DEF Ide!Invite
<1>2. [exists |-> TRUE, subject |-> Nobody, active |-> TRUE, roles |-> roles] \in Ide!User
  BY DEF Ide!User, Ide!Role
<1>3. WellFormed([op |-> "invite", company |-> c, email |-> e, user |->
        [exists |-> TRUE, subject |-> Nobody, active |-> TRUE, roles |-> roles]])
  BY <1>2 DEF WellFormed
<1> QED BY <1>1, <1>3, OpenRequestStep DEF Ide!Open

\* Closing a request without a write.
LEMMA AbandonStep ==
  ASSUME IdentityInv, NEW r \in Hands,
         request' = [request EXCEPT ![r] = Ide!NoRequest], UNCHANGED <<founder, member, key>>
  PROVE  IdentityInv'
<1>1. WellFormed(Ide!NoRequest)
  BY NobodyIsNobody, SomeOfEach DEF WellFormed, Ide!NoRequest, Ide!NoUser, Ide!User,
                                    Ide!SomeCompany, Ide!SomeEmail
<1> QED BY <1>1, OpenRequestStep

\* A user is written: it keeps its subject, or gets one that nobody else has.
Written(c, e, u) ==
  /\ u \in Ide!User
  /\ u.exists \/ u.subject = Nobody
  /\ member[c][e].exists => u.exists
  /\ \/ u.subject = member[c][e].subject
     \/ u.subject # Nobody /\ Ide!Linked(u.subject) \subseteq {<<c, e>>}
     \/ ~member[c][e].exists /\ u.subject = Nobody
  /\ member' = [member EXCEPT ![c][e] = u]
  /\ \/ founder' = founder
     \/ founder' = [founder EXCEPT ![c] = e] /\ u.subject # Nobody
  /\ \/ UNCHANGED request
     \/ \E r \in Hands : request' = [request EXCEPT ![r] = Ide!NoRequest]

\* One user is written where the constraints let it.
LEMMA WriteUserStep ==
  ASSUME IdentityInv, NEW c \in Companies, NEW e \in Emails, NEW u, Written(c, e, u)
  PROVE  IdentityInv'
<1>1. \A d \in Companies, f \in Emails :
        member'[d][f] = IF d = c /\ f = e THEN u ELSE member[d][f]
  BY DEF IdentityInv, Members, Written
<1>2. Members'
  BY DEF IdentityInv, Members, Written
<1>3. \A d \in Companies, f \in Emails :
        u.subject # Nobody /\ member[d][f].subject = u.subject => d = c /\ f = e
  <2>1. CASE u.subject = member[c][e].subject
    BY <2>1 DEF IdentityInv, OneSubject
  <2>2. CASE Ide!Linked(u.subject) \subseteq {<<c, e>>}
    <3>1. \A d \in Companies, f \in Emails :
            member[d][f].subject = u.subject => <<d, f>> \in Ide!Linked(u.subject)
      BY DEF Ide!Linked
    <3> QED BY <2>2, <3>1
  <2> QED BY <2>1, <2>2 DEF Written
<1>4. OneSubject'
  BY <1>1, <1>3 DEF IdentityInv, OneSubject, Written
<1>5. Founded'
  <2>1. \A d \in Companies, f \in Emails :
          member[d][f].subject # Nobody => member'[d][f].subject # Nobody
    BY <1>1 DEF IdentityInv, OneSubject, Written
  <2>2. CASE founder' = founder
    BY <2>1, <2>2 DEF IdentityInv, Founded
  <2>3. CASE founder' = [founder EXCEPT ![c] = e] /\ u.subject # Nobody
    BY <1>1, <2>1, <2>3 DEF IdentityInv, Founded, Members
  <2> QED BY <2>2, <2>3 DEF Written
<1>6. \A d \in Companies, f \in Emails : member[d][f].exists => member'[d][f].exists
  BY <1>1 DEF Written
<1>7. WellFormed(Ide!NoRequest)'
  BY NobodyIsNobody, SomeOfEach DEF WellFormed, Ide!NoRequest, Ide!NoUser, Ide!User,
                                    Ide!SomeCompany, Ide!SomeEmail
<1>8. \A q : WellFormed(q) => WellFormed(q)'
  BY <1>6 DEF WellFormed
<1>9. request' \in [Hands -> {request[s] : s \in Hands}']
  BY DEF IdentityInv, Pending, Written
<1>10. \A s \in Hands : request'[s] = Ide!NoRequest \/ request'[s] = request[s]
  BY DEF IdentityInv, Pending, Written
<1>11. \A s \in Hands : WellFormed(request[s])'
  BY <1>7, <1>8, <1>10 DEF IdentityInv, Pending, WellFormed
<1>13. Pending'
  BY <1>9, <1>11 DEF Pending
<1> QED BY <1>2, <1>4, <1>5, <1>13 DEF IdentityInv

\* A request commits, or meets a constraint.
LEMMA CommitRequestStep ==
  ASSUME IdentityInv, NEW r \in Hands, Ide!Commit(r)
  PROVE  IdentityInv'
<1> DEFINE q == request[r]
<1>1. WellFormed(q) /\ q.op \in {"link", "found", "invite"}
  BY DEF Ide!Commit, IdentityInv, Pending
<1>2. CASE Ide!Refused(q)
  BY <1>2, AbandonStep DEF Ide!Commit
<1>3. CASE ~Ide!Refused(q) /\ q.op = "link"
  <2> DEFINE u == [member[q.company][q.email] EXCEPT !.subject = q.user.subject]
  <2>1. member[q.company][q.email] \in Ide!User /\ member[q.company][q.email].exists
    BY <1>1, <1>3 DEF WellFormed, IdentityInv, Members
  <2>2. u \in Ide!User /\ u.exists /\ u.subject = q.user.subject
    BY <1>1, <2>1 DEF Ide!User, WellFormed
  <2>3. u.subject # Nobody /\ Ide!Linked(u.subject) \subseteq {<<q.company, q.email>>}
    BY <1>1, <1>3, <2>2 DEF WellFormed, Ide!Refused
  <2>4. member' = [member EXCEPT ![q.company][q.email] = u]
    BY <1>3 DEF Ide!Commit
  <2>5. UNCHANGED founder /\ request' = [request EXCEPT ![r] = Ide!NoRequest]
    BY <1>3 DEF Ide!Commit
  <2>6. q.company \in Companies /\ q.email \in Emails
    BY <1>1 DEF WellFormed
  <2> HIDE DEF q, u
  <2>7. Written(q.company, q.email, u)
    BY <2>2, <2>3, <2>4, <2>5 DEF Written
  <2> QED BY <2>6, <2>7, WriteUserStep
<1>4. CASE ~Ide!Refused(q) /\ q.op # "link"
  <2>1. ~member[q.company][q.email].exists
    BY <1>4 DEF Ide!Refused
  <2>2. member' = [member EXCEPT ![q.company][q.email] = q.user]
    BY <1>4 DEF Ide!Commit
  <2>3. /\ \/ founder' = founder
           \/ founder' = [founder EXCEPT ![q.company] = q.email] /\ q.op = "found"
        /\ request' = [request EXCEPT ![r] = Ide!NoRequest]
    BY <1>4 DEF Ide!Commit
  <2>4. q.op = "found" => q.user.subject # Nobody
    BY <1>1 DEF WellFormed
  <2>5. \/ q.user.subject # Nobody /\ Ide!Linked(q.user.subject) \subseteq {<<q.company, q.email>>}
        \/ q.user.subject = Nobody
    BY <1>4 DEF Ide!Refused
  <2>6. q.company \in Companies /\ q.email \in Emails /\ q.user \in Ide!User
    BY <1>1 DEF WellFormed
  <2>7. q.user.exists
    BY <1>1, <1>4 DEF WellFormed
  <2> HIDE DEF q
  <2>8. Written(q.company, q.email, q.user)
    BY <2>1, <2>2, <2>3, <2>4, <2>5, <2>6, <2>7 DEF Written
  <2> QED BY <2>6, <2>8, WriteUserStep
<1> QED BY <1>2, <1>3, <1>4

\* A user is deactivated.
LEMMA DeactivateStep ==
  ASSUME IdentityInv, NEW c \in Companies, NEW e \in Emails, Ide!Deactivate(c, e)
  PROVE  IdentityInv'
<1> DEFINE u == [member[c][e] EXCEPT !.active = FALSE]
<1>1. member[c][e] \in Ide!User
  BY DEF IdentityInv, Members
<1>2. u \in Ide!User /\ u.subject = member[c][e].subject /\ (u.exists <=> member[c][e].exists)
  BY <1>1 DEF Ide!User
<1>3. u.exists \/ u.subject = Nobody
  BY <1>2 DEF IdentityInv, OneSubject
<1>4. member' = [member EXCEPT ![c][e] = u] /\ UNCHANGED <<founder, request>>
  BY DEF Ide!Deactivate
<1> HIDE DEF u
<1>5. Written(c, e, u)
  BY <1>2, <1>3, <1>4 DEF Written
<1> QED BY <1>5, WriteUserStep

\* What a step does to the users is written, refused or left alone.
LEMMA NextIdentity == ASSUME IdentityInv, [Ide!Next]_(Ide!ivars) PROVE IdentityInv'
<1>1. ASSUME NEW k \in Keys, Ide!CreateApiKey(k) \/ Ide!UseApiKey(k) \/ Ide!Revoke(k)
      PROVE  UNCHANGED <<founder, member, request>>
  BY <1>1 DEF Ide!CreateApiKey, Ide!UseApiKey, Ide!Revoke
<1>2. CASE UNCHANGED <<founder, member, request>>
  BY <1>2 DEF IdentityInv, Members, Pending, OneSubject, Founded, WellFormed
<1>3. ASSUME NEW r \in Hands, Ide!Abandon(r) PROVE IdentityInv'
  BY <1>3, AbandonStep DEF Ide!Abandon
<1>4. CASE Ide!Next
  BY <1>1, <1>2, <1>3, <1>4, RegisterStep, InviteStep, CommitRequestStep,
     DeactivateStep DEF Ide!Next
<1> QED BY <1>2, <1>4 DEF Ide!ivars

\* One user with the subject: the set of them has at most one element.
LEMMA SoleCounts == ASSUME IdentityInv PROVE Ide!OneAccount
<1>1. ASSUME NEW s \in Subjects PROVE Cardinality(Ide!Linked(s)) <= 1
  <2>1. \A x, y \in Ide!Linked(s) : x = y
    BY NobodyIsNobody, SomeOfEach DEF Ide!Linked, IdentityInv, OneSubject
  <2>2. CASE Ide!Linked(s) = {}
    BY <2>2, FS_EmptySet
  <2>3. CASE Ide!Linked(s) # {}
    <3>1. PICK x : Ide!Linked(s) = {x}
      BY <2>1, <2>3
    <3>2. Cardinality(Ide!Linked(s)) = 1
      BY <3>1, FS_Singleton
    <3> QED BY <3>2
  <2> QED BY <2>2, <2>3
<1>2. \A c \in Companies : founder[c] # "none" => member[c][founder[c]].subject # Nobody
  BY DEF IdentityInv, Founded
<1> QED BY <1>1, <1>2, IdentityCounts DEF Ide!OneAccount

\* The users of companies move or are at rest.
LEMMA IdentityPart == Spec => Ide!Spec
<1>1. Init => Ide!Init
  BY DEF Init
<1>2. [Next]_vars => [Ide!Next]_(Ide!ivars)
  BY DEF Next, vars, AtRest, ivars, Ide!ivars
<1> QED BY <1>1, <1>2, PTL DEF Spec, Ide!Spec

\* What is proved of users and requests is true throughout.
LEMMA UsersKept == Spec => []IdentityInv
<1>1. Ide!Init => IdentityInv
  BY InitIdentity
<1>2. IdentityInv /\ [Ide!Next]_(Ide!ivars) => IdentityInv'
  BY NextIdentity
<1> QED BY <1>1, <1>2, IdentityPart, PTL DEF Ide!Spec

\* However registrations, invitations and first sign-ins overlap, an identity has one
\* account and a company its founder (api/routes.py:141-238).
THEOREM OneAccountEach == Spec => []OneAccount
<1>1. IdentityInv => OneAccount
  BY SoleCounts DEF OneAccount
<1> QED BY <1>1, UsersKept, PTL

---------------------------------------------------------------------------
(* Credit decisions.                                                       *)

\* A request keeps its shape, and one that decides knows the assessment and the limit.
Request(d) == d = [at |-> d.at, form |-> d.form, facts |-> d.facts, check |-> d.check,
                   limit |-> d.limit, arrears |-> d.arrears]
Busy == /\ desk = [o \in Hands |-> desk[o]]
        /\ \A o \in Hands :
             /\ Request(desk[o])
             /\ desk[o].at \in {"deciding", "decided"} =>
                  desk[o].check \in Checks /\ desk[o].limit \in Approvals

\* A decision and the first one are recorded together.
Recorded == /\ decided \in [Checks -> Approvals \cup {Cre!Unknown}]
            /\ first \in [Checks -> Approvals \cup {Cre!Unknown}]
            /\ \A c \in Checks : decided[c] = Cre!Unknown <=> first[c] = Cre!Unknown

\* Without an overlap, whoever is deciding is alone, and the assessment undecided ...
DecidesAlone == \A o \in Hands : desk[o].at = "deciding" /\ desk[o].check \notin overlapped =>
           /\ decided[desk[o].check] = Cre!Unknown
           /\ \A p \in Hands : desk[p].at = "deciding" /\ desk[p].check = desk[o].check => p = o

\* ... and whoever has decided is about to audit what is recorded.
Due == \A o \in Hands : desk[o].at = "decided" /\ desk[o].check \notin overlapped =>
         decided[desk[o].check] = desk[o].limit

\* DecisionStands, with the request that is to audit what is recorded.
Audited ==
  \A c \in Checks :
    /\ c \notin overlapped => decided[c] = first[c]
    /\ decided[c] # Cre!Unknown /\ c \notin lost =>
         \/ <<c, "decided", decided[c]>> \in audited
         \/ \E o \in Hands : /\ desk[o].at = "decided" /\ desk[o].check = c
                             /\ desk[o].limit = decided[c]
    /\ \A l \in Approvals : <<c, "decided", l>> \in audited /\ c \notin overlapped
                              => decided[c] = l

\* What is proved together.
CreditInv == Busy /\ Recorded /\ DecidesAlone /\ Due /\ Audited

\* No amount is unknown.
LEMMA AmountsKnown == Cre!Unknown \notin Approvals
BY ApprovalsAreAmounts DEF Cre!Unknown

\* What a request has in hand once it is free again.
LEMMA FreeRequest == Request(Cre!Free) /\ Cre!Free.at = "free"
BY DEF Request, Cre!Free

\* A column of a request is set, and the others stay.
LEMMA Columns ==
  ASSUME NEW d, Request(d), NEW x
  PROVE  /\ LET e == [d EXCEPT !.at = x] IN
            Request(e) /\ e.at = x /\ e.check = d.check /\ e.limit = d.limit
         /\ LET e == [d EXCEPT !.form = x] IN
            Request(e) /\ e.at = d.at /\ e.check = d.check /\ e.limit = d.limit
         /\ LET e == [d EXCEPT !.facts = x] IN
            Request(e) /\ e.at = d.at /\ e.check = d.check /\ e.limit = d.limit
         /\ LET e == [d EXCEPT !.check = x] IN
            Request(e) /\ e.at = d.at /\ e.check = x /\ e.limit = d.limit
         /\ LET e == [d EXCEPT !.limit = x] IN
            Request(e) /\ e.at = d.at /\ e.check = d.check /\ e.limit = x
         /\ LET e == [d EXCEPT !.arrears = x] IN
            Request(e) /\ e.at = d.at /\ e.check = d.check /\ e.limit = d.limit
<1>1. LET e == [d EXCEPT !.at = x] IN
      Request(e) /\ e.at = x /\ e.check = d.check /\ e.limit = d.limit
  BY DEF Request
<1>2. LET e == [d EXCEPT !.form = x] IN
      Request(e) /\ e.at = d.at /\ e.check = d.check /\ e.limit = d.limit
  BY DEF Request
<1>3. LET e == [d EXCEPT !.facts = x] IN
      Request(e) /\ e.at = d.at /\ e.check = d.check /\ e.limit = d.limit
  BY DEF Request
<1>4. LET e == [d EXCEPT !.check = x] IN
      Request(e) /\ e.at = d.at /\ e.check = x /\ e.limit = d.limit
  BY DEF Request
<1>5. LET e == [d EXCEPT !.limit = x] IN
      Request(e) /\ e.at = d.at /\ e.check = d.check /\ e.limit = x
  BY DEF Request
<1>6. LET e == [d EXCEPT !.arrears = x] IN
      Request(e) /\ e.at = d.at /\ e.check = d.check /\ e.limit = d.limit
  BY DEF Request
<1> QED BY <1>1, <1>2, <1>3, <1>4, <1>5, <1>6

\* Nothing is assessed, and every desk is free.
LEMMA InitCredit == Cre!Init => CreditInv
<1> SUFFICES ASSUME Cre!Init PROVE CreditInv
  OBVIOUS
<1>1. /\ desk = [o \in Hands |-> Cre!Free] /\ decided = [c \in Checks |-> Cre!Unknown]
      /\ audited = {} /\ first = [c \in Checks |-> Cre!Unknown] /\ overlapped = {} /\ lost = {}
  BY DEF Cre!Init
<1>2. \A o \in Hands : desk[o] = Cre!Free
  BY <1>1
<1>3. Busy
  BY <1>1, <1>2, FreeRequest DEF Busy
<1>4. Recorded
  BY <1>1 DEF Recorded
<1>5. DecidesAlone /\ Due
  BY <1>2, FreeRequest DEF DecidesAlone, Due
<1>6. Audited
  BY <1>1 DEF Audited
<1> QED BY <1>3, <1>4, <1>5, <1>6 DEF CreditInv

\* A step that decides nothing: requests that were not deciding still are not, and nobody
\* forgets a decision that is to be audited.
LEMMA AsideDecision ==
  ASSUME CreditInv, Busy', UNCHANGED <<decided, first, overlapped, lost>>,
         \A o \in Hands :
           \/ desk'[o].at \notin {"deciding", "decided"} /\ desk[o].at # "decided"
           \/ /\ desk'[o].at = desk[o].at /\ desk'[o].check = desk[o].check
              /\ desk'[o].limit = desk[o].limit,
         \A c \in Checks, l \in Approvals :
           <<c, "decided", l>> \in audited' <=> <<c, "decided", l>> \in audited
  PROVE  CreditInv'
<1>1. Recorded'
  BY DEF CreditInv, Recorded
<1>2. DecidesAlone' /\ Due'
  BY DEF CreditInv, DecidesAlone, Due
<1>3. Audited'
  <2> SUFFICES ASSUME NEW c \in Checks
      PROVE  /\ c \notin overlapped => decided[c] = first[c]
             /\ decided[c] # Cre!Unknown /\ c \notin lost =>
                  \/ <<c, "decided", decided[c]>> \in audited'
                  \/ \E o \in Hands : /\ desk'[o].at = "decided" /\ desk'[o].check = c
                                      /\ desk'[o].limit = decided[c]
             /\ \A l \in Approvals : <<c, "decided", l>> \in audited' /\ c \notin overlapped
                                       => decided[c] = l
    BY DEF Audited
  <2>1. decided[c] # Cre!Unknown => decided[c] \in Approvals
    BY DEF CreditInv, Recorded
  <2>2. decided[c] # Cre!Unknown /\ c \notin lost =>
          \/ <<c, "decided", decided[c]>> \in audited
          \/ \E o \in Hands : /\ desk[o].at = "decided" /\ desk[o].check = c
                              /\ desk[o].limit = decided[c]
    BY DEF CreditInv, Audited
  <2>3. \A l \in Approvals : <<c, "decided", l>> \in audited' /\ c \notin overlapped
                               => decided[c] = l
    BY DEF CreditInv, Audited
  <2>4. c \notin overlapped => decided[c] = first[c]
    BY DEF CreditInv, Audited
  <2> QED BY <2>1, <2>2, <2>3, <2>4
<1> QED BY <1>1, <1>2, <1>3 DEF CreditInv

\* The turn of one request, that leaves the others.
LEMMA TurnTaken ==
  ASSUME Busy, NEW o \in Hands, NEW d, Cre!Turn(o, d), Request(d),
         d.at \in {"deciding", "decided"} => d.check \in Checks /\ d.limit \in Approvals
  PROVE  Busy' /\ \A p \in Hands : desk'[p] = IF p = o THEN d ELSE desk[p]
<1>1. desk' = [desk EXCEPT ![o] = d]
  BY DEF Cre!Turn
<1>2. \A p \in Hands : desk'[p] = IF p = o THEN d ELSE desk[p]
  BY <1>1 DEF Busy
<1>3. desk' = [p \in Hands |-> desk'[p]]
  BY <1>1 DEF Busy
<1>4. \A p \in Hands : /\ Request(desk'[p])
                       /\ desk'[p].at \in {"deciding", "decided"} =>
                            desk'[p].check \in Checks /\ desk'[p].limit \in Approvals
  BY <1>2 DEF Busy
<1>5. Busy'
  BY <1>3, <1>4 DEF Busy, Request
<1> QED BY <1>2, <1>5

\* The ledger moves under the requests.
LEMMA LedgerMoves ==
  ASSUME CreditInv, Cre!FallsDue \/ Cre!Settled
  PROVE  CreditInv'
<1>1. PICK b : Cre!Moves(b)
  BY DEF Cre!FallsDue, Cre!Settled
<1>2. /\ UNCHANGED <<decided, audited, first, overlapped, lost>>
      /\ desk' = [o \in Hands |-> [desk[o] EXCEPT !.arrears = @ /\ b.overdue > 0]]
  BY <1>1 DEF Cre!Moves, Cre!Watched
<1>3. \A o \in Hands : /\ Request(desk'[o]) /\ desk'[o].at = desk[o].at
                       /\ desk'[o].check = desk[o].check /\ desk'[o].limit = desk[o].limit
  <2> SUFFICES ASSUME NEW o \in Hands
      PROVE  /\ Request(desk'[o]) /\ desk'[o].at = desk[o].at
             /\ desk'[o].check = desk[o].check /\ desk'[o].limit = desk[o].limit
    OBVIOUS
  <2> DEFINE x == desk[o].arrears /\ b.overdue > 0
  <2>1. desk'[o] = [desk[o] EXCEPT !.arrears = x] /\ Request(desk[o])
    BY <1>2 DEF CreditInv, Busy
  <2> HIDE DEF x
  <2> QED BY <2>1 DEF Request
<1>4. desk' = [o \in Hands |-> desk'[o]]
  BY <1>2
<1>5. Busy'
  BY <1>3, <1>4 DEF CreditInv, Busy, Request
<1> QED BY <1>2, <1>3, <1>5, AsideDecision

\* An assessment is asked for, made of what is read, stored and audited.
LEMMA CheckSteps ==
  ASSUME CreditInv, NEW o \in Hands,
         (\E f \in Forms : Cre!AskForCheck(o, f)) \/ Cre!CountSettled(o) \/ Cre!ReadOpen(o)
         \/ Cre!StoreCheck(o) \/ Cre!AuditCheck(o)
  PROVE  CreditInv'
<1>1. UNCHANGED <<decided, first, overlapped, lost>>
  BY DEF Cre!AskForCheck, Cre!CountSettled, Cre!ReadOpen, Cre!StoreCheck, Cre!AuditCheck
<1>2. desk[o].at # "decided" /\ Request(desk[o])
  BY DEF Cre!AskForCheck, Cre!CountSettled, Cre!ReadOpen, Cre!StoreCheck, Cre!AuditCheck, Cre!At,
         CreditInv, Busy
<1>3. \A c \in Checks, l \in Approvals :
        <<c, "decided", l>> \in audited' <=> <<c, "decided", l>> \in audited
  <2>1. UNCHANGED audited \/ audited' = audited \cup {<<desk[o].check, "assessed", Cre!Unknown>>}
    BY DEF Cre!AskForCheck, Cre!CountSettled, Cre!ReadOpen, Cre!StoreCheck, Cre!AuditCheck
  <2>2. \A c, l, k, m : <<c, "decided", l>> # <<k, "assessed", m>>
    OBVIOUS
  <2> QED BY <2>1, <2>2
<1>4. PICK d : Cre!Turn(o, d) /\ Request(d) /\ d.at \notin {"deciding", "decided"}
  <2>1. ASSUME NEW f \in Forms, Cre!AskForCheck(o, f)
        PROVE  \E d : Cre!Turn(o, d) /\ Request(d) /\ d.at \notin {"deciding", "decided"}
    <3> DEFINE x == books.overdue > 0
               d == [Cre!Free EXCEPT !.at = "asked", !.form = f, !.arrears = x]
    <3>1. Cre!Turn(o, d)
      BY <2>1 DEF Cre!AskForCheck
    <3> HIDE DEF x
    <3>2. Request(d) /\ d.at = "asked"
      <4> DEFINE e == [Cre!Free EXCEPT !.at = "asked"]
                 g == [e EXCEPT !.form = f]
      <4>1. Request(e) /\ e.at = "asked"
        BY FreeRequest, Columns
      <4> HIDE DEF e
      <4>2. Request(g) /\ g.at = "asked"
        BY <4>1, Columns
      <4> HIDE DEF g
      <4>3. Request([g EXCEPT !.arrears = x]) /\ [g EXCEPT !.arrears = x].at = "asked"
        BY <4>2, Columns
      <4> QED BY <4>3 DEF e, g
    <3> QED BY <3>1, <3>2
  <2>2. CASE Cre!CountSettled(o)
    <3> DEFINE n == books.settled
               d == [desk[o] EXCEPT !.at = "counted", !.facts.settled = n]
    <3>1. Cre!Turn(o, d)
      BY <2>2 DEF Cre!CountSettled
    <3> HIDE DEF n
    <3>2. Request(d) /\ d.at = "counted"
      <4> DEFINE e == [desk[o] EXCEPT !.at = "counted"]
                 x == [e.facts EXCEPT !.settled = n]
      <4>1. Request(e) /\ e.at = "counted"
        BY <1>2, Columns
      <4>2. d = [e EXCEPT !.facts = x]
        OBVIOUS
      <4> HIDE DEF d, e, x
      <4>3. Request([e EXCEPT !.facts = x]) /\ [e EXCEPT !.facts = x].at = "counted"
        BY <4>1, Columns
      <4> QED BY <4>2, <4>3
    <3> QED BY <3>1, <3>2
  <2>3. CASE Cre!ReadOpen(o)
    <3> DEFINE n == books.overdue
               w == books.worst
               d(b) == [desk[o] EXCEPT !.at = "read", !.facts.overdue = n,
                                       !.facts.worst = w, !.facts.behaviour = b]
    <3>1. PICK b \in Behaviours : Cre!Turn(o, d(b))
      BY <2>3 DEF Cre!ReadOpen
    <3> HIDE DEF n, w
    <3>2. Request(d(b)) /\ d(b).at = "read"
      <4> DEFINE e == [desk[o] EXCEPT !.at = "read"]
                 x == [e.facts EXCEPT !.overdue = n, !.worst = w, !.behaviour = b]
                 y == d(b)
      <4>1. Request(e) /\ e.at = "read"
        BY <1>2, Columns
      <4>2. y = [e EXCEPT !.facts = x]
        BY <1>2 DEF Request
      <4> HIDE DEF y, e, x
      <4>3. Request([e EXCEPT !.facts = x]) /\ [e EXCEPT !.facts = x].at = "read"
        BY <4>1, Columns
      <4>4. Request(y) /\ y.at = "read"
        BY <4>2, <4>3
      <4> QED BY <4>4 DEF y
    <3> QED BY <3>1, <3>2
  <2>4. CASE Cre!StoreCheck(o)
    <3>1. PICK c \in Checks : Cre!Turn(o, [Cre!Free EXCEPT !.at = "stored", !.check = c])
      BY <2>4 DEF Cre!StoreCheck
    <3>2. LET d == [Cre!Free EXCEPT !.at = "stored", !.check = c] IN
          Request(d) /\ d.at = "stored"
      <4> DEFINE e == [Cre!Free EXCEPT !.at = "stored"]
      <4>1. Request(e) /\ e.at = "stored"
        BY FreeRequest, Columns
      <4> HIDE DEF e
      <4>2. Request([e EXCEPT !.check = c]) /\ [e EXCEPT !.check = c].at = "stored"
        BY <4>1, Columns
      <4> QED BY <4>2 DEF e
    <3> QED BY <3>1, <3>2
  <2>5. CASE Cre!AuditCheck(o)
    BY <2>5, FreeRequest DEF Cre!AuditCheck
  <2> QED BY <2>1, <2>2, <2>3, <2>4, <2>5
<1>5. Busy' /\ \A p \in Hands : desk'[p] = IF p = o THEN d ELSE desk[p]
  BY <1>4, TurnTaken DEF CreditInv
<1> QED BY <1>1, <1>2, <1>3, <1>4, <1>5, AsideDecision

\* A person opens an assessment that is undecided: with anybody else at it, they overlap.
LEMMA OpenDecisionStep ==
  ASSUME CreditInv, NEW o \in Hands, Cre!OpenDecision(o)
  PROVE  CreditInv'
<1>1. PICK c \in Checks, l \in Approvals : decided[c] = Cre!Unknown /\ Cre!Deciding(o, c, l)
  BY DEF Cre!OpenDecision
<1> DEFINE d == [Cre!Free EXCEPT !.at = "deciding", !.check = c, !.limit = l]
<1>2. /\ Cre!Turn(o, d) /\ UNCHANGED <<decided, audited, first, lost>> /\ desk[o].at = "free"
      /\ overlapped' = IF Cre!Overlaps(o, c) THEN overlapped \cup {c} ELSE overlapped
  BY <1>1 DEF Cre!Deciding, Cre!OpenDecision, Cre!At
<1>3. Request(d) /\ d.at = "deciding" /\ d.check = c /\ d.limit = l
  <2> DEFINE e == [Cre!Free EXCEPT !.at = "deciding"]
             g == [e EXCEPT !.check = c]
  <2>1. Request(e) /\ e.at = "deciding"
    BY FreeRequest, Columns
  <2> HIDE DEF e
  <2>2. Request(g) /\ g.at = "deciding" /\ g.check = c
    BY <2>1, Columns
  <2> HIDE DEF g
  <2>3. LET h == [g EXCEPT !.limit = l] IN
        Request(h) /\ h.at = "deciding" /\ h.check = c /\ h.limit = l
    BY <2>2, Columns
  <2> QED BY <2>3 DEF e, g
<1> HIDE DEF d
<1>4. Busy' /\ \A p \in Hands : desk'[p] = IF p = o THEN d ELSE desk[p]
  BY <1>2, <1>3, TurnTaken DEF CreditInv
<1>5. c \notin overlapped' =>
        \A p \in Hands \ {o} : ~(desk[p].at = "deciding" /\ desk[p].check = c)
  BY <1>2 DEF Cre!Overlaps, Cre!At
<1>6. \A k : k \in overlapped => k \in overlapped'
  BY <1>2
<1>7. Recorded'
  BY <1>2 DEF CreditInv, Recorded
<1>8. DecidesAlone'
  <2> SUFFICES ASSUME NEW p \in Hands, desk'[p].at = "deciding", desk'[p].check \notin overlapped'
      PROVE  /\ decided[desk'[p].check] = Cre!Unknown
             /\ \A q \in Hands : desk'[q].at = "deciding" /\ desk'[q].check = desk'[p].check => q = p
    BY <1>2 DEF DecidesAlone
  <2>1. CASE p = o
    BY <1>1, <1>3, <1>4, <1>5, <2>1
  <2>2. CASE p # o
    <3>1. desk'[p] = desk[p] /\ desk[p].check \notin overlapped
      BY <1>4, <1>6, <2>2
    <3>2. desk[p].check # c
      BY <1>5, <2>2, <3>1
    <3> QED BY <1>3, <1>4, <3>1, <3>2 DEF CreditInv, DecidesAlone
  <2> QED BY <2>1, <2>2
<1>9. Due'
  BY <1>2, <1>3, <1>4, <1>6 DEF CreditInv, Due
<1>10. Audited'
  <2>1. \A p \in Hands : desk[p].at = "decided" => desk'[p] = desk[p]
    BY <1>2, <1>4
  <2> QED BY <1>2, <1>6, <2>1 DEF CreditInv, Audited
<1> QED BY <1>4, <1>7, <1>8, <1>9, <1>10 DEF CreditInv

\* The decision is recorded, whatever is there by then.
LEMMA StoreDecisionStep ==
  ASSUME CreditInv, NEW o \in Hands, Cre!StoreDecision(o)
  PROVE  CreditInv'
<1> DEFINE c == desk[o].check
           l == desk[o].limit
           d == [desk[o] EXCEPT !.at = "decided"]
<1>1. /\ desk[o].at = "deciding" /\ Cre!Turn(o, d) /\ UNCHANGED <<audited, overlapped, lost>>
      /\ decided' = [decided EXCEPT ![c] = l]
      /\ first' = [first EXCEPT ![c] = IF @ = Cre!Unknown THEN l ELSE @]
  BY DEF Cre!StoreDecision, Cre!At
<1>2. c \in Checks /\ l \in Approvals /\ Request(desk[o]) /\ l # Cre!Unknown
  BY <1>1, AmountsKnown DEF CreditInv, Busy
<1>3. Request(d) /\ d.at = "decided" /\ d.check = c /\ d.limit = l
  BY <1>2 DEF Request
<1>4. c \notin overlapped =>
        /\ decided[c] = Cre!Unknown /\ first[c] = Cre!Unknown
        /\ \A p \in Hands : desk[p].at = "deciding" /\ desk[p].check = c => p = o
  BY <1>1, <1>2 DEF CreditInv, DecidesAlone, Recorded
<1>5. c \notin overlapped =>
        /\ \A p \in Hands : ~(desk[p].at = "decided" /\ desk[p].check = c)
        /\ \A k \in Approvals : <<c, "decided", k>> \notin audited
  <2> SUFFICES ASSUME c \notin overlapped
      PROVE  /\ \A p \in Hands : ~(desk[p].at = "decided" /\ desk[p].check = c)
             /\ \A k \in Approvals : <<c, "decided", k>> \notin audited
    OBVIOUS
  <2> HIDE DEF c
  <2>1. decided[c] \notin Approvals
    BY <1>4, AmountsKnown
  <2>2. \A p \in Hands : desk[p].at = "decided" => desk[p].limit \in Approvals
    BY DEF CreditInv, Busy
  <2>3. \A p \in Hands : desk[p].at = "decided" /\ desk[p].check = c => desk[p].limit = decided[c]
    BY DEF CreditInv, Due
  <2>4. \A k \in Approvals : <<c, "decided", k>> \in audited => decided[c] = k
    BY <1>2 DEF CreditInv, Audited
  <2> QED BY <2>1, <2>2, <2>3, <2>4
<1> HIDE DEF c, l, d
<1>6. Busy' /\ \A p \in Hands : desk'[p] = IF p = o THEN d ELSE desk[p]
  BY <1>1, <1>2, <1>3, TurnTaken DEF CreditInv
<1>7. /\ decided' \in [Checks -> Approvals \cup {Cre!Unknown}]
      /\ first' \in [Checks -> Approvals \cup {Cre!Unknown}]
      /\ decided'[c] = l /\ first'[c] # Cre!Unknown
      /\ c \notin overlapped => first'[c] = l
      /\ \A k \in Checks \ {c} : decided'[k] = decided[k] /\ first'[k] = first[k]
  BY <1>1, <1>2, <1>4 DEF CreditInv, Recorded
<1>8. Recorded'
  BY <1>2, <1>7 DEF CreditInv, Recorded
<1>9. DecidesAlone'
  <2> SUFFICES ASSUME NEW p \in Hands, desk'[p].at = "deciding", desk'[p].check \notin overlapped
      PROVE  /\ decided'[desk'[p].check] = Cre!Unknown
             /\ \A q \in Hands : desk'[q].at = "deciding" /\ desk'[q].check = desk'[p].check => q = p
    BY <1>1 DEF DecidesAlone
  <2>1. p # o /\ desk'[p] = desk[p]
    BY <1>3, <1>6
  <2>2. desk[p].check # c /\ desk[p].check \in Checks
    BY <1>4, <2>1 DEF CreditInv, Busy
  <2> QED BY <1>3, <1>6, <1>7, <2>1, <2>2 DEF CreditInv, DecidesAlone
<1>10. Due'
  <2> SUFFICES ASSUME NEW p \in Hands, desk'[p].at = "decided", desk'[p].check \notin overlapped
      PROVE  decided'[desk'[p].check] = desk'[p].limit
    BY <1>1 DEF Due
  <2>1. CASE p = o
    BY <1>3, <1>6, <1>7, <2>1
  <2>2. CASE p # o
    <3>1. desk'[p] = desk[p] /\ desk[p].check \in Checks
      BY <1>6, <2>2 DEF CreditInv, Busy
    <3>2. desk[p].check # c
      BY <1>5, <3>1
    <3> QED BY <1>7, <3>1, <3>2 DEF CreditInv, Due
  <2> QED BY <2>1, <2>2
<1>11. Audited'
  <2> SUFFICES ASSUME NEW k \in Checks
      PROVE  /\ k \notin overlapped => decided'[k] = first'[k]
             /\ decided'[k] # Cre!Unknown /\ k \notin lost =>
                  \/ <<k, "decided", decided'[k]>> \in audited
                  \/ \E p \in Hands : /\ desk'[p].at = "decided" /\ desk'[p].check = k
                                      /\ desk'[p].limit = decided'[k]
             /\ \A m \in Approvals : <<k, "decided", m>> \in audited /\ k \notin overlapped
                                       => decided'[k] = m
    BY <1>1 DEF Audited
  <2>1. CASE k = c
    BY <1>3, <1>5, <1>6, <1>7, <2>1
  <2>2. CASE k # c
    <3>1. decided'[k] = decided[k] /\ first'[k] = first[k]
      BY <1>7, <2>2
    <3>2. \A p \in Hands : desk[p].at = "decided" => desk'[p] = desk[p]
      BY <1>1, <1>6
    <3> QED BY <3>1, <3>2 DEF CreditInv, Audited
  <2> QED BY <2>1, <2>2
<1> QED BY <1>6, <1>8, <1>9, <1>10, <1>11 DEF CreditInv

\* The decision is audited.
LEMMA AuditDecisionStep ==
  ASSUME CreditInv, NEW o \in Hands, Cre!AuditDecision(o)
  PROVE  CreditInv'
<1> DEFINE c == desk[o].check
           l == desk[o].limit
<1>1. /\ desk[o].at = "decided" /\ Cre!Turn(o, Cre!Free)
      /\ UNCHANGED <<decided, first, overlapped, lost>>
      /\ audited' = audited \cup {<<c, "decided", l>>}
  BY DEF Cre!AuditDecision, Cre!At
<1>2. c \in Checks /\ l \in Approvals /\ (c \notin overlapped => decided[c] = l)
  BY <1>1 DEF CreditInv, Busy, Due
<1> HIDE DEF c, l
<1>3. Busy' /\ \A p \in Hands : desk'[p] = IF p = o THEN Cre!Free ELSE desk[p]
  BY <1>1, FreeRequest, TurnTaken DEF CreditInv
<1>4. Recorded'
  BY <1>1 DEF CreditInv, Recorded
<1>5. DecidesAlone' /\ Due'
  BY <1>1, <1>3, FreeRequest DEF CreditInv, DecidesAlone, Due
<1>6. Audited'
  <2> SUFFICES ASSUME NEW k \in Checks
      PROVE  /\ k \notin overlapped => decided[k] = first[k]
             /\ decided[k] # Cre!Unknown /\ k \notin lost =>
                  \/ <<k, "decided", decided[k]>> \in audited'
                  \/ \E p \in Hands : /\ desk'[p].at = "decided" /\ desk'[p].check = k
                                      /\ desk'[p].limit = decided[k]
             /\ \A m \in Approvals : <<k, "decided", m>> \in audited' /\ k \notin overlapped
                                       => decided[k] = m
    BY <1>1 DEF Audited
  <2>1. k \notin overlapped => decided[k] = first[k]
    BY DEF CreditInv, Audited
  <2>2. ASSUME decided[k] # Cre!Unknown, k \notin lost, <<k, "decided", decided[k]>> \notin audited'
        PROVE  \E p \in Hands : /\ desk'[p].at = "decided" /\ desk'[p].check = k
                                /\ desk'[p].limit = decided[k]
    <3>1. <<k, "decided", decided[k]>> \notin audited
      BY <1>1, <2>2
    <3>2. PICK p \in Hands : /\ desk[p].at = "decided" /\ desk[p].check = k
                             /\ desk[p].limit = decided[k]
      BY <2>2, <3>1 DEF CreditInv, Audited
    <3>3. p # o
      BY <1>1, <2>2, <3>2 DEF c, l
    <3> QED BY <1>3, <3>2, <3>3
  <2>3. ASSUME NEW m \in Approvals, <<k, "decided", m>> \in audited', k \notin overlapped
        PROVE  decided[k] = m
    <3>1. CASE <<k, "decided", m>> \in audited
      BY <2>3, <3>1 DEF CreditInv, Audited
    <3>2. CASE <<k, "decided", m>> = <<c, "decided", l>>
      BY <1>2, <2>3, <3>2
    <3> QED BY <1>1, <2>3, <3>1, <3>2
  <2> QED BY <2>1, <2>2, <2>3
<1> QED BY <1>3, <1>4, <1>5, <1>6 DEF CreditInv

\* The request dies: what it was to audit is lost.
LEMMA DecisionDies ==
  ASSUME CreditInv, NEW o \in Hands, Cre!Dies(o)
  PROVE  CreditInv'
<1>1. /\ Cre!Turn(o, Cre!Free) /\ UNCHANGED <<decided, audited, first, overlapped>>
      /\ lost' = IF desk[o].at \in {"stored", "decided"} THEN lost \cup {desk[o].check} ELSE lost
  BY DEF Cre!Dies
<1>2. Busy' /\ \A p \in Hands : desk'[p] = IF p = o THEN Cre!Free ELSE desk[p]
  BY <1>1, FreeRequest, TurnTaken DEF CreditInv
<1>3. Recorded'
  BY <1>1 DEF CreditInv, Recorded
<1>4. DecidesAlone' /\ Due'
  BY <1>1, <1>2, FreeRequest DEF CreditInv, DecidesAlone, Due
<1>5. Audited'
  <2> SUFFICES ASSUME NEW k \in Checks
      PROVE  /\ k \notin overlapped => decided[k] = first[k]
             /\ decided[k] # Cre!Unknown /\ k \notin lost' =>
                  \/ <<k, "decided", decided[k]>> \in audited
                  \/ \E p \in Hands : /\ desk'[p].at = "decided" /\ desk'[p].check = k
                                      /\ desk'[p].limit = decided[k]
             /\ \A m \in Approvals : <<k, "decided", m>> \in audited /\ k \notin overlapped
                                       => decided[k] = m
    BY <1>1 DEF Audited
  <2>1. k \notin lost' => k \notin lost /\ ~(desk[o].at = "decided" /\ desk[o].check = k)
    BY <1>1
  <2> QED BY <1>2, <2>1 DEF CreditInv, Audited
<1> QED BY <1>2, <1>3, <1>4, <1>5 DEF CreditInv

\* A behaviour of the whole is one of Credit.
LEMMA CreditPart == Spec => Cre!Spec
<1>1. Init => Cre!Init
  BY DEF Init
<1>2. [Next]_vars => [Cre!Next]_(Cre!kvars)
  BY DEF Next, vars, AtRest, kvars, Cre!kvars
<1> QED BY <1>1, <1>2, PTL DEF Spec, Cre!Spec

\* The invariant of credit decisions holds throughout.
LEMMA CreditInvAlways == Spec => []CreditInv
<1>1. CreditInv /\ [Cre!Next]_(Cre!kvars) => CreditInv'
  <2> SUFFICES ASSUME CreditInv, [Cre!Next]_(Cre!kvars) PROVE CreditInv'
    OBVIOUS
  <2>1. CASE UNCHANGED Cre!kvars
    BY <2>1 DEF Cre!kvars, CreditInv, Busy, Recorded, DecidesAlone, Due, Audited, Request
  <2>2. CASE Cre!Next
    BY <2>2, LedgerMoves, CheckSteps, OpenDecisionStep, StoreDecisionStep, AuditDecisionStep,
       DecisionDies
       DEF Cre!Next
  <2> QED BY <2>1, <2>2
<1> QED BY InitCredit, <1>1, CreditPart, PTL DEF Cre!Spec

\* However many people decide on one assessment, a recorded decision stands unless another
\* overlapped it, and is audited unless the request died (api/routes.py:709-762).
THEOREM DecisionsStand == Spec => []DecisionStands
<1>1. CreditInv => DecisionStands
  BY DEF CreditInv, Audited, DecisionStands, Cre!DecisionStands
<1> QED BY <1>1, CreditInvAlways, PTL

---------------------------------------------------------------------------
(* Credit advice.                                                          *)

\* What a request has in hand has the columns of a ledger's facts.
Columned(x) == x = [settled |-> x.settled, overdue |-> x.overdue, worst |-> x.worst,
                    behaviour |-> x.behaviour]

\* A buyer who has been in arrears since the request began is so now, until the open
\* accounts are read; then what was read says so.
Careful(d, overdue) ==
  /\ Columned(d.facts)
  /\ d.at \in {"asked", "counted"} /\ d.arrears => overdue > 0
  /\ d.at = "read" /\ d.arrears => d.facts.overdue > 0

\* Nothing is offered to whoever was in arrears all through the check.
NothingForArrears ==
  \A c \in Checks : assessed[c].exists /\ assessed[c].arrears =>
    assessed[c].limit = 0 /\ assessed[c].advice = "REFER"

\* What is proved of advice, beside CreditInv.
AdviceInv == /\ \A o \in Hands : Careful(desk[o], books.overdue)
             /\ assessed = [c \in Checks |-> assessed[c]]
             /\ NothingForArrears

\* Nothing was read, and nothing is assessed.
LEMMA InitAdvice == ASSUME Cre!Init PROVE AdviceInv
<1>1. Columned(Cre!Free.facts) /\ Cre!Free.at = "free"
  BY DEF Columned, Cre!Free, Cre!NoFacts
<1>2. /\ \A o \in Hands : desk[o] = Cre!Free
      /\ assessed = [c \in Checks |-> Cre!NoRow]
  BY DEF Cre!Init
<1>3. ~Cre!NoRow.exists
  BY DEF Cre!NoRow
<1> QED BY <1>1, <1>2, <1>3 DEF AdviceInv, Careful, NothingForArrears

\* A request that is at none of the statements of a check has nothing to be careful of.
LEMMA NotChecking ==
  ASSUME NEW d, NEW n, Columned(d.facts), d.at \notin {"asked", "counted", "read"}
  PROVE  Careful(d, n)
BY DEF Careful

\* Nothing is in hand of whoever starts anew.
LEMMA StartsAnew ==
  ASSUME NEW x
  PROVE  /\ Columned(Cre!Free.facts) /\ Cre!Free.at = "free"
         /\ LET d == [Cre!Free EXCEPT !.at = x] IN
            d.at = x /\ Request(d) /\ d.facts = Cre!Free.facts
<1> DEFINE d == [Cre!Free EXCEPT !.at = x]
<1>1. Columned(Cre!Free.facts)
  BY DEF Columned, Cre!Free, Cre!NoFacts
<1>2. d.at = x /\ Request(d) /\ d.facts = Cre!Free.facts
  BY FreeRequest DEF Request
<1> QED BY <1>1, <1>2, FreeRequest

\* The turn of one request, when no account moves and no assessment is stored.
LEMMA CarefulTurn ==
  ASSUME CreditInv, AdviceInv, NEW o \in Hands, NEW d, Cre!Turn(o, d),
         Careful(d, books.overdue), UNCHANGED <<books, assessed>>
  PROVE  AdviceInv'
<1>1. \A p \in Hands : desk'[p] = IF p = o THEN d ELSE desk[p]
  BY DEF Cre!Turn, CreditInv, Busy
<1>2. \A p \in Hands : Careful(desk'[p], books.overdue)
  BY <1>1 DEF AdviceInv
<1> QED BY <1>2 DEF AdviceInv, NothingForArrears

\* The ledger moves: who is no longer in arrears is seen not to be.
LEMMA AdviceMoves ==
  ASSUME CreditInv, AdviceInv, NEW b, Cre!Moves(b)
  PROVE  AdviceInv'
<1>1. /\ books' = b /\ UNCHANGED assessed
      /\ \A o \in Hands :
           desk'[o] = [desk[o] EXCEPT !.arrears = desk[o].arrears /\ b.overdue > 0]
  BY DEF Cre!Moves, Cre!Watched
<1>2. ASSUME NEW o \in Hands PROVE Careful(desk'[o], b.overdue)
  <2> DEFINE d == desk[o]
             x == d.arrears /\ b.overdue > 0
  <2>1. Request(d) /\ Careful(d, books.overdue) /\ desk'[o] = [d EXCEPT !.arrears = x]
    BY <1>1 DEF CreditInv, Busy, AdviceInv
  <2>2. x => d.arrears /\ b.overdue > 0
    OBVIOUS
  <2> HIDE DEF d, x
  <2>3. desk'[o].at = d.at /\ desk'[o].facts = d.facts /\ desk'[o].arrears = x
    BY <2>1 DEF Request
  <2> QED BY <2>1, <2>2, <2>3 DEF Careful
<1> QED BY <1>1, <1>2 DEF AdviceInv, NothingForArrears

\* The statements of a check, before its assessment is stored.
LEMMA AdviceReads ==
  ASSUME CreditInv, AdviceInv, NEW o \in Hands,
         \/ \E f \in Forms : Cre!AskForCheck(o, f)
         \/ Cre!CountSettled(o) \/ Cre!ReadOpen(o)
  PROVE  AdviceInv'
<1>1. Request(desk[o]) /\ Careful(desk[o], books.overdue) /\ UNCHANGED <<books, assessed>>
  BY DEF CreditInv, Busy, AdviceInv, Cre!AskForCheck, Cre!CountSettled, Cre!ReadOpen
<1>2. CASE \E f \in Forms : Cre!AskForCheck(o, f)
  <2> DEFINE x == books.overdue > 0
  <2>1. PICK f \in Forms :
          Cre!Turn(o, [Cre!Free EXCEPT !.at = "asked", !.form = f, !.arrears = x])
    BY <1>2 DEF Cre!AskForCheck
  <2> DEFINE d == [Cre!Free EXCEPT !.at = "asked", !.form = f, !.arrears = x]
  <2>2. x => books.overdue > 0
    OBVIOUS
  <2> HIDE DEF x
  <2>3. d.at = "asked" /\ d.facts = Cre!Free.facts /\ d.arrears = x
    BY FreeRequest DEF Request
  <2> HIDE DEF d
  <2>4. Careful(d, books.overdue)
    BY <2>2, <2>3, StartsAnew DEF Careful
  <2> QED BY <1>1, <2>1, <2>4, CarefulTurn DEF d
<1>3. CASE Cre!CountSettled(o)
  <2> DEFINE d == [desk[o] EXCEPT !.at = "counted", !.facts.settled = books.settled]
  <2>1. desk[o].at = "asked" /\ Cre!Turn(o, d)
    BY <1>3 DEF Cre!CountSettled, Cre!At
  <2>2. d.at = "counted" /\ d.arrears = desk[o].arrears
          /\ d.facts = [desk[o].facts EXCEPT !.settled = books.settled]
    BY <1>1 DEF Request
  <2> HIDE DEF d
  <2>3. Columned(d.facts)
    BY <1>1, <2>2 DEF Careful, Columned
  <2>4. Careful(d, books.overdue)
    BY <1>1, <2>1, <2>2, <2>3 DEF Careful
  <2> QED BY <1>1, <2>1, <2>4, CarefulTurn
<1>4. CASE Cre!ReadOpen(o)
  <2>1. PICK b \in Behaviours :
          Cre!Turn(o, [desk[o] EXCEPT !.at = "read", !.facts.overdue = books.overdue,
                                      !.facts.worst = books.worst, !.facts.behaviour = b])
    BY <1>4 DEF Cre!ReadOpen
  <2> DEFINE d == [desk[o] EXCEPT !.at = "read", !.facts.overdue = books.overdue,
                                  !.facts.worst = books.worst, !.facts.behaviour = b]
  <2>2. desk[o].at = "counted"
    BY <1>4 DEF Cre!ReadOpen, Cre!At
  <2>3. d.at = "read" /\ d.arrears = desk[o].arrears
          /\ d.facts = [desk[o].facts EXCEPT !.overdue = books.overdue, !.worst = books.worst,
                                              !.behaviour = b]
    BY <1>1 DEF Request
  <2> HIDE DEF d
  <2>4. Columned(d.facts) /\ d.facts.overdue = books.overdue
    BY <1>1, <2>3 DEF Careful, Columned
  <2>5. Careful(d, books.overdue)
    BY <1>1, <2>2, <2>3, <2>4 DEF Careful
  <2> QED BY <1>1, <2>1, <2>5, CarefulTurn DEF d
<1> QED BY <1>2, <1>3, <1>4

\* The assessment is stored: arrears that were read block it.
LEMMA AdviceStored ==
  ASSUME CreditInv, AdviceInv, NEW o \in Hands, Cre!StoreCheck(o)
  PROVE  AdviceInv'
<1> DEFINE d == desk[o]
           a == Cre!Assess(d.form, d.facts)
           r == [exists |-> TRUE, form |-> d.form, facts |-> d.facts, arrears |-> d.arrears,
                 limit |-> a.limit, advice |-> a.advice]
<1>1. PICK c \in Checks : /\ assessed' = [assessed EXCEPT ![c] = r]
                          /\ Cre!Turn(o, [Cre!Free EXCEPT !.at = "stored", !.check = c])
  BY DEF Cre!StoreCheck
<1>2. d.at = "read" /\ UNCHANGED books /\ Careful(d, books.overdue)
  BY DEF Cre!StoreCheck, Cre!At, AdviceInv
<1>3. d.arrears => a.limit = 0 /\ a.advice = "REFER"
  <2>1. d.arrears => Cre!Blocked(d.form, d.facts)
    BY <1>2 DEF Careful, Cre!Blocked
  <2> QED BY <2>1 DEF Cre!Assess
<1>4. r.arrears = d.arrears /\ r.limit = a.limit /\ r.advice = a.advice
  OBVIOUS
<1> HIDE DEF d, a, r
<1>5. /\ assessed' = [k \in Checks |-> assessed'[k]]
      /\ \A k \in Checks : assessed'[k] = IF k = c THEN r ELSE assessed[k]
  BY <1>1 DEF AdviceInv
<1>6. NothingForArrears'
  BY <1>3, <1>4, <1>5 DEF AdviceInv, NothingForArrears
<1> DEFINE e == [Cre!Free EXCEPT !.at = "stored", !.check = c]
<1>7. e.at = "stored" /\ e.facts = Cre!Free.facts
  BY FreeRequest DEF Request
<1> HIDE DEF e
<1>8. Careful(e, books.overdue)
  BY <1>7, StartsAnew, NotChecking
<1>9. \A p \in Hands : desk'[p] = IF p = o THEN e ELSE desk[p]
  BY <1>1 DEF e, Cre!Turn, CreditInv, Busy
<1>10. \A p \in Hands : Careful(desk'[p], books.overdue)
  BY <1>8, <1>9 DEF AdviceInv
<1> QED BY <1>2, <1>5, <1>6, <1>10 DEF AdviceInv

\* What comes after the assessment reads no account.
LEMMA AdviceAside ==
  ASSUME CreditInv, AdviceInv, NEW o \in Hands,
         \/ Cre!AuditCheck(o) \/ Cre!OpenDecision(o) \/ Cre!StoreDecision(o)
         \/ Cre!AuditDecision(o) \/ Cre!Dies(o)
  PROVE  AdviceInv'
<1>1. UNCHANGED <<books, assessed>> /\ Request(desk[o]) /\ Columned(desk[o].facts)
  BY DEF CreditInv, Busy, AdviceInv, Careful, Cre!AuditCheck, Cre!OpenDecision, Cre!Deciding,
         Cre!StoreDecision, Cre!AuditDecision, Cre!Dies
<1>2. CASE Cre!AuditCheck(o) \/ Cre!AuditDecision(o) \/ Cre!Dies(o)
  <2>1. Cre!Turn(o, Cre!Free)
    BY <1>2 DEF Cre!AuditCheck, Cre!AuditDecision, Cre!Dies
  <2>2. Careful(Cre!Free, books.overdue)
    BY StartsAnew, NotChecking
  <2> QED BY <1>1, <2>1, <2>2, CarefulTurn
<1>3. CASE Cre!OpenDecision(o)
  <2>1. PICK c \in Checks, l \in Approvals :
          Cre!Turn(o, [Cre!Free EXCEPT !.at = "deciding", !.check = c, !.limit = l])
    BY <1>3 DEF Cre!OpenDecision, Cre!Deciding
  <2> DEFINE d == [Cre!Free EXCEPT !.at = "deciding", !.check = c, !.limit = l]
  <2>2. d.at = "deciding" /\ d.facts = Cre!Free.facts
    BY FreeRequest DEF Request
  <2> HIDE DEF d
  <2>3. Careful(d, books.overdue)
    BY <2>2, StartsAnew, NotChecking
  <2> QED BY <1>1, <2>1, <2>3, CarefulTurn DEF d
<1>4. CASE Cre!StoreDecision(o)
  <2> DEFINE d == [desk[o] EXCEPT !.at = "decided"]
  <2>1. Cre!Turn(o, d)
    BY <1>4 DEF Cre!StoreDecision
  <2>2. d.at = "decided" /\ d.facts = desk[o].facts
    BY <1>1 DEF Request
  <2> HIDE DEF d
  <2>3. Careful(d, books.overdue)
    BY <1>1, <2>2, NotChecking
  <2> QED BY <1>1, <2>1, <2>3, CarefulTurn
<1> QED BY <1>2, <1>3, <1>4

\* What is proved of advice is true throughout.
LEMMA AdviceKept == Spec => []AdviceInv
<1>1. CreditInv /\ AdviceInv /\ [Cre!Next]_(Cre!kvars) => AdviceInv'
  <2> SUFFICES ASSUME CreditInv, AdviceInv, [Cre!Next]_(Cre!kvars) PROVE AdviceInv'
    OBVIOUS
  <2>1. CASE UNCHANGED Cre!kvars
    BY <2>1 DEF Cre!kvars, AdviceInv, Careful, NothingForArrears
  <2>2. CASE Cre!FallsDue \/ Cre!Settled
    BY <2>2, AdviceMoves DEF Cre!FallsDue, Cre!Settled
  <2>3. CASE Cre!Next /\ ~(Cre!FallsDue \/ Cre!Settled)
    BY <2>3, AdviceReads, AdviceStored, AdviceAside DEF Cre!Next
  <2> QED BY <2>1, <2>2, <2>3
<1>2. Init => AdviceInv
  BY InitAdvice DEF Init
<1> QED BY <1>1, <1>2, CreditInvAlways, CreditPart, PTL DEF Spec, Cre!Spec

\* Whoever is in arrears all through a check is offered nothing, however the ledger moves
\* between its statements (api/routes.py:492-546, 579-682, creditworthiness.py:226-271): the first
\* part of SafeAdvice.
THEOREM ArrearsBuyNothing == Spec => []NothingForArrears
<1>1. AdviceInv => NothingForArrears
  BY DEF AdviceInv
<1> QED BY <1>1, AdviceKept, PTL

---------------------------------------------------------------------------
(* Resolution.                                                             *)

LEMMA Percent ==
  ASSUME NEW c \in Nat, NEW u \in Nat \ {0}, c <= u
  PROVE  (100 * c) \div u \in 0 .. 100
<1> DEFINE q == (100 * c) \div u
<1>1. q \in Int /\ u * q <= 100 * c /\ 100 * c < u * (q + 1)
  OBVIOUS
<1> HIDE DEF q
<1>2. q >= 0
  <2> SUFFICES ASSUME q + 1 <= 0 PROVE FALSE
    BY <1>1
  <2>1. u * (q + 1) <= 0
    BY <1>1
  <2> QED
    BY <1>1, <2>1
<1>3. q <= 100
  <2> SUFFICES ASSUME 101 <= q PROVE FALSE
    BY <1>1
  <2>1. u * 101 <= u * q
    BY <1>1
  <2> QED
    BY <1>1, <2>1
<1> QED
  BY <1>1, <1>2, <1>3 DEF q

LEMMA SimilarityPercent ==
  ASSUME NEW a, NEW b, IsFiniteSet(a), IsFiniteSet(b)
  PROVE  Res!Similarity(a, b) \in 0 .. 100
<1>0. Res!Cardinality(a \cap b) = Cardinality(a \cap b) /\ Res!Cardinality(a \cup b) = Cardinality(a \cup b)
  BY DEF Res!Cardinality, Cardinality
<1>1. CASE a = {} \/ b = {}
  BY <1>1 DEF Res!Similarity
<1>2. CASE ~(a = {} \/ b = {})
  <2>1. IsFiniteSet(a \cup b) /\ a \cup b # {}
    BY <1>2, FS_Union
  <2>2. Cardinality(a \cap b) \in Nat /\ Cardinality(a \cap b) <= Cardinality(a \cup b)
    <3>1. a \cap b \subseteq a \cup b
      OBVIOUS
    <3> QED
      BY <2>1, <3>1, FS_Subset, FS_CardinalityType
  <2>3. Cardinality(a \cup b) \in Nat \ {0}
    BY <2>1, FS_CardinalityType, FS_EmptySet
  <2>4. Res!Similarity(a, b) = (100 * Cardinality(a \cap b)) \div Cardinality(a \cup b)
    BY <1>0, <1>2 DEF Res!Similarity
  <2> QED
    BY <2>2, <2>3, <2>4, Percent
<1> QED
  BY <1>1, <1>2

Tiers == {"IDENTIFIER", "STRUCTURAL", "NAME_STRONG", "NAME_WEAK", "NONE"}

\* What a verdict says.
LEMMA Verdicts ==
  ASSUME NEW r \in Found
  PROVE  /\ Res!Resolve(r).tier \in Tiers /\ Res!Resolve(r).confidence \in 0 .. 100
         /\ Res!SharesIdentifier(r) => Res!Resolve(r).tier = "IDENTIFIER"
         /\ Res!Resolve(r).tier = "IDENTIFIER" => Res!SharesIdentifier(r)
         /\ Res!Resolve(r).vetoed => ~Res!SharesIdentifier(r)
         /\ (/\ Res!Contradict(Res!StateOf(Entity), Res!StateOf(r))
             /\ Res!Contradict(Res!PanOf(Entity), Res!PanOf(r))
             /\ ~Res!SharesIdentifier(r)) => Res!Resolve(r).vetoed
<1> DEFINE similarity == Res!Similarity(Entity.name, r.name)
<1>1. similarity \in 0 .. 100
  BY NamesAreWords, SimilarityPercent
<1>2. Res!Min({75, similarity}) \in 0 .. 100 /\ Res!Min({50, similarity}) \in 0 .. 100
  <2> HIDE DEF similarity
  <2> QED
    BY <1>1 DEF Res!Min
<1>3. CASE Res!SharesIdentifier(r)
  <2>1. Res!Resolve(r) = Res!Verdict("IDENTIFIER", 100, FALSE)
    BY <1>3 DEF Res!Resolve
  <2>2. /\ Res!Resolve(r).tier = "IDENTIFIER" /\ Res!Resolve(r).confidence = 100
        /\ ~Res!Resolve(r).vetoed
    BY <2>1 DEF Res!Verdict
  <2> QED
    BY <1>3, <2>2 DEF Tiers
<1>4. CASE ~Res!SharesIdentifier(r) /\ Res!Agree(Res!PanOf(Entity), Res!PanOf(r))
  <2>1. Res!Resolve(r) = Res!Verdict("STRUCTURAL", 90, FALSE)
    BY <1>4 DEF Res!Resolve
  <2>2. ~Res!Contradict(Res!PanOf(Entity), Res!PanOf(r))
    BY <1>4 DEF Res!Agree, Res!Contradict
  <2>3. /\ Res!Resolve(r).tier = "STRUCTURAL" /\ Res!Resolve(r).confidence = 90
        /\ ~Res!Resolve(r).vetoed
    BY <2>1 DEF Res!Verdict
  <2> QED
    BY <1>4, <2>2, <2>3 DEF Tiers
<1>5. CASE ~Res!SharesIdentifier(r) /\ ~Res!Agree(Res!PanOf(Entity), Res!PanOf(r))
  <2> DEFINE vetoed == /\ Res!Contradict(Res!StateOf(Entity), Res!StateOf(r))
                       /\ Res!Contradict(Res!PanOf(Entity), Res!PanOf(r))
  <2>1. \/ vetoed /\ Res!Resolve(r) = Res!Verdict("NONE", 0, TRUE)
        \/ ~vetoed /\ Res!Resolve(r) = Res!Verdict("NAME_STRONG", Res!Min({75, similarity}), FALSE)
        \/ ~vetoed /\ Res!Resolve(r) = Res!Verdict("NAME_WEAK", Res!Min({50, similarity}), FALSE)
        \/ ~vetoed /\ Res!Resolve(r) = Res!Verdict("NONE", similarity, FALSE)
    BY <1>5 DEF Res!Resolve
  <2> HIDE DEF similarity
  <2>2. /\ Res!Resolve(r).tier \in {"NAME_STRONG", "NAME_WEAK", "NONE"}
        /\ Res!Resolve(r).confidence \in 0 .. 100
    BY <1>1, <1>2, <2>1 DEF Res!Verdict
  <2>3. vetoed => Res!Resolve(r).vetoed
    BY <2>1 DEF Res!Verdict
  <2> QED
    BY <1>5, <2>2, <2>3 DEF Tiers
<1> QED
  BY <1>3, <1>4, <1>5

\* Each tier has its own rank.
LEMMA Ranks ==
  /\ \A v, w \in Tiers : Res!TierRank[v] = Res!TierRank[w] => v = w
  /\ \A v \in Tiers : Res!TierRank[v] \in 0 .. 4
  /\ Res!TierRank["IDENTIFIER"] = 4
<1>1. /\ Res!TierRank["IDENTIFIER"] = 4 /\ Res!TierRank["STRUCTURAL"] = 3
      /\ Res!TierRank["NAME_STRONG"] = 2 /\ Res!TierRank["NAME_WEAK"] = 1
      /\ Res!TierRank["NONE"] = 0
  BY DEF Res!TierRank
<1> QED
  BY <1>1 DEF Tiers

\* The sort compares a number.
Score(r) == 101 * Res!TierRank[Res!Resolve(r).tier] + Res!Resolve(r).confidence

LEMMA Scores ==
  ASSUME NEW r \in Found, NEW t \in Found
  PROVE  /\ Score(r) \in 0 .. 504 /\ Score(t) \in 0 .. 504
         /\ Res!Better(Res!Resolve(r), Res!Resolve(t)) => Score(t) < Score(r)
         /\ Score(t) < Score(r) => Res!Better(Res!Resolve(r), Res!Resolve(t))
         /\ Res!Resolve(r).confidence \in 0 .. 100 /\ Res!Resolve(t).confidence \in 0 .. 100
         /\ Res!Resolve(r).tier = Res!Resolve(t).tier =>
              Score(r) - Score(t) = Res!Resolve(r).confidence - Res!Resolve(t).confidence
         /\ Score(r) = Score(t) => Res!Resolve(r).tier = Res!Resolve(t).tier
         /\ Res!Resolve(r).tier = "IDENTIFIER" /\ Score(r) <= Score(t) =>
              Res!Resolve(t).tier = "IDENTIFIER"
<1> DEFINE v == Res!Resolve(r)
           w == Res!Resolve(t)
<1>2. v.tier \in Tiers /\ w.tier \in Tiers /\ v.confidence \in 0 .. 100 /\ w.confidence \in 0 .. 100
  BY Verdicts
<1> HIDE DEF v, w
<1>3. /\ Res!TierRank[v.tier] \in 0 .. 4 /\ Res!TierRank[w.tier] \in 0 .. 4
      /\ Res!TierRank[v.tier] = Res!TierRank[w.tier] => v.tier = w.tier
      /\ v.tier = "IDENTIFIER" => Res!TierRank[v.tier] = 4
      /\ Res!TierRank[w.tier] = 4 => w.tier = "IDENTIFIER"
  BY <1>2, Ranks DEF Tiers
<1>4. PICK a \in 0 .. 4, b \in 0 .. 4, c \in 0 .. 100, d \in 0 .. 100 :
        /\ Res!TierRank[v.tier] = a /\ Res!TierRank[w.tier] = b
        /\ v.confidence = c /\ w.confidence = d
  BY <1>2, <1>3
<1>5. Score(r) = 101 * a + c /\ Score(t) = 101 * b + d
  BY <1>4 DEF Score, v, w
<1>6. Res!Better(v, w) => a > b \/ (a = b /\ c > d)
  BY <1>3, <1>4 DEF Res!Better
<1>7. a > b \/ (a = b /\ c > d) => Res!Better(v, w)
  BY <1>3, <1>4 DEF Res!Better
<1>8. /\ Score(r) \in 0 .. 504 /\ Score(t) \in 0 .. 504
      /\ Score(t) < Score(r) => a > b \/ (a = b /\ c > d)
      /\ a > b \/ (a = b /\ c > d) => Score(t) < Score(r)
      /\ a = b => Score(r) - Score(t) = c - d
      /\ Score(r) = Score(t) => a = b
      /\ a = 4 /\ Score(r) <= Score(t) => b = 4
  BY <1>5
<1>9. /\ Res!Better(v, w) => Score(t) < Score(r)
      /\ Score(t) < Score(r) => Res!Better(v, w)
  BY <1>6, <1>7, <1>8
<1>10. /\ v.tier = w.tier => Score(r) - Score(t) = v.confidence - w.confidence
       /\ Score(r) = Score(t) => v.tier = w.tier
       /\ v.tier = "IDENTIFIER" /\ Score(r) <= Score(t) => w.tier = "IDENTIFIER"
  BY <1>3, <1>4, <1>8
<1> QED
  BY <1>2, <1>8, <1>9, <1>10 DEF v, w

\* Records that sources have returned, in some order.
Listed(rs) == DOMAIN rs \subseteq Nat /\ \A i \in DOMAIN rs : rs[i] \in Found

\* The sort puts one of them first: of those with the highest score the first in the list.
LEMMA Foremost ==
  ASSUME NEW rs, Listed(rs), NEW s \in SUBSET (DOMAIN rs), s # {}
  PROVE  /\ Res!Foremost(rs, s) \in s
         /\ \A j \in s : Score(rs[j]) <= Score(rs[Res!Foremost(rs, s)])
<1> DEFINE Low(i) == 504 - Score(rs[i])
           N == {Low(i) : i \in s}
<1>1. \A i \in s : i \in Nat /\ rs[i] \in Found /\ Score(rs[i]) \in 0 .. 504
  BY Scores DEF Listed
<1>2. N \subseteq Nat /\ N # {}
  BY <1>1
<1>3. PICK m \in N : \A n \in N : ~(n < m)
  <2> HIDE DEF N
  <2>1. PICK m \in N : \A n \in N : ~(<<n, m>> \in OpToRel(<, Nat))
    BY <1>2, WFMin, NatLessThanWellFounded
  <2> QED
    BY <1>2, <2>1 DEF OpToRel
<1> DEFINE T == {i \in s : Low(i) = m}
<1>4. T \subseteq Nat /\ T # {}
  BY <1>1
<1>5. PICK i \in T : \A j \in T : ~(j < i)
  <2> HIDE DEF T
  <2>1. PICK i \in T : \A j \in T : ~(<<j, i>> \in OpToRel(<, Nat))
    BY <1>4, WFMin, NatLessThanWellFounded
  <2> QED
    BY <1>4, <2>1 DEF OpToRel
<1>6. ASSUME NEW j \in s PROVE Score(rs[j]) <= Score(rs[i])
  <2>1. ~(Low(j) < Low(i)) /\ i \in s
    BY <1>3, <1>5
  <2>2. PICK x \in 0 .. 504, y \in 0 .. 504 : Score(rs[i]) = x /\ Score(rs[j]) = y
    BY <1>1, <2>1
  <2>3. ~(504 - y < 504 - x)
    BY <2>1, <2>2
  <2> QED
    BY <2>2, <2>3
<1>7. ASSUME NEW j \in s \ {i} PROVE Res!Ahead(rs, i, j)
  <2>1. i \in s /\ j \in s /\ i \in Nat /\ j \in Nat /\ rs[i] \in Found /\ rs[j] \in Found
        /\ Score(rs[i]) \in 0 .. 504 /\ Score(rs[j]) \in 0 .. 504
    BY <1>1, <1>5
  <2>2. CASE Score(rs[j]) < Score(rs[i])
    <3>1. Res!Better(Res!Resolve(rs[i]), Res!Resolve(rs[j]))
      BY <2>1, <2>2, Scores
    <3> QED
      BY <3>1 DEF Res!Ahead
  <2>3. CASE ~(Score(rs[j]) < Score(rs[i]))
    <3>1. Score(rs[j]) = Score(rs[i])
      <4>1. PICK x \in 0 .. 504, y \in 0 .. 504 : Score(rs[i]) = x /\ Score(rs[j]) = y
        BY <2>1
      <4>2. y <= x /\ ~(y < x)
        BY <1>6, <2>1, <2>3, <4>1
      <4> QED
        BY <4>1, <4>2
    <3>2. j \in T
      BY <1>5, <2>1, <3>1
    <3>3. i < j
      BY <1>5, <1>7, <2>1, <3>2
    <3>4. ~Res!Better(Res!Resolve(rs[j]), Res!Resolve(rs[i]))
      BY <2>1, <3>1, Scores
    <3> QED
      BY <3>3, <3>4 DEF Res!Ahead
  <2> QED
    BY <2>2, <2>3
<1>8. i \in s /\ \A j \in s \ {i} : Res!Ahead(rs, i, j)
  BY <1>5, <1>7
<1> DEFINE f == Res!Foremost(rs, s)
<1>9. f \in s /\ \A j \in s \ {f} : Res!Ahead(rs, f, j)
  <2>1. f = CHOOSE k \in s : \A j \in s \ {k} : Res!Ahead(rs, k, j)
    BY DEF Res!Foremost
  <2> HIDE DEF f
  <2> QED
    BY <1>8, <2>1
<1> HIDE DEF f
<1>10. ASSUME NEW j \in s PROVE Score(rs[j]) <= Score(rs[f])
  <2>1. /\ rs[f] \in Found /\ rs[j] \in Found
        /\ Score(rs[f]) \in 0 .. 504 /\ Score(rs[j]) \in 0 .. 504
    BY <1>1, <1>9
  <2>2. CASE j = f
    BY <2>1, <2>2
  <2>3. CASE j # f
    <3>1. Res!Ahead(rs, f, j)
      BY <1>9, <2>3
    <3>2. \/ Res!Better(Res!Resolve(rs[f]), Res!Resolve(rs[j]))
          \/ ~Res!Better(Res!Resolve(rs[j]), Res!Resolve(rs[f]))
      BY <3>1 DEF Res!Ahead
    <3>3. Score(rs[j]) < Score(rs[f]) \/ ~(Score(rs[f]) < Score(rs[j]))
      BY <2>1, <3>2, Scores
    <3>4. PICK x \in 0 .. 504, y \in 0 .. 504 : Score(rs[f]) = x /\ Score(rs[j]) = y
      BY <2>1
    <3>5. y < x \/ ~(x < y)
      BY <3>3, <3>4
    <3>6. y <= x
      BY <3>5
    <3> QED
      BY <3>4, <3>6
  <2> QED
    BY <2>2, <2>3
<1> QED
  BY <1>9, <1>10 DEF f

\* Between two of a tier are none of another.
LEMMA Between ==
  ASSUME NEW r \in Found, NEW s \in Found, NEW t \in Found,
         Res!Resolve(r).tier = Res!Resolve(t).tier,
         Score(r) <= Score(s), Score(s) <= Score(t)
  PROVE  Res!Resolve(s).tier = Res!Resolve(r).tier
<1> DEFINE Rank(x) == Res!TierRank[Res!Resolve(x).tier]
<1>1. \A x \in Found : /\ Rank(x) \in 0 .. 4 /\ Res!Resolve(x).tier \in Tiers
                       /\ Res!Resolve(x).confidence \in 0 .. 100
  BY Ranks, Verdicts
<1>2. PICK a \in 0 .. 4, b \in 0 .. 4, c \in 0 .. 100, d \in 0 .. 100, e \in 0 .. 100 :
        /\ Rank(r) = a /\ Rank(t) = a /\ Rank(s) = b
        /\ Res!Resolve(r).confidence = c /\ Res!Resolve(s).confidence = d
        /\ Res!Resolve(t).confidence = e
  BY <1>1
<1>3. Score(r) = 101 * a + c /\ Score(s) = 101 * b + d /\ Score(t) = 101 * a + e
  BY <1>2 DEF Score
<1>4. a = b
  BY <1>3
<1> QED
  BY <1>1, <1>2, <1>4, Ranks

\* One that outscores the others, and those of its tier by far.
Clear(rs, i) ==
  /\ i \in Res!Scored(rs)
  /\ \A j \in Res!Scored(rs) \ {i} :
       /\ Score(rs[j]) < Score(rs[i])
       /\ Res!Resolve(rs[i]).tier = Res!Resolve(rs[j]).tier =>
            Res!Resolve(rs[i]).confidence - Res!Resolve(rs[j]).confidence >= 5

\* It is the match ...
LEMMA ClearMatch ==
  ASSUME NEW rs, Listed(rs), NEW i, Clear(rs, i)
  PROVE  Res!BestMatch(rs) = Res!Answer(rs[i])
<1> DEFINE scored == Res!Scored(rs)
           others == scored \ {i}
           best == Res!Resolve(rs[i])
           next == Res!Resolve(rs[Res!Foremost(rs, others)])
<1>1. scored \in SUBSET (DOMAIN rs) /\ i \in scored
  BY DEF Clear, Res!Scored
<1>2. \A j \in scored : rs[j] \in Found /\ Score(rs[j]) \in 0 .. 504
  BY <1>1, Scores DEF Listed
<1>3. Res!Foremost(rs, scored) = i
  <2>1. /\ Res!Foremost(rs, scored) \in scored
        /\ Score(rs[i]) <= Score(rs[Res!Foremost(rs, scored)])
    <3> HIDE DEF scored
    <3> QED
      BY <1>1, Foremost
  <2>2. PICK f : f = Res!Foremost(rs, scored)
    OBVIOUS
  <2>3. f \in scored /\ Score(rs[i]) <= Score(rs[f])
    BY <2>1, <2>2
  <2>4. PICK x \in 0 .. 504, y \in 0 .. 504 : Score(rs[i]) = x /\ Score(rs[f]) = y
    BY <1>1, <1>2, <2>3
  <2>5. f # i => y < x
    BY <2>3, <2>4 DEF Clear
  <2>6. x <= y
    BY <2>3, <2>4
  <2> QED
    BY <2>2, <2>4, <2>5, <2>6
<1>4. ~(others # {} /\ best.tier = next.tier /\ best.confidence - next.confidence < 5
          /\ best.tier # "IDENTIFIER")
  <2> SUFFICES ASSUME others # {}, best.tier = next.tier, best.confidence - next.confidence < 5
               PROVE  FALSE
    OBVIOUS
  <2>1. Res!Foremost(rs, others) \in others
    <3>1. others \in SUBSET (DOMAIN rs)
      BY <1>1
    <3> HIDE DEF others
    <3> QED
      BY <3>1, Foremost
  <2>2. best.confidence - next.confidence >= 5
    BY <2>1 DEF Clear
  <2>3. best.confidence \in 0 .. 100 /\ next.confidence \in 0 .. 100
    BY <1>1, <1>2, <2>1, Scores
  <2> QED
    BY <2>2, <2>3
<1> QED
  BY <1>1, <1>3, <1>4 DEF Res!BestMatch

\* ... and without one, below an identifier, there is none.
LEMMA NoClearMatch ==
  ASSUME NEW rs, Listed(rs), \A i \in Res!Scored(rs) : ~Clear(rs, i),
         \A i \in Res!Scored(rs) : Res!Resolve(rs[i]).tier # "IDENTIFIER"
  PROVE  Res!BestMatch(rs) = Res!NoAnswer
<1> DEFINE scored == Res!Scored(rs)
<1>1. scored \in SUBSET (DOMAIN rs)
  BY DEF Res!Scored
<1>2. \A j \in scored : rs[j] \in Found /\ Score(rs[j]) \in 0 .. 504
                        /\ Res!Resolve(rs[j]).confidence \in 0 .. 100
  BY <1>1, Scores DEF Listed
<1>3. CASE scored = {}
  BY <1>3 DEF Res!BestMatch
<1>4. CASE scored # {}
  <2>1. PICK f : f = Res!Foremost(rs, scored)
    OBVIOUS
  <2>2. f \in scored /\ \A j \in scored : Score(rs[j]) <= Score(rs[f])
    <3> HIDE DEF scored
    <3> QED
      BY <1>1, <1>4, <2>1, Foremost
  <2>3. PICK j \in scored \ {f} :
          \/ ~(Score(rs[j]) < Score(rs[f]))
          \/ /\ Res!Resolve(rs[f]).tier = Res!Resolve(rs[j]).tier
             /\ ~(Res!Resolve(rs[f]).confidence - Res!Resolve(rs[j]).confidence >= 5)
    BY <2>2 DEF Clear
  <2>4. Score(rs[f]) - Score(rs[j]) < 5 /\ Res!Resolve(rs[f]).tier = Res!Resolve(rs[j]).tier
    <3>1. CASE ~(Score(rs[j]) < Score(rs[f]))
      <4>1. PICK x \in 0 .. 504, y \in 0 .. 504 : Score(rs[f]) = x /\ Score(rs[j]) = y
        BY <1>2, <2>2, <2>3
      <4>2. y <= x /\ ~(y < x)
        BY <2>2, <2>3, <3>1, <4>1
      <4>3. x = y
        BY <4>2
      <4> QED
        BY <1>2, <2>2, <2>3, <4>1, <4>3, Scores
    <3>2. CASE /\ Res!Resolve(rs[f]).tier = Res!Resolve(rs[j]).tier
               /\ ~(Res!Resolve(rs[f]).confidence - Res!Resolve(rs[j]).confidence >= 5)
      <4>1. Score(rs[f]) - Score(rs[j])
              = Res!Resolve(rs[f]).confidence - Res!Resolve(rs[j]).confidence
        BY <1>2, <2>2, <3>2, Scores
      <4> QED
        BY <1>2, <2>2, <3>2, <4>1
    <3> QED
      BY <2>3, <3>1, <3>2
  <2> DEFINE others == scored \ {f}
  <2>5. PICK g : g = Res!Foremost(rs, others)
    OBVIOUS
  <2>6. g \in others /\ Score(rs[j]) <= Score(rs[g])
    <3>1. others \in SUBSET (DOMAIN rs) /\ others # {} /\ j \in others
      BY <1>1, <2>3
    <3> HIDE DEF others
    <3> QED
      BY <2>5, <3>1, Foremost
  <2>7. Score(rs[g]) <= Score(rs[f]) /\ g \in scored
    BY <2>2, <2>6
  <2>8. Res!Resolve(rs[g]).tier = Res!Resolve(rs[f]).tier
    BY <1>2, <2>2, <2>3, <2>4, <2>6, <2>7, Between
  <2>9. Res!Resolve(rs[f]).confidence - Res!Resolve(rs[g]).confidence < 5
    <3>1. Score(rs[f]) - Score(rs[g])
            = Res!Resolve(rs[f]).confidence - Res!Resolve(rs[g]).confidence
      BY <1>2, <2>2, <2>7, <2>8, Scores
    <3>2. PICK x \in 0 .. 504, y \in 0 .. 504, z \in 0 .. 504 :
            Score(rs[f]) = x /\ Score(rs[j]) = y /\ Score(rs[g]) = z
      BY <1>2, <2>2, <2>3, <2>7
    <3>3. x - y < 5 /\ y <= z
      BY <2>4, <2>6, <3>2
    <3>4. x - z < 5
      BY <3>3
    <3> QED
      BY <3>1, <3>2, <3>4
  <2>10. Res!Resolve(rs[f]).tier # "IDENTIFIER"
    BY <2>2
  <2> HIDE DEF scored
  <2> QED
    BY <1>4, <2>1, <2>5, <2>6, <2>8, <2>9, <2>10 DEF Res!BestMatch, scored
<1> QED
  BY <1>3, <1>4

\* An identifier is not outvoted.
LEMMA IdentifierMatches ==
  ASSUME NEW rs, Listed(rs), NEW i \in Res!Scored(rs), Res!Resolve(rs[i]).tier = "IDENTIFIER"
  PROVE  \E k \in Res!Scored(rs) : /\ Res!Resolve(rs[k]).tier = "IDENTIFIER"
                                   /\ Res!BestMatch(rs) = Res!Answer(rs[k])
<1> DEFINE scored == Res!Scored(rs)
<1>1. scored \in SUBSET (DOMAIN rs) /\ scored # {}
  BY DEF Res!Scored
<1>2. PICK f : f = Res!Foremost(rs, scored)
  OBVIOUS
<1>3. f \in scored /\ Score(rs[i]) <= Score(rs[f])
  <2> HIDE DEF scored
  <2> QED
    BY <1>1, <1>2, Foremost DEF scored
<1>4. rs[i] \in Found /\ rs[f] \in Found
  BY <1>1, <1>3 DEF Listed
<1>5. Res!Resolve(rs[f]).tier = "IDENTIFIER"
  BY <1>3, <1>4, Scores
<1>6. Res!BestMatch(rs) = Res!Answer(rs[f])
  BY <1>1, <1>2, <1>5 DEF Res!BestMatch
<1> QED
  BY <1>3, <1>5, <1>6

\* The match is one of the records, if there is one.
LEMMA MatchScored ==
  ASSUME NEW rs, Listed(rs), NEW r \in Res!BestMatch(rs).match
  PROVE  \E i \in Res!Scored(rs) : r = rs[i]
<1> DEFINE f == Res!Foremost(rs, Res!Scored(rs))
<1>1. Res!Scored(rs) # {} /\ r = rs[f]
  BY DEF Res!BestMatch, Res!NoAnswer, Res!Answer
<1>2. f \in Res!Scored(rs)
  <2>1. Res!Scored(rs) \in SUBSET (DOMAIN rs)
    BY DEF Res!Scored
  <2> QED
    BY <1>1, <2>1, Foremost
<1> HIDE DEF f
<1> QED
  BY <1>1, <1>2

\* Another order has the same answer.
LEMMA SameAnswer ==
  ASSUME NEW rs, Listed(rs), NEW p, NEW qs,
         p \in [DOMAIN rs -> DOMAIN rs],
         \A i, j \in DOMAIN rs : p[i] = p[j] => i = j,
         \A j \in DOMAIN rs : \E i \in DOMAIN rs : p[i] = j,
         qs = [i \in DOMAIN rs |-> rs[p[i]]],
         \A i \in Res!Scored(rs) : Res!Resolve(rs[i]).tier # "IDENTIFIER"
  PROVE  Res!BestMatch(qs) = Res!BestMatch(rs)
<1>1. DOMAIN qs = DOMAIN rs /\ \A i \in DOMAIN rs : p[i] \in DOMAIN rs /\ qs[i] = rs[p[i]]
  OBVIOUS
<1>2. Listed(qs)
  BY <1>1 DEF Listed
<1>3. \A i \in DOMAIN rs : /\ i \in Res!Scored(qs) => p[i] \in Res!Scored(rs)
                           /\ p[i] \in Res!Scored(rs) => i \in Res!Scored(qs)
  BY <1>1 DEF Res!Scored
<1>4. /\ \A i \in Res!Scored(rs) : i \in DOMAIN rs
      /\ \A i \in Res!Scored(qs) : i \in DOMAIN rs
  BY <1>1 DEF Res!Scored
<1>5. CASE \E i \in Res!Scored(rs) : Clear(rs, i)
  <2>1. PICK i \in Res!Scored(rs) : Clear(rs, i)
    BY <1>5
  <2>2. PICK k \in DOMAIN rs : p[k] = i
    BY <1>4
  <2>3. ASSUME NEW j \in Res!Scored(qs) \ {k} PROVE p[j] \in Res!Scored(rs) \ {i} /\ qs[j] = rs[p[j]]
    BY <1>1, <1>3, <1>4, <2>2
  <2>4. Clear(qs, k)
    <3>1. k \in Res!Scored(qs) /\ qs[k] = rs[i]
      BY <1>1, <1>3, <2>2
    <3> QED
      BY <2>1, <2>3, <3>1 DEF Clear
  <2>5. Res!BestMatch(rs) = Res!Answer(rs[i]) /\ Res!BestMatch(qs) = Res!Answer(qs[k])
    BY <1>2, <2>1, <2>4, ClearMatch
  <2>6. qs[k] = rs[i]
    BY <1>1, <2>2
  <2> QED
    BY <2>5, <2>6
<1>6. CASE \A i \in Res!Scored(rs) : ~Clear(rs, i)
  <2>1. ASSUME NEW k \in Res!Scored(qs), Clear(qs, k) PROVE FALSE
    <3>1. p[k] \in Res!Scored(rs) /\ qs[k] = rs[p[k]] /\ k \in DOMAIN rs
      BY <1>1, <1>3, <1>4
    <3>2. ASSUME NEW j \in Res!Scored(rs) \ {p[k]}
          PROVE  \E l \in Res!Scored(qs) \ {k} : qs[l] = rs[j]
      <4>1. PICK l \in DOMAIN rs : p[l] = j
        BY <1>4
      <4> QED
        BY <1>1, <1>3, <4>1
    <3>3. Clear(rs, p[k])
      BY <2>1, <3>1, <3>2 DEF Clear
    <3> QED
      BY <1>6, <3>1, <3>3
  <2>2. \A k \in Res!Scored(qs) : Res!Resolve(qs[k]).tier # "IDENTIFIER"
    BY <1>1, <1>3, <1>4
  <2>3. Res!BestMatch(rs) = Res!NoAnswer /\ Res!BestMatch(qs) = Res!NoAnswer
    BY <1>2, <1>6, <2>1, <2>2, NoClearMatch
  <2> QED
    BY <2>3
<1> QED
  BY <1>5, <1>6

LEMMA MatchHolds ==
  ASSUME Listed(records) PROVE Res!MatchStands
<1> DEFINE best == Res!BestMatch(records)
           scored == Res!Scored(records)
<1>1. \A i \in scored : records[i] \in Found /\ ~Res!Resolve(records[i]).vetoed
  BY DEF Res!Scored, Listed
<1>2. ASSUME best.tier # "IDENTIFIER", NEW qs \in Res!Reordered(records)
      PROVE  Res!BestMatch(qs) = best
  <2>1. \A i \in scored : Res!Resolve(records[i]).tier # "IDENTIFIER"
    <3> SUFFICES ASSUME NEW i \in scored, Res!Resolve(records[i]).tier = "IDENTIFIER"
                 PROVE  FALSE
      OBVIOUS
    <3>1. PICK k \in scored : /\ Res!Resolve(records[k]).tier = "IDENTIFIER"
                              /\ best = Res!Answer(records[k])
      BY IdentifierMatches
    <3> QED
      BY <1>2, <3>1 DEF Res!Answer
  <2>2. PICK p \in Res!Bijection(DOMAIN records, DOMAIN records) :
          qs = [i \in DOMAIN records |-> records[p[i]]]
    BY <1>2 DEF Res!Reordered
  <2>3. /\ p \in [DOMAIN records -> DOMAIN records]
        /\ \A i, j \in DOMAIN records : p[i] = p[j] => i = j
        /\ \A j \in DOMAIN records : \E i \in DOMAIN records : p[i] = j
    BY <2>2 DEF Res!Bijection, Res!Injection, Res!Surjection, Res!IsInjective
  <2> QED
    BY <2>1, <2>2, <2>3, SameAnswer
<1>3. ASSUME NEW i \in DOMAIN records, Res!SharesIdentifier(records[i]), NEW r \in best.match
      PROVE  Res!SharesIdentifier(r)
  <2>1. records[i] \in Found
    BY DEF Listed
  <2>2. i \in scored /\ Res!Resolve(records[i]).tier = "IDENTIFIER"
    BY <1>3, <2>1, Verdicts DEF Res!Scored
  <2>3. PICK k \in scored : /\ Res!Resolve(records[k]).tier = "IDENTIFIER"
                            /\ best = Res!Answer(records[k])
    BY <2>2, IdentifierMatches
  <2>4. r = records[k]
    BY <1>3, <2>3 DEF Res!Answer
  <2> QED
    BY <1>1, <2>3, <2>4, Verdicts
<1>4. ASSUME NEW r \in best.match, Res!Contradict(Res!StateOf(Entity), Res!StateOf(r)),
             Res!Contradict(Res!PanOf(Entity), Res!PanOf(r)), ~Res!SharesIdentifier(r)
      PROVE  FALSE
  <2>1. PICK i \in scored : r = records[i]
    BY MatchScored
  <2> QED
    BY <1>1, <1>4, <2>1, Verdicts
<1>5. (\E r \in Res!Range(records) : Res!SharesIdentifier(r)) =>
        \E i \in DOMAIN records : Res!SharesIdentifier(records[i])
  BY DEF Res!Range
<1> HIDE DEF best
<1>6. /\ best.tier # "IDENTIFIER" => \A qs \in Res!Reordered(records) : Res!BestMatch(qs) = best
      /\ (\E r \in Res!Range(records) : Res!SharesIdentifier(r)) =>
           \A r \in best.match : Res!SharesIdentifier(r)
      /\ \A r \in best.match : Res!Contradict(Res!StateOf(Entity), Res!StateOf(r))
           => ~Res!Contradict(Res!PanOf(Entity), Res!PanOf(r)) \/ Res!SharesIdentifier(r)
  BY <1>2, <1>3, <1>4, <1>5
<1> QED
  BY <1>6 DEF Res!MatchStands, best

\* What a source may return is listed, and no more than it may.
ResolutionInv == records \in Seq(Found) /\ Len(records) <= MaxRecords

LEMMA ResolutionPart == Spec => Res!Spec
<1>1. Init => Res!Init
  BY DEF Init
<1>2. [Next]_vars => [Res!Next]_(Res!rvars)
  BY DEF Next, AtRest, vars, Res!rvars
<1> QED
  BY <1>1, <1>2, PTL DEF Spec, Res!Spec

LEMMA ResolutionKept == Spec => []ResolutionInv
<1>1. Res!Init => ResolutionInv
  BY BoundAssumption DEF Res!Init, ResolutionInv
<1>2. ResolutionInv /\ [Res!Next]_(Res!rvars) => ResolutionInv'
  <2> SUFFICES ASSUME ResolutionInv, [Res!Next]_(Res!rvars) PROVE ResolutionInv'
    OBVIOUS
  <2>1. CASE UNCHANGED Res!rvars
    BY <2>1 DEF Res!rvars, ResolutionInv
  <2>2. CASE Res!Next
    <3>1. PICK r \in Found : records' = Append(records, r) /\ Len(records) < MaxRecords
      BY <2>2 DEF Res!Next, Res!SourceAnswers
    <3> QED
      BY <3>1, BoundAssumption DEF ResolutionInv
  <2> QED
    BY <2>1, <2>2
<1> QED
  BY <1>1, <1>2, ResolutionPart, PTL DEF Res!Spec

\* Whichever source answers first, the same record is attached to the company, unless
\* several share its identifier, which nothing outvotes; and never that of another person
\* in another state (company/resolution.py:250-288).
THEOREM MatchesStand == Spec => []MatchStands
<1>1. ResolutionInv => MatchStands
  <2> SUFFICES ASSUME ResolutionInv PROVE Listed(records)
    BY MatchHolds DEF MatchStands
  <2> QED
    BY DEF ResolutionInv, Listed
<1> QED
  BY <1>1, ResolutionKept, PTL

---------------------------------------------------------------------------
(* Types.                                                                  *)

\* The keys of the API.
KeyTypes == key \in [Keys -> Ide!ApiKey]

\* A key is made, used and revoked.
LEMMA KeysStep ==
  ASSUME KeyTypes, [Ide!Next]_(Ide!ivars)
  PROVE  KeyTypes'
<1>1. CASE UNCHANGED key
  BY <1>1 DEF KeyTypes
<1>2. ASSUME NEW k \in Keys, Ide!CreateApiKey(k) \/ Ide!UseApiKey(k) \/ Ide!Revoke(k)
      PROVE  KeyTypes'
  <2>1. key[k] \in Ide!ApiKey
    BY DEF KeyTypes
  <2> QED BY <1>2, <2>1 DEF KeyTypes, Ide!ApiKey, Ide!CreateApiKey, Ide!UseApiKey, Ide!Revoke
<1> QED
  BY <1>1, <1>2 DEF Ide!Next, Ide!ivars, Ide!Register, Ide!SignIn, Ide!Invite, Ide!Open, Ide!Commit,
     Ide!Abandon, Ide!Deactivate

\* A finite set of numbers, one at least, has a greatest.
LEMMA Greatest ==
  ASSUME NEW S \in SUBSET Nat, IsFiniteSet(S), S # {}
  PROVE  \E m \in S : \A n \in S : m >= n
<1> DEFINE Lacking(T) == T # {} /\ \A m \in T : \E n \in T : ~(m >= n)
           sizes == {k \in Nat : \E T \in SUBSET S : Lacking(T) /\ Cardinality(T) = k}
<1>1. ASSUME Lacking(S) PROVE FALSE
  <2>1. Cardinality(S) \in sizes
    BY <1>1, FS_CardinalityType
  <2>2. PICK k \in sizes : \A l \in sizes : ~(l < k)
    <3>1. PICK k \in sizes : \A l \in sizes : ~(<<l, k>> \in OpToRel(<, Nat))
      BY <2>1, WFMin, NatLessThanWellFounded
    <3> QED BY <3>1 DEF OpToRel
  <2>3. PICK T \in SUBSET S : Lacking(T) /\ Cardinality(T) = k
    BY <2>2
  <2>4. PICK x : x \in T
    BY <2>3
  <2> DEFINE U == T \ {x}
  <2>5. IsFiniteSet(T) /\ Cardinality(U) = Cardinality(T) - 1 /\ Cardinality(U) \in Nat
        /\ Cardinality(T) \in Nat
    BY <2>4, FS_Subset, FS_RemoveElement, FS_CardinalityType
  <2>6. ~Lacking(U)
    <3>1. Lacking(U) => Cardinality(U) \in sizes
      BY <2>5
    <3> HIDE DEF Lacking, U, sizes
    <3> QED BY <2>2, <2>3, <2>5, <3>1
  <2>7. CASE U = {}
    BY <2>3, <2>4, <2>7
  <2>8. CASE U # {}
    <3>1. PICK m \in U : \A n \in U : m >= n
      BY <2>6, <2>8
    <3>2. m \in Nat /\ x \in Nat /\ \A n \in T : n \in Nat
      BY <2>4
    <3>3. (\A n \in T : m >= n) \/ (\A n \in T : x >= n)
      BY <3>1, <3>2
    <3> QED BY <2>3, <2>4, <3>1, <3>3
  <2> QED BY <2>7, <2>8
<1> QED BY <1>1

\* The ledger stays within its bounds; what a request has read of it is within them too, and
\* what it is about is an assessment.
CreditTypes ==
  /\ books \in [settled : 0 .. MaxSettled, overdue : 0 .. MaxArrears, worst : WorstDays]
  /\ \A o \in Hands : /\ desk[o].form \in Forms /\ desk[o].facts \in Cre!Facts
                      /\ desk[o].at = "stored" => desk[o].check \in Checks
  /\ \A c \in Checks : assessed[c].advice \in {"STRONG", "ACCEPTABLE", "CAUTION", "REFER"}
  /\ overlapped \subseteq Checks /\ lost \subseteq Checks

\* A request that is free.
LEMMA FreeTyped == Cre!Free.form \in Forms /\ Cre!Free.facts \in Cre!Facts /\ Cre!Free.at = "free"
BY SomeOfEach, BoundAssumption DEF Cre!Free, Cre!NoFacts, Cre!Facts

\* The ledger starts with arrears of its worst days.
LEMMA InitCreditTypes == Cre!Init => CreditTypes
<1> SUFFICES ASSUME Cre!Init PROVE CreditTypes
  OBVIOUS
<1>1. \E m \in WorstDays : \A n \in WorstDays : m >= n
  BY BoundAssumption, Greatest
<1>2. Cre!Max(WorstDays) \in WorstDays
  BY <1>1 DEF Cre!Max
<1>3. books \in [settled : 0 .. MaxSettled, overdue : 0 .. MaxArrears, worst : WorstDays]
  BY <1>2, BoundAssumption DEF Cre!Init
<1>4. \A o \in Hands : desk[o] = Cre!Free
  BY DEF Cre!Init
<1>5. \A c \in Checks : assessed[c].advice = "REFER"
  BY DEF Cre!Init, Cre!NoRow
<1> QED BY <1>3, <1>4, <1>5, FreeTyped DEF CreditTypes, Cre!Init

\* The turn of one request, that stores no assessment.
LEMMA TypedTurn ==
  ASSUME CreditInv, CreditTypes, NEW o \in Hands, NEW d, Cre!Turn(o, d),
         d.form \in Forms, d.facts \in Cre!Facts, d.at = "stored" => d.check \in Checks,
         UNCHANGED <<books, assessed>>, overlapped' \subseteq Checks, lost' \subseteq Checks
  PROVE  CreditTypes'
<1>1. \A p \in Hands : desk'[p] = IF p = o THEN d ELSE desk[p]
  BY DEF Cre!Turn, CreditInv, Busy
<1> QED BY <1>1 DEF CreditTypes

\* The ledger moves within its bounds.
LEMMA TypedMoves ==
  ASSUME CreditInv, CreditTypes, Cre!FallsDue \/ Cre!Settled
  PROVE  CreditTypes'
<1>1. books.settled \in 0 .. MaxSettled /\ books.overdue \in 0 .. MaxArrears
      /\ MaxSettled \in Nat /\ MaxArrears \in Nat /\ 0 \in WorstDays
  BY BoundAssumption DEF CreditTypes
<1>2. PICK b \in [settled : 0 .. MaxSettled, overdue : 0 .. MaxArrears, worst : WorstDays] : Cre!Moves(b)
  <2>1. CASE Cre!FallsDue
    <3>1. PICK days \in WorstDays : /\ books.overdue < MaxArrears
                                    /\ Cre!Moves([books EXCEPT !.overdue = @ + 1, !.worst = days])
      BY <2>1 DEF Cre!FallsDue
    <3> DEFINE b == [books EXCEPT !.overdue = @ + 1, !.worst = days]
    <3>2. b \in [settled : 0 .. MaxSettled, overdue : 0 .. MaxArrears, worst : WorstDays]
      <4>1. books.overdue + 1 \in 0 .. MaxArrears
        BY <1>1, <3>1
      <4>2. b = [books EXCEPT !.overdue = books.overdue + 1, !.worst = days]
        OBVIOUS
      <4> QED BY <4>1, <4>2 DEF CreditTypes
    <3> QED BY <3>1, <3>2
  <2>2. CASE Cre!Settled
    <3> DEFINE b == [settled |-> books.settled + 1, overdue |-> 0, worst |-> 0]
    <3>1. b \in [settled : 0 .. MaxSettled, overdue : 0 .. MaxArrears, worst : WorstDays]
      BY <1>1, <2>2 DEF Cre!Settled
    <3> QED BY <2>2, <3>1 DEF Cre!Settled
  <2> QED BY <2>1, <2>2
<1>3. /\ books' = b /\ UNCHANGED <<assessed, overlapped, lost>>
      /\ desk' = [o \in Hands |-> [desk[o] EXCEPT !.arrears = @ /\ b.overdue > 0]]
  BY <1>2 DEF Cre!Moves, Cre!Watched
<1>4. ASSUME NEW o \in Hands
      PROVE  /\ desk'[o].form = desk[o].form /\ desk'[o].facts = desk[o].facts
             /\ desk'[o].at = desk[o].at /\ desk'[o].check = desk[o].check
  <2> DEFINE x == desk[o].arrears /\ b.overdue > 0
  <2>1. desk'[o] = [desk[o] EXCEPT !.arrears = x] /\ Request(desk[o])
    BY <1>3 DEF CreditInv, Busy
  <2> HIDE DEF x
  <2> QED BY <2>1 DEF Request
<1> QED BY <1>2, <1>3, <1>4 DEF CreditTypes

\* A check reads what the ledger holds.
LEMMA TypedReads ==
  ASSUME CreditInv, CreditTypes, NEW o \in Hands,
         \/ \E f \in Forms : Cre!AskForCheck(o, f)
         \/ Cre!CountSettled(o) \/ Cre!ReadOpen(o)
  PROVE  CreditTypes'
<1>1. /\ Request(desk[o]) /\ desk[o].form \in Forms /\ desk[o].facts \in Cre!Facts
      /\ UNCHANGED <<books, assessed>> /\ overlapped' \subseteq Checks /\ lost' \subseteq Checks
  BY DEF CreditInv, Busy, CreditTypes, Cre!AskForCheck, Cre!CountSettled, Cre!ReadOpen
<1>2. /\ books.settled \in 0 .. MaxSettled /\ books.overdue \in 0 .. MaxArrears
      /\ books.worst \in WorstDays
  BY DEF CreditTypes
<1>3. CASE \E f \in Forms : Cre!AskForCheck(o, f)
  <2> DEFINE x == books.overdue > 0
  <2>1. PICK f \in Forms :
          Cre!Turn(o, [Cre!Free EXCEPT !.at = "asked", !.form = f, !.arrears = x])
    BY <1>3 DEF Cre!AskForCheck
  <2> DEFINE d == [Cre!Free EXCEPT !.at = "asked", !.form = f, !.arrears = x]
  <2> HIDE DEF x
  <2>2. d.at = "asked" /\ d.form = f /\ d.facts = Cre!Free.facts
    BY FreeRequest DEF Request
  <2> HIDE DEF d
  <2> QED BY <1>1, <2>1, <2>2, FreeTyped, TypedTurn DEF d
<1>4. CASE Cre!CountSettled(o)
  <2> DEFINE d == [desk[o] EXCEPT !.at = "counted", !.facts.settled = books.settled]
             g == [desk[o].facts EXCEPT !.settled = books.settled]
  <2>1. Cre!Turn(o, d)
    BY <1>4 DEF Cre!CountSettled
  <2>2. d.at = "counted" /\ d.form = desk[o].form /\ d.facts = g
    BY <1>1 DEF Request
  <2>3. g \in Cre!Facts
    BY <1>1, <1>2 DEF Cre!Facts
  <2> HIDE DEF d, g
  <2> QED BY <1>1, <2>1, <2>2, <2>3, TypedTurn
<1>5. CASE Cre!ReadOpen(o)
  <2>1. PICK b \in Behaviours :
          Cre!Turn(o, [desk[o] EXCEPT !.at = "read", !.facts.overdue = books.overdue,
                                      !.facts.worst = books.worst, !.facts.behaviour = b])
    BY <1>5 DEF Cre!ReadOpen
  <2> DEFINE d == [desk[o] EXCEPT !.at = "read", !.facts.overdue = books.overdue,
                                  !.facts.worst = books.worst, !.facts.behaviour = b]
             g == [desk[o].facts EXCEPT !.overdue = books.overdue, !.worst = books.worst,
                                        !.behaviour = b]
  <2>2. d.at = "read" /\ d.form = desk[o].form /\ d.facts = g
    BY <1>1 DEF Request
  <2>3. g \in Cre!Facts
    BY <1>1, <1>2 DEF Cre!Facts
  <2> HIDE DEF d, g
  <2> QED BY <1>1, <2>1, <2>2, <2>3, TypedTurn DEF d
<1> QED BY <1>3, <1>4, <1>5

\* What is stored recommends something.
LEMMA TypedStore ==
  ASSUME CreditInv, AdviceInv, CreditTypes, NEW o \in Hands, Cre!StoreCheck(o)
  PROVE  CreditTypes'
<1> DEFINE d == desk[o]
           a == Cre!Assess(d.form, d.facts)
           r == [exists |-> TRUE, form |-> d.form, facts |-> d.facts, arrears |-> d.arrears,
                 limit |-> a.limit, advice |-> a.advice]
<1>1. PICK c \in Checks : /\ assessed' = [assessed EXCEPT ![c] = r]
                          /\ Cre!Turn(o, [Cre!Free EXCEPT !.at = "stored", !.check = c])
  BY DEF Cre!StoreCheck
<1>2. a.advice \in {"STRONG", "ACCEPTABLE", "CAUTION", "REFER"}
  BY DEF Cre!Assess, Cre!Recommended
<1>3. r.advice = a.advice /\ UNCHANGED <<books, overlapped, lost>>
  BY DEF Cre!StoreCheck
<1> HIDE DEF d, a, r
<1>4. \A k \in Checks : assessed'[k] = IF k = c THEN r ELSE assessed[k]
  BY <1>1 DEF AdviceInv
<1> DEFINE e == [Cre!Free EXCEPT !.at = "stored", !.check = c]
<1>5. e.form = Cre!Free.form /\ e.facts = Cre!Free.facts /\ e.check = c
  BY FreeRequest DEF Request
<1> HIDE DEF e
<1>6. \A p \in Hands : desk'[p] = IF p = o THEN e ELSE desk[p]
  BY <1>1 DEF e, Cre!Turn, CreditInv, Busy
<1> QED BY <1>2, <1>3, <1>4, <1>5, <1>6, FreeTyped DEF CreditTypes

\* What comes after the assessment reads no account.
LEMMA TypedAside ==
  ASSUME CreditInv, CreditTypes, NEW o \in Hands,
         \/ Cre!AuditCheck(o) \/ Cre!OpenDecision(o) \/ Cre!StoreDecision(o)
         \/ Cre!AuditDecision(o) \/ Cre!Dies(o)
  PROVE  CreditTypes'
<1>1. /\ UNCHANGED <<books, assessed>> /\ Request(desk[o]) /\ desk[o].form \in Forms
      /\ desk[o].facts \in Cre!Facts /\ overlapped \subseteq Checks /\ lost \subseteq Checks
      /\ desk[o].at \in {"stored", "decided"} => desk[o].check \in Checks
  BY DEF CreditInv, Busy, CreditTypes, Cre!AuditCheck, Cre!OpenDecision, Cre!Deciding,
         Cre!StoreDecision, Cre!AuditDecision, Cre!Dies
<1>2. CASE Cre!AuditCheck(o) \/ Cre!AuditDecision(o) \/ Cre!Dies(o)
  <2>1. /\ Cre!Turn(o, Cre!Free) /\ overlapped' = overlapped
        /\ lost' = lost
           \/ (desk[o].at \in {"stored", "decided"} /\ lost' = lost \cup {desk[o].check})
    BY <1>2 DEF Cre!AuditCheck, Cre!AuditDecision, Cre!Dies
  <2> QED BY <1>1, <2>1, FreeTyped, TypedTurn
<1>3. CASE Cre!OpenDecision(o)
  <2>1. PICK c \in Checks, l \in Approvals :
          /\ Cre!Turn(o, [Cre!Free EXCEPT !.at = "deciding", !.check = c, !.limit = l])
          /\ overlapped' \subseteq overlapped \cup {c} /\ lost' = lost
    BY <1>3 DEF Cre!OpenDecision, Cre!Deciding
  <2> DEFINE d == [Cre!Free EXCEPT !.at = "deciding", !.check = c, !.limit = l]
  <2>2. d.at = "deciding" /\ d.form = Cre!Free.form /\ d.facts = Cre!Free.facts
    BY FreeRequest DEF Request
  <2> HIDE DEF d
  <2> QED BY <1>1, <2>1, <2>2, FreeTyped, TypedTurn DEF d
<1>4. CASE Cre!StoreDecision(o)
  <2> DEFINE d == [desk[o] EXCEPT !.at = "decided"]
  <2>1. Cre!Turn(o, d) /\ UNCHANGED <<overlapped, lost>>
    BY <1>4 DEF Cre!StoreDecision
  <2>2. d.at = "decided" /\ d.form = desk[o].form /\ d.facts = desk[o].facts
    BY <1>1 DEF Request
  <2> HIDE DEF d
  <2> QED BY <1>1, <2>1, <2>2, TypedTurn
<1> QED BY <1>2, <1>3, <1>4

\* The types of credit checks hold throughout.
LEMMA CreditTypesKept == Spec => []CreditTypes
<1>1. CreditInv /\ AdviceInv /\ CreditTypes /\ [Cre!Next]_(Cre!kvars) => CreditTypes'
  <2> SUFFICES ASSUME CreditInv, AdviceInv, CreditTypes, [Cre!Next]_(Cre!kvars) PROVE CreditTypes'
    OBVIOUS
  <2>1. CASE UNCHANGED Cre!kvars
    BY <2>1 DEF Cre!kvars, CreditTypes
  <2>2. CASE Cre!FallsDue \/ Cre!Settled
    BY <2>2, TypedMoves
  <2>3. CASE Cre!Next /\ ~(Cre!FallsDue \/ Cre!Settled)
    BY <2>3, TypedReads, TypedStore, TypedAside DEF Cre!Next
  <2> QED BY <2>1, <2>2, <2>3
<1> QED BY InitCreditTypes, <1>1, CreditInvAlways, AdviceKept, CreditPart, PTL DEF Cre!Spec

\* Sessions, users and keys, credit checks and records keep their types.
LEMMA CompaniesTyped ==
  Spec => []((Ten!TypeOK /\ Ide!TypeOK) /\ Cre!TypeOK /\ Res!TypeOK)
<1>1. TenantInv => Ten!TypeOK
  BY DEF TenantInv
<1>2. IdentityInv /\ KeyTypes => Ide!TypeOK
  BY DEF IdentityInv, Members, KeyTypes, Ide!TypeOK
<1>3. CreditInv /\ CreditTypes => Cre!TypeOK
  BY DEF CreditInv, Recorded, CreditTypes, Cre!TypeOK
<1>4. ResolutionInv => Res!TypeOK
  <2> SUFFICES ASSUME ResolutionInv PROVE Res!TypeOK
    OBVIOUS
  <2>1. Res!Range(records) \subseteq Found
    BY DEF ResolutionInv, Res!Range
  <2> QED BY <2>1, Verdicts DEF ResolutionInv, Res!TypeOK
<1>5. Ide!Init => KeyTypes
  BY DEF Ide!Init, KeyTypes, Ide!ApiKey
<1>6. Spec => []KeyTypes
  BY <1>5, KeysStep, IdentityPart, PTL DEF Ide!Spec
<1> QED
  BY <1>1, <1>2, <1>3, <1>4, <1>6, TenantsKept, UsersKept, CreditInvAlways, CreditTypesKept,
     ResolutionKept, PTL
---------------------------------------------------------------------------
(* Safe advice.                                                            *)

\* The greater and the lesser of two numbers.
LEMMA OfTwo ==
  ASSUME NEW a \in Int, NEW b \in Int
  PROVE  /\ Cre!Max({a, b}) = IF a >= b THEN a ELSE b
         /\ Cre!Min({a, b}) = IF a <= b THEN a ELSE b
<1>1. \E m \in {a, b} : \A n \in {a, b} : m >= n
  OBVIOUS
<1>2. \E m \in {a, b} : \A n \in {a, b} : m <= n
  OBVIOUS
<1>3. Cre!Max({a, b}) \in {a, b} /\ \A n \in {a, b} : Cre!Max({a, b}) >= n
  BY <1>1 DEF Cre!Max
<1>4. Cre!Min({a, b}) \in {a, b} /\ \A n \in {a, b} : Cre!Min({a, b}) <= n
  BY <1>2 DEF Cre!Min
<1> QED BY <1>3, <1>4

\* A clamped number is a percent.
LEMMA Clamped == ASSUME NEW v \in Int PROVE Cre!Clamp(v) \in 0 .. 100
<1>1. PICK m \in Int : m = Cre!Min({100, v}) /\ m <= 100
  BY OfTwo
<1>2. Cre!Max({0, m}) = IF 0 >= m THEN 0 ELSE m
  BY <1>1, OfTwo, 0 \in Int
<1> QED BY <1>1, <1>2 DEF Cre!Clamp

\* What factors add up to: a weight, points within it, none of them or as many as one factor has.
Evidence(low, high) ==
  {f \in [points : Nat, weight : low .. high] :
     f.points <= 100 * f.weight /\ (f.points = 0 \/ f.points >= 6)}

LEMMA OneFactor ==
  ASSUME NEW v \in Int, NEW w \in Nat, 6 <= w, w <= 100
  PROVE  /\ [points |-> Cre!Clamp(v) * w, weight |-> w] \in Evidence(w, w)
         /\ [points |-> Cre!Clamp(v) * w, weight |-> w] \in Evidence(0, w)
<1>1. PICK p \in 0 .. 100 : p = Cre!Clamp(v)
  BY Clamped
<1>2. p * w \in Nat /\ p * w <= 100 * w /\ (p * w = 0 \/ p * w >= 6)
  <2>1. p = 0 => p * w = 0
    OBVIOUS
  <2>2. p >= 1 => p * w >= w
    OBVIOUS
  <2>3. p * w \in Nat /\ p * w <= 100 * w
    OBVIOUS
  <2> QED BY <2>1, <2>2, <2>3
<1> QED BY <1>1, <1>2 DEF Evidence

LEMMA PerhapsOne ==
  ASSUME NEW v \in Int, NEW w \in Nat, 6 <= w, w <= 100,
         NEW f, f \in {[points |-> Cre!Clamp(v) * w, weight |-> w], [points |-> 0, weight |-> 0]}
  PROVE  f \in Evidence(0, w)
<1>1. [points |-> 0, weight |-> 0] \in Evidence(0, w)
  BY DEF Evidence
<1> QED BY <1>1, OneFactor

LEMMA MoreFactors ==
  ASSUME NEW a \in Nat, NEW b \in Nat, NEW c \in Nat, NEW d \in Nat,
         NEW f \in Evidence(a, b), NEW g \in Evidence(c, d)
  PROVE  Cre!With(f, g) \in Evidence(a + c, b + d)
<1>1. PICK p \in Nat, w \in a .. b : f = [points |-> p, weight |-> w]
                                     /\ p <= 100 * w /\ (p = 0 \/ p >= 6)
  BY DEF Evidence
<1>2. PICK q \in Nat, x \in c .. d : g = [points |-> q, weight |-> x]
                                     /\ q <= 100 * x /\ (q = 0 \/ q >= 6)
  BY DEF Evidence
<1>3. Cre!With(f, g) = [points |-> p + q, weight |-> w + x]
  BY <1>1, <1>2 DEF Cre!With
<1> QED BY <1>1, <1>2, <1>3 DEF Evidence

\* A score is on its scale.
LEMMA OnScale ==
  ASSUME NEW f \in [points : Nat, weight : Nat], f.weight # 0, f.points <= 100 * f.weight
  PROVE  Cre!Score(f) \in Nat /\ Cre!Score(f) <= 10000
<1>1. PICK p \in Nat, w \in Nat : p = f.points /\ w = f.weight /\ w # 0 /\ p <= 100 * w
  OBVIOUS
<1>2. PICK n \in Nat, m \in Nat : n = 200 * p + w /\ m = 2 * w
  BY <1>1
<1>3. n >= 0 /\ m > 0 /\ n < 10001 * m
  BY <1>1, <1>2
<1>4. PICK q \in Int : q = n \div m /\ q >= 0 /\ q < 10001
  BY <1>3
<1>5. Cre!Score(f) = q
  BY <1>1, <1>2, <1>4 DEF Cre!Score
<1> QED BY <1>4, <1>5

\* The risk score of what the ledger says.
LEMMA RiskOnScale ==
  ASSUME NEW facts \in Cre!Facts
  PROVE  Cre!RiskScore(facts) \in Nat /\ Cre!RiskScore(facts) <= 10000
<1> DEFINE x == facts.behaviour.days
           y == facts.behaviour.kept
<1>1. x \in Int /\ y \in Int /\ facts.worst \in Nat
  <2>1. facts.behaviour \in Cre!Behaviour /\ facts.worst \in WorstDays
    BY FormsAssumption DEF Cre!Facts
  <2>2. facts.behaviour.kept \in 0 .. 100 \cup {-1} /\ facts.behaviour.days \in Int
    BY <2>1 DEF Cre!Behaviour, Cre!Unknown
  <2>3. facts.worst \in Nat
    BY <2>1, BoundAssumption
  <2> QED BY <2>2, <2>3
<1>2. /\ ((x - 30) * 100) \div 90 \in Int /\ 100 - y \in Int
      /\ (facts.worst * 100) \div 180 \in Int
  BY <1>1
<1> DEFINE f == Cre!Factor(x # Cre!Unknown, ((x - 30) * 100) \div 90, 18)
           g == Cre!Factor(y # Cre!Unknown, 100 - y, 16)
           h == Cre!Factor(TRUE, (facts.worst * 100) \div 180, 15)
<1>3. f \in Evidence(0, 18)
  <2>1. PICK v \in Int : v = ((x - 30) * 100) \div 90
    BY <1>2
  <2>2. f \in {[points |-> Cre!Clamp(v) * 18, weight |-> 18], [points |-> 0, weight |-> 0]}
    BY <2>1 DEF Cre!Factor
  <2> HIDE DEF f
  <2> QED BY <2>2, PerhapsOne
<1>4. g \in Evidence(0, 16)
  <2>1. PICK v \in Int : v = 100 - y
    BY <1>2
  <2>2. g \in {[points |-> Cre!Clamp(v) * 16, weight |-> 16], [points |-> 0, weight |-> 0]}
    BY <2>1 DEF Cre!Factor
  <2> HIDE DEF g
  <2> QED BY <2>2, PerhapsOne
<1>5. h \in Evidence(15, 15)
  BY <1>2, OneFactor DEF Cre!Factor
<1>6. Cre!RiskScore(facts) = Cre!Score(Cre!With(f, Cre!With(g, h)))
  BY DEF Cre!RiskScore
<1> HIDE DEF f, g, h
<1>7. Cre!With(g, h) \in Evidence(0 + 15, 16 + 15)
  BY <1>4, <1>5, MoreFactors
<1>8. Cre!With(f, Cre!With(g, h)) \in Evidence(0 + (0 + 15), 18 + (16 + 15))
  BY <1>3, <1>7, MoreFactors
<1>9. PICK e : e = Cre!With(f, Cre!With(g, h))
  OBVIOUS
<1>10. e \in [points : Nat, weight : Nat] /\ e.weight # 0 /\ e.points <= 100 * e.weight
  BY <1>8, <1>9 DEF Evidence
<1> QED BY <1>6, <1>9, <1>10, OnScale

\* The evidence beside the turnover: the track record is always part of it.
LEMMA OtherEvidence ==
  ASSUME NEW form \in Cre!Form, NEW facts \in Cre!Facts
  PROVE  Cre!With(Cre!Ledgered(facts), Cre!Declared(form, facts)) \in Evidence(12, 92)
<1> DEFINE risk == (10000 - Cre!RiskScore(facts)) \div 100
           record == (facts.settled * 100) \div 12
           speed == 100 - ((facts.behaviour.days - 15) * 100) \div 75
           exposure == facts.overdue + form.other
           months == 100 - (exposure * 1200) \div Cre!Max({form.turnover * 3, 1})
<1>1. facts.behaviour \in Cre!Behaviour /\ facts.settled \in Nat /\ facts.overdue \in Nat
  BY FormsAssumption, BoundAssumption DEF Cre!Facts
<1>2. facts.behaviour.days \in Int /\ facts.behaviour.kept \in Int
  BY <1>1 DEF Cre!Behaviour, Cre!Unknown
<1>3. risk \in Int /\ record \in Int /\ speed \in Int
  <2>1. PICK q \in Nat : q = Cre!RiskScore(facts)
    BY RiskOnScale
  <2> QED BY <1>1, <1>2, <2>1
<1>4. /\ form.turnover \in Int /\ form.other \in Int /\ form.years \in Int /\ form.references \in Int
      /\ form.years * 20 \in Int /\ (form.references * 100) \div 3 \in Int
  BY DEF Cre!Form, Cre!Unknown
<1>5. months \in Int
  <2>1. PICK t \in Int : t = form.turnover * 3
    BY <1>4
  <2>2. PICK m \in Int : m = Cre!Max({t, 1}) /\ m >= 1
    BY OfTwo, 1 \in Int
  <2>3. exposure * 1200 \in Int
    BY <1>1, <1>4
  <2> QED BY <2>1, <2>2, <2>3
<1> DEFINE a == Cre!Factor(Cre!Risk(facts) # "none", risk, 30)
           b == Cre!Factor(TRUE, record, 12)
           c == Cre!Factor(facts.behaviour.days # Cre!Unknown, speed, 10)
           d == Cre!Factor(facts.behaviour.kept # Cre!Unknown, facts.behaviour.kept, 8)
           i == Cre!Factor(form.years # Cre!Unknown, form.years * 20, 10)
           j == Cre!Factor(form.references > 0, (form.references * 100) \div 3, 6)
           k == Cre!Factor(form.gst # "unsaid", IF form.gst = "yes" THEN 100 ELSE 0, 6)
           l == Cre!Factor(form.turnover # 0 /\ exposure # 0, months, 10)
<1>6. /\ Cre!Ledgered(facts) = Cre!With(Cre!With(a, b), Cre!With(c, d))
      /\ Cre!Declared(form, facts) = Cre!With(Cre!With(i, j), Cre!With(k, l))
  BY DEF Cre!Ledgered, Cre!Declared
<1>7. a \in Evidence(0, 30)
  <2>1. PICK v \in Int : v = risk
    BY <1>3
  <2>2. a \in {[points |-> Cre!Clamp(v) * 30, weight |-> 30], [points |-> 0, weight |-> 0]}
    BY <2>1 DEF Cre!Factor
  <2> HIDE DEF a
  <2> QED BY <2>2, PerhapsOne
<1>8. b \in Evidence(12, 12)
  BY <1>3, OneFactor DEF Cre!Factor
<1>9. c \in Evidence(0, 10)
  <2>1. PICK v \in Int : v = speed
    BY <1>3
  <2>2. c \in {[points |-> Cre!Clamp(v) * 10, weight |-> 10], [points |-> 0, weight |-> 0]}
    BY <2>1 DEF Cre!Factor
  <2> HIDE DEF c
  <2> QED BY <2>2, PerhapsOne
<1>10. d \in Evidence(0, 8)
  <2>1. PICK v \in Int : v = facts.behaviour.kept
    BY <1>2
  <2>2. d \in {[points |-> Cre!Clamp(v) * 8, weight |-> 8], [points |-> 0, weight |-> 0]}
    BY <2>1 DEF Cre!Factor
  <2> HIDE DEF d
  <2> QED BY <2>2, PerhapsOne
<1>11. i \in Evidence(0, 10)
  <2>1. PICK v \in Int : v = form.years * 20
    BY <1>4
  <2>2. i \in {[points |-> Cre!Clamp(v) * 10, weight |-> 10], [points |-> 0, weight |-> 0]}
    BY <2>1 DEF Cre!Factor
  <2> HIDE DEF i
  <2> QED BY <2>2, PerhapsOne
<1>12. j \in Evidence(0, 6)
  <2>1. PICK v \in Int : v = (form.references * 100) \div 3
    BY <1>4
  <2>2. j \in {[points |-> Cre!Clamp(v) * 6, weight |-> 6], [points |-> 0, weight |-> 0]}
    BY <2>1 DEF Cre!Factor
  <2> HIDE DEF j
  <2> QED BY <2>2, PerhapsOne
<1>13. k \in Evidence(0, 6)
  <2>1. PICK v \in Int : v = IF form.gst = "yes" THEN 100 ELSE 0
    OBVIOUS
  <2>2. k \in {[points |-> Cre!Clamp(v) * 6, weight |-> 6], [points |-> 0, weight |-> 0]}
    BY <2>1 DEF Cre!Factor
  <2> HIDE DEF k
  <2> QED BY <2>2, PerhapsOne
<1>14. l \in Evidence(0, 10)
  <2>1. PICK v \in Int : v = months
    BY <1>5
  <2>2. l \in {[points |-> Cre!Clamp(v) * 10, weight |-> 10], [points |-> 0, weight |-> 0]}
    BY <2>1 DEF Cre!Factor
  <2> HIDE DEF l
  <2> QED BY <2>2, PerhapsOne
<1> HIDE DEF a, b, c, d, i, j, k, l
<1>15. Cre!With(a, b) \in Evidence(0 + 12, 30 + 12) /\ Cre!With(c, d) \in Evidence(0 + 0, 10 + 8)
  BY <1>7, <1>8, <1>9, <1>10, MoreFactors
<1>16. Cre!With(i, j) \in Evidence(0 + 0, 10 + 6) /\ Cre!With(k, l) \in Evidence(0 + 0, 6 + 10)
  BY <1>11, <1>12, <1>13, <1>14, MoreFactors
<1>17. Cre!With(Cre!With(a, b), Cre!With(c, d)) \in Evidence(12 + 0, 42 + 18)
  BY <1>15, MoreFactors
<1>18. Cre!With(Cre!With(i, j), Cre!With(k, l)) \in Evidence(0 + 0, 16 + 16)
  BY <1>16, MoreFactors
<1>19. Cre!With(Cre!Ledgered(facts), Cre!Declared(form, facts)) \in Evidence(12 + 0, 60 + 32)
  BY <1>6, <1>17, <1>18, MoreFactors
<1> QED BY <1>19

\* The score of a turnover worth v that weighs c, with p points of weight w beside it.
Weighed(c, v, p, w) == (200 * (v * c + p) + (c + w)) \div (2 * (c + w))
SomeRest(p, w) == p \in Nat /\ w \in 12 .. 92 /\ (p = 0 \/ p >= 6)

\* Three fifths of the score that counts a turnover half is no more than the score that counts
\* it in full: something else always counts, twelve at least.
LEMMA HalfWeighed ==
  ASSUME NEW p, NEW w, SomeRest(p, w), NEW v \in Nat,
         NEW x \in Nat, x = Weighed(7, v, p, w), NEW y \in Nat, y = Weighed(14, v, p, w)
  PROVE  3 * x <= 5 * y
<1> USE DEF Weighed, SomeRest
<1>1. PICK d \in Nat, e \in Nat, m \in Nat, n \in Nat :
        d = 7 + w /\ e = 14 + w /\ m = v * 7 + p /\ n = v * 14 + p
  OBVIOUS
<1>2. /\ 19 <= d /\ d <= 99 /\ e = d + 7 /\ m <= n
      /\ (m = 0 /\ n = 0) \/ n >= 6
  BY <1>1
<1>3. 2 * (d * x) <= 200 * m + d
  <2>1. x = (200 * m + d) \div (2 * d)
    BY <1>1
  <2>2. PICK a \in Nat, b \in Nat : a = 200 * m + d /\ b = 2 * d /\ b > 0
    BY <1>2
  <2>3. b * (a \div b) <= a
    BY <2>2
  <2> QED BY <2>1, <2>2, <2>3
<1>4. 200 * n < e * (2 * y + 1)
  <2>1. y = (200 * n + e) \div (2 * e)
    BY <1>1
  <2>2. PICK a \in Nat, b \in Nat : a = 200 * n + e /\ b = 2 * e /\ b > 0
    BY <1>2
  <2>3. a < b * (a \div b) + b
    BY <2>2
  <2> QED BY <2>1, <2>2, <2>3
<1>5. CASE n = 0
  <2>1. m = 0
    BY <1>2, <1>5
  <2>2. 2 * (d * x) <= d
    BY <1>3, <2>1
  <2>3. x >= 1 => d * x >= d
    OBVIOUS
  <2>4. x = 0
    BY <1>2, <2>2, <2>3
  <2> QED BY <2>4
<1>6. CASE n >= 6
  <2> SUFFICES ASSUME 5 * y + 1 <= 3 * x PROVE FALSE
    OBVIOUS
  <2>1. PICK k \in Nat : k = d * y
    BY d * y \in Nat
  <2>2. 2 * (d * (5 * y + 1)) <= 6 * (d * x)
    <3>1. d * (5 * y + 1) <= d * (3 * x)
      OBVIOUS
    <3> QED BY <3>1
  <2>3. 10 * k + 2 * d <= 600 * n + 3 * d
    BY <1>2, <1>3, <2>1, <2>2
  <2>4. 1000 * (d * n) < e * (10 * k) + 5 * (d * e)
    <3>1. d * (200 * n) < d * (e * (2 * y + 1))
      BY <1>2, <1>4
    <3>2. d * (e * (2 * y + 1)) = e * (2 * k) + d * e
      BY <2>1
    <3> QED BY <3>1, <3>2
  <2>5. e * (10 * k) <= e * (600 * n + d)
    BY <2>3
  <2>6. e * (600 * n + d) = 600 * (d * n) + 4200 * n + d * e
    BY <1>2
  <2>7. 400 * (d * n) < 4200 * n + 6 * (d * e)
    BY <2>4, <2>5, <2>6
  <2>8. (400 * d - 4200) * 6 <= (400 * d - 4200) * n
    BY <1>2, <1>6
  <2>9. (400 * d - 4200) * n = 400 * (d * n) - 4200 * n
    OBVIOUS
  <2>10. d * e = d * d + 7 * d
    BY <1>2
  <2>11. d * d <= 99 * d
    BY <1>2
  <2> QED BY <1>2, <2>7, <2>8, <2>9, <2>10, <2>11
<1> QED BY <1>2, <1>5, <1>6

\* What is left of an offer: no more than was asked for, and the more the more was offered.
Left(o, q) == LET k == Cre!Min({Cre!Max({0, o}), q}) IN k - (k % 10)

LEMMA LeftOver ==
  ASSUME NEW o \in Int, NEW q \in Nat
  PROVE  Left(o, q) \in Nat /\ Left(o, q) <= q /\ (o <= 0 => Left(o, q) = 0)
<1>1. PICK m \in Nat : m = Cre!Max({0, o}) /\ (o <= 0 => m = 0)
  BY OfTwo, 0 \in Int
<1>2. PICK k \in Nat : k = Cre!Min({m, q}) /\ k <= q /\ k <= m
  BY OfTwo
<1>3. Left(o, q) = k - (k % 10)
  BY <1>1, <1>2 DEF Left
<1> QED BY <1>1, <1>2, <1>3

LEMMA LeftGrows ==
  ASSUME NEW o \in Int, NEW n \in Int, o <= n, NEW q \in Nat
  PROVE  Left(o, q) <= Left(n, q)
<1>1. PICK m \in Nat, l \in Nat : m = Cre!Max({0, o}) /\ l = Cre!Max({0, n}) /\ m <= l
  BY OfTwo, 0 \in Int
<1>2. PICK k \in Nat, j \in Nat : k = Cre!Min({m, q}) /\ j = Cre!Min({l, q}) /\ k <= j
  BY <1>1, OfTwo
<1>3. Left(o, q) = k - (k % 10) /\ Left(n, q) = j - (j % 10)
  BY <1>1, <1>2 DEF Left
<1> QED BY <1>2, <1>3

\* The two scores of an application whose turnover nobody verified, and of the same verified.
LEMMA VerifiedScores ==
  ASSUME NEW form \in Cre!Form, NEW facts \in Cre!Facts, form.turnover # 0, ~form.verified
  PROVE  \E x, y \in Nat : /\ x = Cre!Strength(form, facts) /\ 3 * x <= 5 * y
                           /\ y = Cre!Strength([form EXCEPT !.verified = TRUE], facts)
<1> DEFINE verified == [form EXCEPT !.verified = TRUE]
           rest == Cre!With(Cre!Ledgered(facts), Cre!Declared(form, facts))
           value == (form.turnover * 25) \div (12 * Cre!Max({form.requested, 1}))
<1>1. /\ verified.verified = TRUE /\ verified.turnover = form.turnover
      /\ verified.requested = form.requested /\ verified.years = form.years
      /\ verified.other = form.other /\ verified.references = form.references
      /\ verified.gst = form.gst
  BY DEF Cre!Form
<1>2. PICK p \in Nat, w \in 12 .. 92 : /\ rest.points = p /\ rest.weight = w
                                       /\ p <= 100 * w /\ (p = 0 \/ p >= 6)
  BY OtherEvidence DEF Evidence
<1>3. Cre!With(Cre!Ledgered(facts), Cre!Declared(verified, facts)) = rest
  BY <1>1 DEF Cre!Declared
<1>4. PICK v \in 0 .. 100 : v = Cre!Clamp(value)
  <2>1. form.turnover \in Int /\ form.requested \in Int
    BY DEF Cre!Form
  <2>2. PICK m \in Int : m = Cre!Max({form.requested, 1}) /\ m >= 1
    BY <2>1, OfTwo, 1 \in Int
  <2>3. value \in Int
    BY <2>1, <2>2
  <2> QED BY <2>3, Clamped
<1>5. /\ Cre!Cover(form) = [points |-> v * 7, weight |-> 7]
      /\ Cre!Cover(verified) = [points |-> v * 14, weight |-> 14]
  BY <1>1, <1>4 DEF Cre!Cover, Cre!Factor
<1>6. Cre!Strength(form, facts) = Cre!Score(Cre!With(Cre!Cover(form), rest))
  BY DEF Cre!Strength
<1>7. Cre!Strength(verified, facts) = Cre!Score(Cre!With(Cre!Cover(verified), rest))
  BY <1>3 DEF Cre!Strength
<1> HIDE DEF verified, rest, value
<1>8. /\ Cre!With(Cre!Cover(form), rest) = [points |-> v * 7 + p, weight |-> 7 + w]
      /\ Cre!With(Cre!Cover(verified), rest) = [points |-> v * 14 + p, weight |-> 14 + w]
  BY <1>2, <1>5 DEF Cre!With
<1>9. PICK x \in Nat, y \in Nat : x = Weighed(7, v, p, w) /\ y = Weighed(14, v, p, w)
  <2>1. PICK a \in Nat, b \in Nat, c \in Nat, d \in Nat :
          /\ a = 200 * (v * 7 + p) + (7 + w) /\ b = 2 * (7 + w) /\ b > 0
          /\ c = 200 * (v * 14 + p) + (14 + w) /\ d = 2 * (14 + w) /\ d > 0
    OBVIOUS
  <2>2. a \div b \in Nat /\ c \div d \in Nat
    BY <2>1
  <2> QED BY <2>1, <2>2 DEF Weighed
<1>10. Cre!Strength(form, facts) = x /\ Cre!Strength(verified, facts) = y
  BY <1>6, <1>7, <1>8, <1>9 DEF Cre!Score, Weighed
<1>11. 3 * x <= 5 * y
  <2>1. SomeRest(p, w) /\ v \in Nat
    BY <1>2 DEF SomeRest
  <2> QED BY <1>9, <2>1, HalfWeighed
<1> QED BY <1>10, <1>11 DEF verified
\* What a turnover of t offers, at a share and a score, under a discount.
Offer(t, share, score, discount) == (((t * share * score) \div 240) * discount) \div 1000000

LEMMA OfferGrows ==
  ASSUME NEW t \in Int, NEW x \in Nat, NEW y \in Nat, 3 * x <= 5 * y, NEW k \in Nat
  PROVE  /\ Offer(t, 3, x, k) \in Int /\ Offer(t, 5, y, k) \in Int
         /\ t >= 0 => Offer(t, 3, x, k) <= Offer(t, 5, y, k)
         /\ t <= 0 => Offer(t, 3, x, k) <= 0
<1>1. PICK a \in Int, b \in Int : a = t * 3 * x /\ b = t * 5 * y
  OBVIOUS
<1>2. (t >= 0 => a <= b) /\ (t <= 0 => a <= 0)
  <2>1. a = t * (3 * x) /\ b = t * (5 * y)
    BY <1>1
  <2>2. PICK m \in Nat, n \in Nat : m = 3 * x /\ n = 5 * y /\ m <= n
    OBVIOUS
  <2>3. (t >= 0 => t * m <= t * n) /\ (t <= 0 => t * m <= 0)
    BY <2>2
  <2> QED BY <2>1, <2>2, <2>3
<1>3. PICK c \in Int, d \in Int : /\ c = a \div 240 /\ d = b \div 240
                                  /\ (t >= 0 => c <= d) /\ (t <= 0 => c <= 0)
  BY <1>2
<1>4. PICK e \in Int, f \in Int : /\ e = c * k /\ f = d * k
                                  /\ (t >= 0 => e <= f) /\ (t <= 0 => e <= 0)
  <2>1. c * k \in Int /\ d * k \in Int /\ (c <= d => c * k <= d * k) /\ (c <= 0 => c * k <= 0)
    OBVIOUS
  <2> QED BY <1>3, <2>1
<1>5. PICK g \in Int, h \in Int : /\ g = e \div 1000000 /\ h = f \div 1000000
                                  /\ (t >= 0 => g <= h) /\ (t <= 0 => g <= 0)
  BY <1>4
<1>6. Offer(t, 3, x, k) = g /\ Offer(t, 5, y, k) = h
  BY <1>1, <1>3, <1>4, <1>5 DEF Offer
<1> QED BY <1>5, <1>6

\* The evidence for a buyer is on its scale, and so is the discount of the offer.
LEMMA StrengthOnScale ==
  ASSUME NEW form \in Cre!Form, NEW facts \in Cre!Facts
  PROVE  Cre!Strength(form, facts) \in Nat
<1> DEFINE rest == Cre!With(Cre!Ledgered(facts), Cre!Declared(form, facts))
           value == (form.turnover * 25) \div (12 * Cre!Max({form.requested, 1}))
           cover == Cre!Cover(form)
<1>1. value \in Int
  <2>1. form.turnover \in Int /\ form.requested \in Int
    BY DEF Cre!Form
  <2>2. PICK m \in Int : m = Cre!Max({form.requested, 1}) /\ m >= 1
    BY <2>1, OfTwo, 1 \in Int
  <2> QED BY <2>1, <2>2
<1>2. PICK v \in Int : v = value
  BY <1>1
<1>3. PICK c \in Nat : c \in {7, 14} /\ c = IF form.verified THEN 14 ELSE 7
  OBVIOUS
<1>4. cover \in {[points |-> Cre!Clamp(v) * c, weight |-> c], [points |-> 0, weight |-> 0]}
  BY <1>2, <1>3 DEF Cre!Cover, Cre!Factor
<1>5. rest \in Evidence(12, 92)
  BY OtherEvidence
<1>6. Cre!Strength(form, facts) = Cre!Score(Cre!With(cover, rest))
  BY DEF Cre!Strength
<1> HIDE DEF cover, rest, value
<1>7. cover \in Evidence(0, c)
  BY <1>3, <1>4, PerhapsOne
<1>8. PICK e : e = Cre!With(cover, rest)
  OBVIOUS
<1>9. e \in Evidence(0 + 12, c + 92)
  BY <1>5, <1>7, <1>8, MoreFactors
<1>10. e \in [points : Nat, weight : Nat] /\ e.weight # 0 /\ e.points <= 100 * e.weight
  BY <1>9 DEF Evidence
<1> QED BY <1>6, <1>8, <1>10, OnScale

LEMMA DiscountTyped ==
  ASSUME NEW form, NEW facts
  PROVE  Cre!RiskTenths[Cre!Risk(facts)] * Cre!VintageTenths(form.years) \in Nat
<1>1. Cre!Risk(facts) \in {"LOW", "MODERATE", "ELEVATED", "HIGH", "none"}
  BY DEF Cre!Risk, Cre!Band
<1>2. \A r \in {"LOW", "MODERATE", "ELEVATED", "HIGH", "none"} : Cre!RiskTenths[r] \in Nat
  BY DEF Cre!RiskTenths
<1>3. PICK a \in Nat : a = Cre!RiskTenths[Cre!Risk(facts)]
  BY <1>1, <1>2
<1>4. PICK b \in Nat : b = Cre!VintageTenths(form.years)
  BY DEF Cre!VintageTenths
<1> QED BY <1>3, <1>4

\* The ceiling is what is left of the offer when the overdue amount is taken off it.
LEMMA CeilingLeft ==
  ASSUME NEW form \in Cre!Form, NEW facts \in Cre!Facts, form.requested > 0, form.turnover # 0,
         NEW o \in Int, o = Cre!Offered(form, facts)
  PROVE  Cre!Ceiling(form, facts) = Left(o - facts.overdue, form.requested)
BY DEF Cre!Ceiling, Left, Cre!Rounding, Cre!Form

\* Nobody is offered more than was asked for, and a turnover nobody verified never buys more
\* than the same figure verified would.
LEMMA CeilingSafe ==
  ASSUME NEW form \in Cre!Form, NEW facts \in Cre!Facts, form.requested > 0
  PROVE  /\ Cre!Ceiling(form, facts) <= form.requested
         /\ Cre!Ceiling(form, facts) <= Cre!Ceiling([form EXCEPT !.verified = TRUE], facts)
<1> DEFINE verified == [form EXCEPT !.verified = TRUE]
           k == Cre!RiskTenths[Cre!Risk(facts)] * Cre!VintageTenths(form.years)
<1>1. /\ verified \in Cre!Form
      /\ verified.verified = TRUE /\ verified.turnover = form.turnover
      /\ verified.requested = form.requested /\ verified.years = form.years
  BY DEF Cre!Form
<1>2. PICK q \in Nat, t \in Int : q = form.requested /\ q > 0 /\ t = form.turnover
  BY DEF Cre!Form
<1>3. PICK unpaid \in Nat : unpaid = facts.overdue
  BY BoundAssumption DEF Cre!Facts
<1>4. k \in Nat
  BY DiscountTyped
<1>5. CASE t = 0
  <2>1. Cre!Ceiling(form, facts) = 0 /\ Cre!Ceiling(verified, facts) = 0
    BY <1>1, <1>2, <1>5 DEF Cre!Ceiling
  <2> QED BY <1>2, <2>1
<1>6. CASE t # 0 /\ form.verified
  <2>1. verified = form
    BY <1>6 DEF Cre!Form
  <2>2. PICK s \in Nat : s = Cre!Strength(form, facts)
    BY StrengthOnScale
  <2>3. PICK o \in Int : o = Cre!Offered(form, facts)
    <3>1. Cre!Offered(form, facts) = Offer(t, 5, s, k)
      BY <1>2, <1>6, <2>2 DEF Cre!Offered, Offer
    <3> HIDE DEF k
    <3>2. 3 * 0 <= 5 * s
      OBVIOUS
    <3>3. Offer(t, 5, s, k) \in Int
      BY <1>4, <3>2, OfferGrows, 0 \in Nat
    <3> QED BY <3>1, <3>3
  <2>4. Cre!Ceiling(form, facts) = Left(o - unpaid, q)
    BY <1>2, <1>3, <1>6, <2>3, CeilingLeft
  <2>5. PICK n \in Int : n = o - unpaid
    OBVIOUS
  <2>6. Left(n, q) \in Nat /\ Left(n, q) <= q
    BY LeftOver
  <2>7. PICK l \in Nat : l = Cre!Ceiling(form, facts) /\ l <= q
    BY <2>4, <2>5, <2>6
  <2>8. l = Cre!Ceiling(verified, facts)
    BY <2>1, <2>7
  <2> QED BY <1>2, <2>7, <2>8
<1>7. CASE t # 0 /\ ~form.verified
  <2>1. PICK x \in Nat, y \in Nat : /\ x = Cre!Strength(form, facts) /\ 3 * x <= 5 * y
                                    /\ y = Cre!Strength(verified, facts)
    BY <1>2, <1>7, VerifiedScores
  <2>2. /\ Cre!Offered(form, facts) = Offer(t, 3, x, k)
        /\ Cre!Offered(verified, facts) = Offer(t, 5, y, k)
    BY <1>1, <1>2, <1>7, <2>1 DEF Cre!Offered, Offer
  <2> HIDE DEF k, verified
  <2>3. PICK o \in Int, n \in Int :
          /\ o = Cre!Offered(form, facts) /\ n = Cre!Offered(verified, facts)
          /\ (t >= 0 => o <= n) /\ (t <= 0 => o <= 0)
    BY <1>4, <2>1, <2>2, OfferGrows
  <2>4. /\ Cre!Ceiling(form, facts) = Left(o - unpaid, q)
        /\ Cre!Ceiling(verified, facts) = Left(n - unpaid, q)
    BY <1>1, <1>2, <1>3, <1>7, <2>3, CeilingLeft
  <2>5. PICK a \in Int, b \in Int : /\ a = o - unpaid /\ b = n - unpaid
                                    /\ (t >= 0 => a <= b) /\ (t <= 0 => a <= 0)
    BY <2>3
  <2>6. /\ Left(a, q) \in Nat /\ Left(a, q) <= q /\ (a <= 0 => Left(a, q) = 0)
        /\ Left(b, q) \in Nat
    BY LeftOver
  <2>7. a <= b => Left(a, q) <= Left(b, q)
    BY LeftGrows
  <2>8. Left(a, q) <= Left(b, q)
    BY <2>5, <2>6, <2>7
  <2> QED BY <1>2, <2>4, <2>5, <2>6, <2>8 DEF verified
<1> QED BY <1>5, <1>6, <1>7

LEMMA AssessSafe ==
  ASSUME NEW form \in Cre!Form, NEW facts \in Cre!Facts, form.requested > 0
  PROVE  /\ Cre!Assess(form, facts).limit <= form.requested
         /\ Cre!Assess(form, facts).limit
              <= Cre!Assess([form EXCEPT !.verified = TRUE], facts).limit
<1> DEFINE verified == [form EXCEPT !.verified = TRUE]
<1>1. verified.requested = form.requested /\ form.requested \in Int
  BY DEF Cre!Form
<1>2. Cre!Blocked(verified, facts) <=> Cre!Blocked(form, facts)
  BY <1>1 DEF Cre!Blocked
<1>3. CASE Cre!Blocked(form, facts)
  <2>1. Cre!Assess(form, facts).limit = 0 /\ Cre!Assess(verified, facts).limit = 0
    BY <1>2, <1>3 DEF Cre!Assess
  <2> QED BY <1>1, <2>1
<1>4. CASE ~Cre!Blocked(form, facts)
  <2>1. /\ Cre!Assess(form, facts).limit = Cre!Ceiling(form, facts)
        /\ Cre!Assess(verified, facts).limit = Cre!Ceiling(verified, facts)
    BY <1>2, <1>4 DEF Cre!Assess
  <2> HIDE DEF verified
  <2>2. /\ Cre!Ceiling(form, facts) <= form.requested
        /\ Cre!Ceiling(form, facts) <= Cre!Ceiling(verified, facts)
    BY CeilingSafe DEF verified
  <2> QED BY <2>1, <2>2 DEF verified
<1> QED BY <1>3, <1>4
\* A request that assesses asks for something.
Asks(d) == d.at \in {"asked", "counted", "read"} => d.form.requested > 0

\* An assessment offers no more than was asked for, nor than the figures would if verified.
Sound(r) ==
  r.exists => /\ r.limit <= r.form.requested
              /\ r.limit <= Cre!Assess([r.form EXCEPT !.verified = TRUE], r.facts).limit

AdvisedInv == (\A o \in Hands : Asks(desk[o])) /\ (\A c \in Checks : Sound(assessed[c]))

LEMMA InitAdvised == ASSUME Cre!Init PROVE AdvisedInv
<1>1. /\ \A o \in Hands : desk[o] = Cre!Free
      /\ \A c \in Checks : assessed[c] = Cre!NoRow
  BY DEF Cre!Init
<1>2. Cre!Free.at = "free" /\ ~Cre!NoRow.exists
  BY FreeRequest DEF Cre!NoRow
<1> QED BY <1>1, <1>2 DEF AdvisedInv, Asks, Sound

\* The turn of one request, that stores no assessment.
LEMMA AdvisedTurn ==
  ASSUME CreditInv, AdvisedInv, NEW o \in Hands, NEW d, Cre!Turn(o, d), Asks(d),
         UNCHANGED assessed
  PROVE  AdvisedInv'
<1>1. \A p \in Hands : desk'[p] = IF p = o THEN d ELSE desk[p]
  BY DEF Cre!Turn, CreditInv, Busy
<1>2. \A p \in Hands : Asks(desk'[p])
  BY <1>1 DEF AdvisedInv
<1> QED BY <1>2 DEF AdvisedInv

\* The ledger moves: what was asked for stays.
LEMMA AdvisedMoves ==
  ASSUME CreditInv, AdvisedInv, NEW b, Cre!Moves(b)
  PROVE  AdvisedInv'
<1>1. ASSUME NEW o \in Hands PROVE Asks(desk'[o])
  <2> DEFINE x == desk[o].arrears /\ b.overdue > 0
  <2>1. desk'[o] = [desk[o] EXCEPT !.arrears = x] /\ Request(desk[o]) /\ Asks(desk[o])
    BY DEF Cre!Moves, Cre!Watched, CreditInv, Busy, AdvisedInv
  <2> HIDE DEF x
  <2>2. desk'[o].at = desk[o].at /\ desk'[o].form = desk[o].form
    BY <2>1 DEF Request
  <2> QED BY <2>1, <2>2 DEF Asks
<1> QED BY <1>1 DEF AdvisedInv, Cre!Moves

\* The statements of a check: a limit of zero or less was refused before them.
LEMMA AdvisedReads ==
  ASSUME CreditInv, AdvisedInv, NEW o \in Hands,
         \/ \E f \in Forms : Cre!AskForCheck(o, f)
         \/ Cre!CountSettled(o) \/ Cre!ReadOpen(o)
  PROVE  AdvisedInv'
<1>1. Request(desk[o]) /\ Asks(desk[o]) /\ UNCHANGED assessed
  BY DEF CreditInv, Busy, AdvisedInv, Cre!AskForCheck, Cre!CountSettled, Cre!ReadOpen
<1>2. CASE \E f \in Forms : Cre!AskForCheck(o, f)
  <2> DEFINE x == books.overdue > 0
  <2>1. PICK f \in Forms :
          /\ f.requested > 0
          /\ Cre!Turn(o, [Cre!Free EXCEPT !.at = "asked", !.form = f, !.arrears = x])
    BY <1>2 DEF Cre!AskForCheck
  <2> DEFINE d == [Cre!Free EXCEPT !.at = "asked", !.form = f, !.arrears = x]
  <2> HIDE DEF x
  <2>2. d.form = f
    BY FreeRequest DEF Request
  <2> HIDE DEF d
  <2>3. Asks(d)
    BY <2>1, <2>2 DEF Asks
  <2> QED BY <1>1, <2>1, <2>3, AdvisedTurn DEF d
<1>3. CASE Cre!CountSettled(o)
  <2> DEFINE d == [desk[o] EXCEPT !.at = "counted", !.facts.settled = books.settled]
  <2>1. desk[o].at = "asked" /\ Cre!Turn(o, d)
    BY <1>3 DEF Cre!CountSettled, Cre!At
  <2>2. d.form = desk[o].form
    BY <1>1 DEF Request
  <2> HIDE DEF d
  <2>3. Asks(d)
    BY <1>1, <2>1, <2>2 DEF Asks
  <2> QED BY <1>1, <2>1, <2>3, AdvisedTurn
<1>4. CASE Cre!ReadOpen(o)
  <2>1. PICK b \in Behaviours :
          Cre!Turn(o, [desk[o] EXCEPT !.at = "read", !.facts.overdue = books.overdue,
                                      !.facts.worst = books.worst, !.facts.behaviour = b])
    BY <1>4 DEF Cre!ReadOpen
  <2> DEFINE d == [desk[o] EXCEPT !.at = "read", !.facts.overdue = books.overdue,
                                  !.facts.worst = books.worst, !.facts.behaviour = b]
  <2>2. desk[o].at = "counted"
    BY <1>4 DEF Cre!ReadOpen, Cre!At
  <2>3. d.form = desk[o].form
    BY <1>1 DEF Request
  <2> HIDE DEF d
  <2>4. Asks(d)
    BY <1>1, <2>2, <2>3 DEF Asks
  <2> QED BY <1>1, <2>1, <2>4, AdvisedTurn DEF d
<1> QED BY <1>2, <1>3, <1>4

\* The assessment is stored.
LEMMA AdvisedStore ==
  ASSUME CreditInv, AdviceInv, CreditTypes, AdvisedInv, NEW o \in Hands, Cre!StoreCheck(o)
  PROVE  AdvisedInv'
<1> DEFINE d == desk[o]
           a == Cre!Assess(d.form, d.facts)
           r == [exists |-> TRUE, form |-> d.form, facts |-> d.facts, arrears |-> d.arrears,
                 limit |-> a.limit, advice |-> a.advice]
<1>1. PICK c \in Checks : /\ assessed' = [assessed EXCEPT ![c] = r]
                          /\ Cre!Turn(o, [Cre!Free EXCEPT !.at = "stored", !.check = c])
  BY DEF Cre!StoreCheck
<1>2. d.form \in Cre!Form /\ d.facts \in Cre!Facts /\ d.form.requested > 0
  BY FormsAssumption DEF Cre!StoreCheck, Cre!At, AdvisedInv, Asks, CreditTypes
<1>3. r.form = d.form /\ r.facts = d.facts /\ r.limit = a.limit
  OBVIOUS
<1> HIDE DEF d, r
<1>4. Sound(r)
  BY <1>2, <1>3, AssessSafe DEF Sound
<1>5. \A k \in Checks : assessed'[k] = IF k = c THEN r ELSE assessed[k]
  BY <1>1 DEF AdviceInv
<1> DEFINE e == [Cre!Free EXCEPT !.at = "stored", !.check = c]
<1>6. e.at = "stored"
  BY FreeRequest DEF Request
<1> HIDE DEF e
<1>7. \A p \in Hands : desk'[p] = IF p = o THEN e ELSE desk[p]
  BY <1>1 DEF e, Cre!Turn, CreditInv, Busy
<1> QED BY <1>4, <1>5, <1>6, <1>7 DEF AdvisedInv, Asks

\* What comes after the assessment changes none.
LEMMA AdvisedAside ==
  ASSUME CreditInv, AdvisedInv, NEW o \in Hands,
         \/ Cre!AuditCheck(o) \/ Cre!OpenDecision(o) \/ Cre!StoreDecision(o)
         \/ Cre!AuditDecision(o) \/ Cre!Dies(o)
  PROVE  AdvisedInv'
<1>1. UNCHANGED assessed /\ Request(desk[o])
  BY DEF CreditInv, Busy, Cre!AuditCheck, Cre!OpenDecision, Cre!Deciding, Cre!StoreDecision,
         Cre!AuditDecision, Cre!Dies
<1>2. CASE Cre!AuditCheck(o) \/ Cre!AuditDecision(o) \/ Cre!Dies(o)
  <2>1. Cre!Turn(o, Cre!Free)
    BY <1>2 DEF Cre!AuditCheck, Cre!AuditDecision, Cre!Dies
  <2>2. Asks(Cre!Free)
    BY FreeRequest DEF Asks
  <2> QED BY <1>1, <2>1, <2>2, AdvisedTurn
<1>3. CASE Cre!OpenDecision(o)
  <2>1. PICK c \in Checks, l \in Approvals :
          Cre!Turn(o, [Cre!Free EXCEPT !.at = "deciding", !.check = c, !.limit = l])
    BY <1>3 DEF Cre!OpenDecision, Cre!Deciding
  <2> DEFINE d == [Cre!Free EXCEPT !.at = "deciding", !.check = c, !.limit = l]
  <2>2. d.at = "deciding"
    BY FreeRequest DEF Request
  <2> HIDE DEF d
  <2>3. Asks(d)
    BY <2>2 DEF Asks
  <2> QED BY <1>1, <2>1, <2>3, AdvisedTurn DEF d
<1>4. CASE Cre!StoreDecision(o)
  <2> DEFINE d == [desk[o] EXCEPT !.at = "decided"]
  <2>1. Cre!Turn(o, d)
    BY <1>4 DEF Cre!StoreDecision
  <2>2. d.at = "decided"
    BY <1>1 DEF Request
  <2> HIDE DEF d
  <2>3. Asks(d)
    BY <2>2 DEF Asks
  <2> QED BY <1>1, <2>1, <2>3, AdvisedTurn
<1> QED BY <1>2, <1>3, <1>4

LEMMA AdvisedKept == Spec => []AdvisedInv
<1>1. CreditInv /\ AdviceInv /\ CreditTypes /\ AdvisedInv /\ [Cre!Next]_(Cre!kvars) => AdvisedInv'
  <2> SUFFICES ASSUME CreditInv, AdviceInv, CreditTypes, AdvisedInv, [Cre!Next]_(Cre!kvars)
               PROVE  AdvisedInv'
    OBVIOUS
  <2>1. CASE UNCHANGED Cre!kvars
    BY <2>1 DEF Cre!kvars, AdvisedInv
  <2>2. CASE Cre!FallsDue \/ Cre!Settled
    BY <2>2, AdvisedMoves DEF Cre!FallsDue, Cre!Settled
  <2>3. CASE Cre!Next /\ ~(Cre!FallsDue \/ Cre!Settled)
    BY <2>3, AdvisedReads, AdvisedStore, AdvisedAside DEF Cre!Next
  <2> QED BY <2>1, <2>2, <2>3
<1>2. Cre!Init => AdvisedInv
  BY InitAdvised
<1> QED BY <1>1, <1>2, CreditInvAlways, AdviceKept, CreditTypesKept, CreditPart, PTL DEF Cre!Spec

\* Whoever is in arrears all through a check is offered nothing, however the ledger moves
\* between its statements; nobody is offered more than was asked for; and a turnover nobody
\* verified never buys more than the same figure verified would, whatever else is declared and
\* however the buyer behaves (creditworthiness.py:175-181, 226-271, api/routes.py:579-682).
THEOREM AdviceIsSafe == Spec => []SafeAdvice
<1>1. AdviceInv /\ AdvisedInv => SafeAdvice
  <2> SUFFICES ASSUME AdviceInv, AdvisedInv, NEW c \in Checks, assessed[c].exists
               PROVE  LET r == assessed[c] IN
                        /\ r.arrears => r.limit = 0 /\ r.advice = "REFER"
                        /\ r.limit <= r.form.requested
                        /\ r.limit <= Cre!Assess([r.form EXCEPT !.verified = TRUE], r.facts).limit
    BY DEF SafeAdvice, Cre!SafeAdvice
  <2>1. Sound(assessed[c])
    BY DEF AdvisedInv
  <2> QED BY <2>1 DEF AdviceInv, NothingForArrears, Sound
<1> QED BY <1>1, AdviceKept, AdvisedKept, PTL
=============================================================================
