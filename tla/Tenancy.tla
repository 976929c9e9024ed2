------------------------------ MODULE Tenancy ------------------------------
(***************************************************************************)
(* Which rows a database session sees (db.py).  A tenant is bound to a     *)
(* session, and to each transaction of it by a setting that is local to    *)
(* the transaction; connections are pooled.  PostgreSQL applies the        *)
(* policies of a table to every role that does not bypass them.            *)
(***************************************************************************)
EXTENDS FiniteSets

CONSTANTS Companies, NoCompany, Tables,
          Sessions, Connections, NoConnection

VARIABLES
  isolated,  \* the tenant tables with row-level security enabled and forced, and a policy
  created,   \* the tenant tables that exist
  bypasses,  \* whether the role of the application bypasses policies
  session,   \* of each session: its engine, the tenant in its info, its connection
  setting,   \* app.company_id on each connection
  seen       \* history: the last statement, who issued it and the tenants whose rows it saw

dvars == <<isolated, created, bypasses, session, setting, seen>>

Session == [engine : {"none", "app", "worker"}, company : Companies \cup {NoCompany},
            on : Connections \cup {NoConnection}]
Closed == [engine |-> "none", company |-> NoCompany, on |-> NoConnection]
Nothing == [engine |-> "none", company |-> NoCompany, rows |-> {}, checked |-> TRUE]

Init == /\ isolated = {} /\ created = {} /\ bypasses = TRUE
        /\ session = [s \in Sessions |-> Closed]
        /\ setting = [k \in Connections |-> NoCompany]
        /\ seen = Nothing

---------------------------------------------------------------------------
(* Schema.                                                                 *)

\* init, or a migration: tables appear without policies.
Create == /\ \E T \in SUBSET Tables : created' = created \cup T /\ created' # created
          /\ UNCHANGED <<isolated, bypasses, session, setting, seen>>

\* rls: every table carrying a company, as discovered now, and the role.
ApplyRls == /\ isolated' = created /\ bypasses' = FALSE
            /\ UNCHANGED <<created, session, setting, seen>>

\* Mutant: the check looks at the tables and not at the role.
TablesChecked == created = Tables /\ isolated = created

\* check: no table without a policy or missing, and a role that obeys them.
CheckPasses == created = Tables /\ isolated = created /\ ~bypasses

---------------------------------------------------------------------------
(* Sessions.                                                               *)

\* tenant_session; session_scope and get_session, which bind nothing; admin_session.
OpenSession(s) ==
  /\ session[s] = Closed
  /\ \E c \in Companies \cup {NoCompany}, e \in {"app", "worker"} :
       /\ e = "worker" => c = NoCompany
       /\ session' = [session EXCEPT ![s] = [engine |-> e, company |-> c, on |-> NoConnection]]
  /\ UNCHANGED <<isolated, created, bypasses, setting, seen>>

\* Mutant: no after_begin hook; a tenant is bound in the transaction that set it only.
BindNothing(s, k) == setting

\* _bind_tenant_on_begin.
Bind(s, k) == IF session[s].company = NoCompany THEN setting
              ELSE [setting EXCEPT ![k] = session[s].company]

\* The first statement of a transaction takes a connection from the pool.
Begin(s) ==
  /\ session[s].engine # "none" /\ session[s].on = NoConnection
  /\ \E k \in Connections :
       /\ \A t \in Sessions : session[t].on # k
       /\ session' = [session EXCEPT ![s].on = k]
       /\ setting' = Bind(s, k)
  /\ UNCHANGED <<isolated, created, bypasses, seen>>

\* set_tenant: now, and for every transaction to come.
SetTenant(s) ==
  /\ session[s].engine = "app" /\ session[s].on # NoConnection
  /\ session[s].company = NoCompany
  /\ \E c \in Companies : /\ session' = [session EXCEPT ![s].company = c]
                          /\ setting' = [setting EXCEPT ![session[s].on] = c]
  /\ UNCHANGED <<isolated, created, bypasses, seen>>

\* The tenants whose rows of table t a statement of s sees.
Visible(s, t) ==
  IF session[s].engine = "worker" \/ bypasses \/ t \notin isolated THEN Companies
  ELSE {setting[session[s].on]} \ {NoCompany}

Query(s) ==
  /\ session[s].on # NoConnection
  /\ \E t \in created : seen' = [engine |-> session[s].engine, company |-> session[s].company,
                                 rows |-> Visible(s, t), checked |-> CheckPasses]
  /\ UNCHANGED <<isolated, created, bypasses, session, setting>>

\* Commit or rollback: what was local to the transaction goes, the connection is free.
EndTransaction(s) ==
  /\ session[s].on # NoConnection
  /\ setting' = [setting EXCEPT ![session[s].on] = NoCompany]
  /\ session' = [session EXCEPT ![s].on = NoConnection]
  /\ UNCHANGED <<isolated, created, bypasses, seen>>

CloseSession(s) == /\ session[s].engine # "none" /\ session[s].on = NoConnection
                   /\ session' = [session EXCEPT ![s] = Closed]
                   /\ UNCHANGED <<isolated, created, bypasses, setting, seen>>

Next == \/ Create \/ ApplyRls
        \/ \E s \in Sessions : \/ OpenSession(s) \/ Begin(s) \/ SetTenant(s) \/ Query(s)
                               \/ EndTransaction(s) \/ CloseSession(s)

Spec == Init /\ [][Next]_dvars

---------------------------------------------------------------------------
TypeOK == /\ isolated \subseteq created /\ created \subseteq Tables /\ bypasses \in BOOLEAN
          /\ session \in [Sessions -> Session]
          /\ setting \in [Connections -> Companies \cup {NoCompany}]

\* On a schema that check passes, a session of the application sees exactly the rows of
\* its tenant in every transaction it opens, also after it committed, on whichever
\* pooled connection, and a session without a tenant sees none (db.py:7-11, 87-95).
OwnRowsOnly ==
  seen.checked /\ seen.engine = "app" =>
    seen.rows = IF seen.company = NoCompany THEN {} ELSE {seen.company}
=============================================================================
