------------------------------- MODULE Tenants -------------------------------
(***************************************************************************)
(* How a company becomes a tenant and what it may then do: the public      *)
(* application with its e-mail codes (api/v1/tenant_apply.py, core/otp.py),*)
(* its review and the tenants' plans and modules (api/v1/platform.py,      *)
(* services/tenant_modules.py), plan limits and usage (core/usage.py,      *)
(* api/v1/stores.py), the tenant's settings (api/v1/tenant_settings.py)    *)
(* and the market listing of its store (api/v1/marketplace_admin.py).      *)
(*                                                                         *)
(* A request reads the rows it decides by, then commits; a column that is  *)
(* as it was read is not written.  The settings of a tenant are one JSON   *)
(* column, which every patch reads and writes whole.                       *)
(***************************************************************************)
EXTENDS Integers, Sequences, FiniteSets

CONSTANTS
  Emails, TenantCodes, Plans, Workers,
  Limit,        \* Limit[p]: how many stores, and orders a month, plan p allows
  MaxAttempts,  \* wrong codes after which an e-mail code is passed over
  MaxRequests,  \* bound on the requests
  None

VARIABLES
  app,       \* the applications, in the order of their submission
  otp,       \* the e-mail codes, in the order of their issue
  tenant,    \* the tenants, with their subscriptions, counts and listing
  request,   \* request[w]: what worker w is at
  requests

tenantVars == <<app, otp, tenant, request, requests>>

rows == <<app, otp, tenant>>

(* What the constants stand for.                                           *)
TenantsParameters == MaxRequests \in Nat

---------------------------------------------------------------------------
Application ==
  [email : Emails, code : TenantCodes \cup {None}, tenant : Nat,
   status : {"pending", "email_verified", "rejected", "provisioned"}]

Otp == [app : Nat \ {0}, email : Emails, attempts : Nat,
        is : {"sent", "used", "expired"}]

Settings == [modules : BOOLEAN, line : BOOLEAN, approval : BOOLEAN]

Tenant ==
  [code : TenantCodes \cup {None}, status : {"active", "suspended"},
   plan : Plans \cup {None},
   subs : Seq([plan : Plans, active : BOOLEAN]), settings : Settings,
   stores : Nat, orders : Nat,
   listing : {"none", "draft", "pending", "approved", "suspended"}]

NewTenant(code, plan) ==
  [code |-> code, status |-> "active", plan |-> plan,
   subs |-> <<[plan |-> plan, active |-> TRUE]>>,
   settings |-> [modules |-> FALSE, line |-> FALSE, approval |-> FALSE],
   stores |-> 1, orders |-> 0, listing |-> "none"]

Idle == [op |-> "none"]

TenantsTypeOK ==
  /\ app \in Seq(Application) /\ otp \in Seq(Otp) /\ tenant \in Seq(Tenant)
  /\ \A a \in DOMAIN app : app[a].tenant \in 0..Len(tenant)
  /\ requests \in 0..MaxRequests

Init ==
  /\ app = <<>> /\ otp = <<>> /\ tenant = <<>>
  /\ request = [w \in Workers |-> Idle]
  /\ requests = 0

---------------------------------------------------------------------------
Begin(w, r) ==
  /\ request[w] = Idle
  /\ requests < MaxRequests
  /\ requests' = requests + 1
  /\ request' = [request EXCEPT ![w] = r]
  /\ UNCHANGED rows

AtOnce(w) ==
  /\ request[w] = Idle
  /\ requests < MaxRequests
  /\ requests' = requests + 1
  /\ UNCHANGED request

Done(w) == request' = [request EXCEPT ![w] = Idle] /\ UNCHANGED requests

Doing(w, op) == request[w].op = op

(* A unique column refuses what the request would insert.                  *)
Abort(w) == Done(w) /\ UNCHANGED rows

CodeTaken(code) == code # None /\ \E t \in DOMAIN tenant : tenant[t].code = code

---------------------------------------------------------------------------
(* Applying                                                                *)

Blocking == {"pending", "email_verified", "provisioned"}

Open == {"pending", "email_verified"}

Sent(a, email) == Append(otp, [app |-> a, email |-> email, attempts |-> 0, is |-> "sent"])

SubmitApplication(w, email, code) ==
  /\ \A a \in DOMAIN app :
       /\ app[a].email = email => app[a].status \notin Blocking
       /\ code # None /\ app[a].code = code => app[a].status \notin Open
  /\ ~CodeTaken(code)
  /\ Begin(w, [op |-> "submit", email |-> email, code |-> code])

(* proposed_subdomain is unique among all applications, the rejected too.  *)
CommitSubmit(w) ==
  LET r == request[w]
  IN /\ Doing(w, "submit")
     /\ IF r.code # None /\ \E a \in DOMAIN app : app[a].code = r.code THEN Abort(w)
        ELSE /\ app' = Append(app, [email |-> r.email, code |-> r.code,
                                    status |-> "pending", tenant |-> 0])
             /\ otp' = Sent(Len(app) + 1, r.email)
             /\ Done(w)
             /\ UNCHANGED tenant

(* resume_application and resend_application_otp                           *)
Resend(w, a) ==
  /\ app[a].status = "pending"
  /\ AtOnce(w)
  /\ otp' = Sent(a, app[a].email)
  /\ UNCHANGED <<app, tenant>>

Expire(k) ==
  /\ otp[k].is = "sent"
  /\ otp' = [otp EXCEPT ![k].is = "expired"]
  /\ UNCHANGED <<app, tenant, request, requests>>

(* Mistaken: the codes of the address, of whichever application.           *)
CodesByEmail(a) == {k \in DOMAIN otp : otp[k].email = app[a].email /\ otp[k].is # "used"}

(* verify_email_otp looks at the last five codes of the application.       *)
CodesOf(a) == {k \in DOMAIN otp : otp[k].app = a /\ otp[k].is # "used"}

Looked(codes) == {k \in codes : Cardinality({j \in codes : j > k}) < 5}

(* The applicant enters code k, or, of 0, a wrong one.  Wrong tries are     *)
(* counted in the session that the refusal then rolls back: what stays is  *)
(* the miss of a newer code when an older one is right.                    *)
VerifyApplication(w, a, k) ==
  LET tried == {j \in Looked(CodesOf(a)) : otp[j].is = "sent" /\ otp[j].attempts < MaxAttempts}
  IN /\ app[a].status \in Open
     /\ Begin(w, [op |-> "verify", of |-> a, status |-> app[a].status,
                  hit |-> IF k \in tried THEN k ELSE 0,
                  tries |-> [j \in {i \in tried : k \in tried => i > k} |->
                               otp[j].attempts + 1]])

CommitVerify(w) ==
  LET r == request[w]
  IN /\ Doing(w, "verify")
     /\ otp' = [k \in DOMAIN otp |->
          IF k = r.hit THEN [otp[k] EXCEPT !.is = "used"]
          ELSE IF k \in DOMAIN r.tries /\ r.hit # 0
               THEN [otp[k] EXCEPT !.attempts = r.tries[k]] ELSE otp[k]]
     /\ app' = IF r.hit # 0 /\ r.status = "pending"
               THEN [app EXCEPT ![r.of].status = "email_verified"] ELSE app
     /\ Done(w)
     /\ UNCHANGED tenant

---------------------------------------------------------------------------
(* The platform's review.  A code that is not taken when it is looked for  *)
(* may be when the tenant is inserted.                                     *)

ApproveApplication(w, a, code, plan) ==
  /\ app[a].status = "email_verified"
  /\ ~CodeTaken(code)
  /\ code = app[a].code \/ code # None
  /\ Begin(w, [op |-> "approve", of |-> a, code |-> code, plan |-> plan])

DirectCreate(w, code, plan) ==
  /\ code # None /\ ~CodeTaken(code)
  /\ Begin(w, [op |-> "create", code |-> code, plan |-> plan])

Provision(w) ==
  LET r == request[w]
  IN /\ Doing(w, "approve") \/ Doing(w, "create")
     /\ IF CodeTaken(r.code) THEN Abort(w)
        ELSE /\ tenant' = Append(tenant, NewTenant(r.code, r.plan))
             /\ app' = IF r.op = "create" THEN app
                       ELSE [app EXCEPT ![r.of].status = "provisioned",
                                        ![r.of].tenant = Len(tenant) + 1]
             /\ Done(w)
             /\ UNCHANGED otp

RejectApplication(w, a) ==
  /\ app[a].status \in Open
  /\ Begin(w, [op |-> "reject", of |-> a])

CommitReject(w) ==
  /\ Doing(w, "reject")
  /\ app' = [app EXCEPT ![request[w].of].status = "rejected"]
  /\ Done(w)
  /\ UNCHANGED <<otp, tenant>>

---------------------------------------------------------------------------
(* Plans.  get_active_plan and update_tenant expect one active             *)
(* subscription at most, and fail when there are two.                      *)

Active(t) == {n \in DOMAIN tenant[t].subs : tenant[t].subs[n].active}

NoPlanOrOne(t) == Cardinality(Active(t)) <= 1

ActivePlan(t) ==
  IF Active(t) = {} THEN tenant[t].plan
  ELSE tenant[t].subs[CHOOSE n \in Active(t) : TRUE].plan

Within(t, count) == ActivePlan(t) # None => count < Limit[ActivePlan(t)]

UpdatePlan(w, t, plan) ==
  /\ NoPlanOrOne(t)
  /\ Begin(w, [op |-> "plan", of |-> t, plan |-> plan, read |-> tenant[t].plan,
               active |-> Active(t)])

CommitPlan(w) ==
  LET r == request[w]
  IN /\ Doing(w, "plan")
     /\ tenant' = [tenant EXCEPT
          ![r.of].plan = IF r.plan = r.read THEN @ ELSE r.plan,
          ![r.of].subs =
            IF r.active # {}
            THEN [n \in DOMAIN @ |->
                   IF n \notin r.active THEN @[n]
                   ELSE IF r.plan = None THEN [@[n] EXCEPT !.active = FALSE]
                   ELSE [@[n] EXCEPT !.plan = r.plan]]
            ELSE IF r.plan = None THEN @
            ELSE Append(@, [plan |-> r.plan, active |-> TRUE])]
     /\ Done(w)
     /\ UNCHANGED <<app, otp>>

UpdateStatus(w, t) ==
  /\ AtOnce(w)
  /\ \E s \in {"active", "suspended"} : tenant' = [tenant EXCEPT ![t].status = s]
  /\ UNCHANGED <<app, otp>>

(* create_store, and the count of orders in upload_order.  The month's     *)
(* counter has one row: of two first uploads that overlap one fails.       *)
Count(w, t, what) ==
  /\ NoPlanOrOne(t)
  /\ Within(t, tenant[t][what])
  /\ Begin(w, [op |-> "count", of |-> t, what |-> what, read |-> tenant[t].orders])

CommitCount(w) ==
  LET r == request[w]
  IN /\ Doing(w, "count")
     /\ IF r.what = "orders" /\ r.read = 0 /\ tenant[r.of].orders # 0 THEN Abort(w)
        ELSE /\ tenant' = [tenant EXCEPT ![r.of][r.what] =
                  IF r.what = "stores" THEN @ + 1 ELSE r.read + 1]
             /\ Done(w)
             /\ UNCHANGED <<app, otp>>

DeleteStore(w, t) ==
  /\ tenant[t].stores > 0
  /\ AtOnce(w)
  /\ tenant' = [tenant EXCEPT ![t].stores = @ - 1]
  /\ UNCHANGED <<app, otp>>

(* A month ends between two requests: an upload takes no time beside it.   *)
NewMonth(t) ==
  /\ tenant[t].orders > 0
  /\ \A w \in Workers : ~Doing(w, "count")
  /\ tenant' = [tenant EXCEPT ![t].orders = 0]
  /\ UNCHANGED <<app, otp, request, requests>>

---------------------------------------------------------------------------
(* update_tenant_modules, update_line_settings, update_general_settings    *)
UpdateSettings(w, t, part, is) ==
  Begin(w, [op |-> "settings", of |-> t, read |-> tenant[t].settings,
            new |-> [tenant[t].settings EXCEPT ![part] = is]])

CommitSettings(w) ==
  LET r == request[w]
  IN /\ Doing(w, "settings")
     /\ tenant' = IF r.new = r.read THEN tenant
                  ELSE [tenant EXCEPT ![r.of].settings = r.new]
     /\ Done(w)
     /\ UNCHANGED <<app, otp>>

---------------------------------------------------------------------------
(* create_listing and submit_listing of the tenant, approve and suspend of *)
(* the platform: from which statuses, and to which.                        *)
Moves == {<<"none", "draft">>, <<"draft", "pending">>, <<"suspended", "pending">>,
          <<"pending", "approved">>}
  \cup {"draft", "pending", "approved", "suspended"} \X {"suspended"}

UpdateListing(w, t, move) ==
  /\ tenant[t].listing = move[1]
  /\ Begin(w, [op |-> "listing", of |-> t, to |-> move[2], from |-> move[1]])

CommitListing(w) ==
  LET r == request[w]
  IN /\ Doing(w, "listing")
     /\ tenant' = IF r.from # r.to /\ (r.from = "none" => tenant[r.of].listing = "none")
                  THEN [tenant EXCEPT ![r.of].listing = r.to] ELSE tenant
     /\ Done(w)
     /\ UNCHANGED <<app, otp>>

---------------------------------------------------------------------------
Next ==
  \/ \E k \in DOMAIN otp : Expire(k)
  \/ \E t \in DOMAIN tenant : NewMonth(t)
  \/ \E w \in Workers :
       \/ \E e \in Emails, c \in TenantCodes \cup {None} : SubmitApplication(w, e, c)
       \/ \E a \in DOMAIN app :
            \/ Resend(w, a) \/ RejectApplication(w, a)
            \/ \E k \in {0} \cup DOMAIN otp : VerifyApplication(w, a, k)
            \/ \E c \in TenantCodes \cup {None}, p \in Plans : ApproveApplication(w, a, c, p)
       \/ \E c \in TenantCodes, p \in Plans : DirectCreate(w, c, p)
       \/ \E t \in DOMAIN tenant :
            \/ \E p \in Plans \cup {None} : UpdatePlan(w, t, p)
            \/ UpdateStatus(w, t) \/ DeleteStore(w, t)
            \/ \E what \in {"stores", "orders"} : Count(w, t, what)
            \/ \E part \in {"modules", "line", "approval"}, is \in BOOLEAN :
                 UpdateSettings(w, t, part, is)
            \/ \E move \in Moves : UpdateListing(w, t, move)
       \/ CommitSubmit(w) \/ CommitVerify(w) \/ Provision(w) \/ CommitReject(w)
       \/ CommitPlan(w) \/ CommitCount(w) \/ CommitSettings(w) \/ CommitListing(w)

Spec == Init /\ [][Next]_tenantVars

---------------------------------------------------------------------------
(* A tenant that came of an application came of one whose own e-mail code  *)
(* was entered: a code sent for an earlier application of the address,     *)
(* rejected since, opens no tenant.                                        *)
TenantWasVerified ==
  \A a \in DOMAIN app : app[a].tenant # 0 =>
    \E k \in DOMAIN otp : otp[k].app = a /\ otp[k].is = "used"

=============================================================================
