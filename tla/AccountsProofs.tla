--------------------------- MODULE AccountsProofs ---------------------------
(***************************************************************************)
(* What the back office guarantees of those it keeps accounts for, however *)
(* many there are and however their requests overlap: a member's referral  *)
(* is entered once and the points agree; a till loses its session for a    *)
(* cause only; a tenant came of an application whose own code was entered. *)
(***************************************************************************)
EXTENDS BackOffice, SequenceTheorems, FiniteSetTheorems, TLAPS

---------------------------------------------------------------------------
(* The members (Members).  The inductive invariant.                        *)

HasAccount(a, p) == a \in Alliances /\ p \in Phones /\ account[a][p] \in People!Account

(* Accounts are rows, and a member that is linked to an alliance has one.  *)
AccountsAreRows ==
  /\ account \in [Alliances -> [Phones -> People!Account \cup {None}]]
  /\ link \in [MemberTenants -> [Phones -> Alliances \cup {None}]]
  /\ \A t \in MemberTenants, p \in Phones : link[t][p] # None => HasAccount(link[t][p], p)

ReferralsAreRows ==
  /\ referred \in [Phones -> Phones \cup {None}]
  /\ credit \in [Phones -> [reward : Nat, signup : Nat, other : Int]]
  /\ owed \in [Phones -> Nat]

(* What a request writes to is still there when it commits.                *)
IsRequest(r) ==
  /\ r.op = "login" =>
       /\ r.of \in Phones /\ r.alliance \in Alliances /\ r.tenant \in MemberTenants \cup {None}
       /\ r.found.account => HasAccount(r.alliance, r.of)
  /\ r.op = "register" =>
       /\ r.of \in Phones
       /\ r.by # None => /\ r.by # r.of /\ HasAccount(Market, r.by)
                         /\ r.read.points \in Nat
  /\ r.op = "refer" =>
       /\ HasAccount(Market, r.of) /\ HasAccount(Market, r.by) /\ r.by # r.of
       /\ r.mine.points \in Nat /\ r.read.points \in Nat
  /\ r.op = "line" => HasAccount(Market, r.of) /\ r.line \in LineIds
  /\ r.op = "points" =>
       /\ HasAccount(r.alliance, r.of)
       /\ r.read \in Nat /\ r.take \in Nat /\ r.day \in BOOLEAN

SessionsAreRequests ==
  DOMAIN request = Workers /\ \A w \in Workers : IsRequest(request[w])

MembersInv ==
  /\ AccountsAreRows /\ ReferralsAreRows
  /\ SessionsAreRequests
  /\ People!ReferralsAreEntered

---------------------------------------------------------------------------
(* The requests.                                                           *)

(* The counts of the module are those of its theorems.                     *)
LEMMA CountsAreSame ==
  \A S : (People!IsFiniteSet(S) <=> IsFiniteSet(S)) /\ People!Cardinality(S) = Cardinality(S)
BY DEF People!IsFiniteSet, IsFiniteSet, People!Cardinality, Cardinality

LEMMA IdleIsRequest == People!Idle.op = "none" /\ IsRequest(People!Idle)
BY DEF People!Idle, IsRequest

LEMMA AccountForms ==
  ASSUME People!MembersParameters, AccountsAreRows
  PROVE  /\ \A p \in Phones : People!InMarket(p) # None <=> HasAccount(Market, p)
         /\ \A a \in Alliances, p \in Phones : account[a][p] # None <=> HasAccount(a, p)
         /\ \A a, p : HasAccount(a, p) => account[a][p].points \in Nat
BY DEF People!MembersParameters, AccountsAreRows, HasAccount, People!InMarket,
       People!Account

(* What a request read of the points that it writes.                       *)
ReadOf(r, p) ==
  IF r.op = "points" THEN r.read
  ELSE IF r.op = "refer" /\ p = r.of THEN r.mine.points ELSE r.read.points

IsRead(r) == \A p \in People!Writes(r) : ReadOf(r, p) = People!InMarket(p).points

(* A request that changes no account's points.                             *)
LEMMA PlainRequest ==
  ASSUME NEW r, r.op \in {"table", "join", "topup", "create"}
  PROVE  IsRequest(r) /\ IsRead(r)
BY DEF IsRequest, IsRead, People!Writes

LEMMA LoginBegins ==
  ASSUME People!MembersParameters, MembersInv, NEW w \in Workers, NEW k, NEW a \in Alliances,
         NEW t \in MemberTenants \cup {None}, NEW p \in Phones, People!Login(w, k, a, t, p)
  PROVE  \E r : People!Begin(w, r) /\ IsRequest(r) /\ IsRead(r)
<1> DEFINE r == [op |-> "login", of |-> p, code |-> k, alliance |-> a, tenant |-> t,
                 found |-> People!Found(a, t, p)]
<1>1. People!Found(a, t, p).account => HasAccount(a, p)
  BY AccountForms DEF People!Found, MembersInv
<1>2. People!Begin(w, r) /\ IsRequest(r) /\ IsRead(r)
  BY <1>1 DEF People!Login, IsRequest, IsRead, People!Writes
<1> QED
  BY <1>2

(* Whatever is asked for is a request.                                     *)
Asks(w) ==
  \/ \E p \in Phones :
       \/ People!VerifyOtp(w, p) \/ People!Topup(w, p) \/ People!Greet(w, p)
       \/ \E l \in LineIds : People!BindLine(w, p, l)
       \/ \E q \in Phones \cup {None} : People!Register(w, p, q)
       \/ \E q \in Phones : People!ApplyReferral(w, p, q)
       \/ \E t \in MemberTenants : People!OrderAt(w, t, p)
            \/ People!CreateMember(w, t, p)
            \/ People!Sale(w, t, p) \/ People!Settle(w, t, p)
  \/ \E t \in MemberTenants, a \in Alliances : People!JoinAlliance(w, t, a)

LEMMA AskBegins ==
  ASSUME People!MembersParameters, MembersInv, NEW w \in Workers, Asks(w)
  PROVE  \E r : People!Begin(w, r) /\ IsRequest(r) /\ IsRead(r)
<1> USE DEF MembersInv
<1>1. ASSUME NEW p \in Phones, People!VerifyOtp(w, p)
      PROVE  \E r : People!Begin(w, r) /\ IsRequest(r) /\ IsRead(r)
  <2>1. ASSUME NEW k,
               NEW t, People!Begin(w, [op |-> "table", of |-> p, code |-> k, tenant |-> t,
                                       found |-> local[t][p] # None])
        PROVE  \E r : People!Begin(w, r) /\ IsRequest(r) /\ IsRead(r)
    <3> DEFINE r == [op |-> "table", of |-> p, code |-> k, tenant |-> t,
                     found |-> local[t][p] # None]
    <3>1. People!Begin(w, r) /\ IsRequest(r) /\ IsRead(r)
      BY <2>1, PlainRequest
    <3> QED
      BY <3>1
  <2>2. Market \in Alliances
    BY DEF People!MembersParameters
  <2> QED
    BY <1>1, <2>1, <2>2, LoginBegins DEF People!VerifyOtp
<1>2. ASSUME NEW p \in Phones, NEW t \in MemberTenants, People!OrderAt(w, t, p)
      PROVE  \E r : People!Begin(w, r) /\ IsRequest(r) /\ IsRead(r)
  BY <1>2, LoginBegins DEF People!OrderAt, People!MembersParameters
<1>3. ASSUME NEW p \in Phones, People!Topup(w, p)
      PROVE  \E r : People!Begin(w, r) /\ IsRequest(r) /\ IsRead(r)
  BY <1>3, PlainRequest DEF People!Topup
<1>4. ASSUME NEW p \in Phones, People!Greet(w, p)
      PROVE  \E r : People!Begin(w, r) /\ IsRequest(r) /\ IsRead(r)
  <2> DEFINE r == [op |-> "points", of |-> p, alliance |-> Market, take |-> 0, day |-> TRUE,
                   read |-> People!InMarket(p).points]
  <2>1. HasAccount(Market, p) /\ People!InMarket(p).points \in Nat
    BY <1>4, AccountForms DEF People!Greet, People!InMarket
  <2>2. People!Begin(w, r) /\ IsRequest(r) /\ IsRead(r)
    BY <1>4, <2>1 DEF People!Greet, IsRequest, IsRead, ReadOf, People!Writes
  <2> QED
    BY <2>2
<1>5. ASSUME NEW p \in Phones, NEW l \in LineIds, People!BindLine(w, p, l)
      PROVE  \E r : People!Begin(w, r) /\ IsRequest(r) /\ IsRead(r)
  <2> DEFINE r == [op |-> "line", of |-> p, line |-> l]
  <2>1. HasAccount(Market, p)
    BY <1>5, AccountForms DEF People!BindLine
  <2>2. People!Begin(w, r) /\ IsRequest(r) /\ IsRead(r)
    BY <1>5, <2>1 DEF People!BindLine, IsRequest, IsRead, People!Writes
  <2> QED
    BY <2>2
<1>6. ASSUME NEW p \in Phones, NEW q \in Phones \cup {None}, People!Register(w, p, q)
      PROVE  \E r : People!Begin(w, r) /\ IsRequest(r) /\ IsRead(r)
  <2> DEFINE read == IF q = None THEN None ELSE People!InMarket(q)
             r == [op |-> "register", of |-> p, by |-> q, read |-> read]
  <2>1. /\ q # None => /\ q # p /\ HasAccount(Market, q) /\ read.points \in Nat
                       /\ read.points = People!InMarket(q).points
        /\ {q} \cap Phones = IF q = None THEN {} ELSE {q}
    BY <1>6, AccountForms
       DEF People!Register, People!HasReferral, People!InMarket, People!MembersParameters
  <2>2. People!Begin(w, r)
    BY <1>6 DEF People!Register
  <2> HIDE DEF read
  <2>3. IsRequest(r) /\ IsRead(r)
    <3>1. People!Writes(r) = IF q = None THEN {} ELSE {q}
      BY <2>1 DEF People!Writes
    <3>2. IsRead(r)
      BY <2>1, <3>1 DEF IsRead, ReadOf
    <3> QED
      BY <2>1, <3>2 DEF IsRequest
  <2> QED
    BY <2>2, <2>3
<1>7. ASSUME NEW p \in Phones, NEW q \in Phones, People!ApplyReferral(w, p, q)
      PROVE  \E r : People!Begin(w, r) /\ IsRequest(r) /\ IsRead(r)
  <2> DEFINE r == [op |-> "refer", of |-> p, by |-> q, mine |-> People!InMarket(p),
                   read |-> People!InMarket(q)]
  <2>1. /\ q # p /\ HasAccount(Market, q) /\ HasAccount(Market, p)
        /\ People!InMarket(q).points \in Nat /\ People!InMarket(p).points \in Nat
    BY <1>7, AccountForms DEF People!ApplyReferral, People!HasReferral, People!InMarket
  <2>2. People!Begin(w, r)
    BY <1>7 DEF People!ApplyReferral
  <2>3. IsRequest(r) /\ IsRead(r)
    BY <2>1 DEF IsRequest, IsRead, ReadOf, People!Writes, HasAccount, People!InMarket
  <2> QED
    BY <2>2, <2>3
<1>8. ASSUME NEW p \in Phones, NEW t \in MemberTenants, People!CreateMember(w, t, p)
      PROVE  \E r : People!Begin(w, r) /\ IsRequest(r) /\ IsRead(r)
  BY <1>8, PlainRequest DEF People!CreateMember
<1>9. ASSUME NEW p \in Phones, NEW t \in MemberTenants, People!Sale(w, t, p)
      PROVE  \E r : People!Begin(w, r) /\ IsRequest(r) /\ IsRead(r)
  <2> DEFINE of == link[t][p]
             r == [op |-> "points", of |-> p, alliance |-> of, take |-> 0, day |-> FALSE,
                   read |-> account[of][p].points]
  <2>1. HasAccount(of, p) /\ account[of][p].points \in Nat
    BY <1>9, AccountForms DEF People!Sale, AccountsAreRows
  <2>2. People!Begin(w, r)
    BY <1>9 DEF People!Sale
  <2>3. IsRequest(r) /\ IsRead(r)
    BY <2>1 DEF IsRequest, IsRead, ReadOf, People!Writes, HasAccount, People!InMarket
  <2> QED
    BY <2>2, <2>3
<1>10. ASSUME NEW t \in MemberTenants, NEW a \in Alliances, People!JoinAlliance(w, t, a)
       PROVE  \E r : People!Begin(w, r) /\ IsRequest(r) /\ IsRead(r)
  BY <1>10, PlainRequest DEF People!JoinAlliance
<1>11. ASSUME NEW p \in Phones, NEW t \in MemberTenants, People!Settle(w, t, p)
       PROVE  \E r : People!Begin(w, r) /\ IsRequest(r) /\ IsRead(r)
  <2>1. PICK n \in Redemptions :
          /\ link[t][p] = Market
          /\ People!Begin(w, [op |-> "points", of |-> p, alliance |-> Market, take |-> n,
                              day |-> FALSE, read |-> People!InMarket(p).points])
    BY <1>11 DEF People!Settle
  <2> DEFINE r == [op |-> "points", of |-> p, alliance |-> Market, take |-> n,
                   day |-> FALSE, read |-> People!InMarket(p).points]
  <2>2. HasAccount(Market, p) /\ People!InMarket(p).points \in Nat /\ n \in Nat
    BY <2>1, AccountForms DEF AccountsAreRows, People!InMarket, People!MembersParameters
  <2>3. People!Begin(w, r)
    BY <2>1
  <2>4. IsRequest(r) /\ IsRead(r)
    BY <2>2 DEF IsRequest, IsRead, ReadOf, People!Writes
  <2> QED
    BY <2>3, <2>4
<1> QED
  BY <1>1, <1>2, <1>3, <1>4, <1>5, <1>6, <1>7, <1>8, <1>9, <1>10, <1>11 DEF Asks

---------------------------------------------------------------------------
(* The steps.                                                              *)

LEMMA NewAccountType == People!MembersParameters => People!NewAccount \in People!Account
BY DEF People!MembersParameters, People!NewAccount, People!Account

(* What is written to an account's columns.                                *)
LEMMA AccountColumns ==
  ASSUME NEW row \in People!Account, NEW n \in Nat, NEW b \in BOOLEAN
  PROVE  /\ [row EXCEPT !.points = n] \in People!Account
         /\ [row EXCEPT !.points = n, !.referral = b] \in People!Account
         /\ [row EXCEPT !.points = n, !.greeted = b] \in People!Account
         /\ row.greeted \in BOOLEAN
BY DEF People!Account

LEMMA MembersInit == ASSUME People!MembersParameters, People!Init PROVE MembersInv
<1>1. People!NewAccount \in People!Account
           /\ [People!NewAccount EXCEPT !.referral = TRUE] \in People!Account
  BY NewAccountType DEF People!NewAccount, People!Account
<1>2. AccountsAreRows
  BY <1>1 DEF People!Init, AccountsAreRows
<1>3. ReferralsAreRows
  BY DEF People!Init, ReferralsAreRows
<1>4. SessionsAreRequests
  BY IdleIsRequest DEF People!Init, SessionsAreRequests
<1>5. People!ReferralsAreEntered
  <2>1. \A p \in Phones : {q \in Phones : referred[q] = p} = {}
    BY DEF People!Init, People!MembersParameters
  <2> QED
    BY <2>1, CountsAreSame, FS_EmptySet DEF People!Init, People!ReferralsAreEntered
<1> QED
  BY <1>2, <1>3, <1>4, <1>5 DEF MembersInv

(* No account is ever taken away.                                          *)
AccountsStay ==
  \A a \in Alliances, p \in Phones : account[a][p] \in People!Account => account'[a][p] \in People!Account

LEMMA SessionsStay ==
  ASSUME MembersInv, AccountsStay,
         \/ UNCHANGED request
         \/ \E w \in Workers : \E r : IsRequest(r) /\ request' = [request EXCEPT ![w] = r]
  PROVE  SessionsAreRequests'
<1>1. \A a, p : HasAccount(a, p) => HasAccount(a, p)'
  BY DEF AccountsStay, HasAccount
<1>2. \A r : IsRequest(r) => IsRequest(r)'
  BY <1>1 DEF IsRequest
<1>3. CASE UNCHANGED request
  BY <1>2, <1>3 DEF MembersInv, SessionsAreRequests
<1>4. ASSUME NEW w \in Workers, NEW r, IsRequest(r), request' = [request EXCEPT ![w] = r]
      PROVE  SessionsAreRequests'
  <2>1. /\ DOMAIN request' = Workers
        /\ \A v \in Workers : request'[v] = IF v = w THEN r ELSE request[v]
    BY <1>4 DEF MembersInv, SessionsAreRequests
  <2> QED
    BY <1>2, <1>4, <2>1 DEF MembersInv, SessionsAreRequests
<1> QED
  BY <1>3, <1>4

(* A step that pays no referral.                                           *)
EntersNone ==
  /\ UNCHANGED referred /\ ReferralsAreRows'
  /\ \A p \in Phones : /\ credit'[p].signup = credit[p].signup
                        /\ credit'[p].reward = credit[p].reward

LEMMA NothingEntered ==
  ASSUME MembersInv, UNCHANGED <<referred, credit, owed>>
  PROVE  EntersNone
BY DEF MembersInv, ReferralsAreRows, EntersNone

LEMMA PaysNone ==
  ASSUME People!MembersParameters, MembersInv, AccountsAreRows', AccountsStay,
         EntersNone,
         \/ UNCHANGED request
         \/ \E w \in Workers : \E r : IsRequest(r) /\ request' = [request EXCEPT ![w] = r]
  PROVE  MembersInv'
<1>1. SessionsAreRequests'
  BY SessionsStay
<1>2. ReferralsAreRows'
  BY DEF EntersNone
<1>3. \A p \in Phones : People!InMarket(p) # None => People!InMarket(p)' # None
  BY AccountForms
     DEF MembersInv, AccountsStay, HasAccount, People!InMarket, People!MembersParameters
<1>4. People!ReferralsAreEntered'
  BY <1>3 DEF MembersInv, EntersNone, People!ReferralsAreEntered
<1> QED
  BY <1>1, <1>2, <1>4 DEF MembersInv

(* A step that is not about accounts.                                      *)
LEMMA OthersKeep ==
  ASSUME People!MembersParameters, MembersInv, UNCHANGED <<account, link, referred, credit, owed>>,
         \/ UNCHANGED request
         \/ \E w \in Workers : \E r : IsRequest(r) /\ request' = [request EXCEPT ![w] = r]
  PROVE  MembersInv'
<1>1. AccountsAreRows' /\ AccountsStay
  BY DEF MembersInv, AccountsAreRows, AccountsStay, HasAccount
<1> QED
  BY <1>1, NothingEntered, PaysNone

LEMMA AskKeeps ==
  ASSUME People!MembersParameters, MembersInv, NEW w \in Workers, Asks(w)
  PROVE  MembersInv'
<1>1. PICK r : People!Begin(w, r) /\ IsRequest(r)
  BY AskBegins
<1>2. UNCHANGED <<account, link, referred, credit, owed>> /\ request' = [request EXCEPT ![w] = r]
  BY <1>1 DEF People!Begin, People!rows, People!points
<1> QED
  BY <1>1, <1>2, OthersKeep

(* An account is written.                                                  *)
LEMMA AccountWritten ==
  ASSUME MembersInv, NEW a \in Alliances, NEW p \in Phones, NEW row \in People!Account,
         account' = [account EXCEPT ![a][p] = row]
  PROVE  /\ account' \in [Alliances -> [Phones -> People!Account \cup {None}]]
         /\ AccountsStay /\ account'[a][p] \in People!Account
         /\ UNCHANGED link => AccountsAreRows'
<1>1. \A b \in Alliances, q \in Phones :
        account'[b][q] = IF b = a /\ q = p THEN row ELSE account[b][q]
  BY DEF MembersInv, AccountsAreRows
<1>2. account' \in [Alliances -> [Phones -> People!Account \cup {None}]]
  BY DEF MembersInv, AccountsAreRows
<1>3. AccountsStay
  BY <1>1 DEF AccountsStay
<1>4. \A b, q : HasAccount(b, q) => HasAccount(b, q)'
  BY <1>3 DEF AccountsStay, HasAccount
<1>5. UNCHANGED link => AccountsAreRows'
  BY <1>2, <1>4 DEF MembersInv, AccountsAreRows
<1> QED
  BY <1>1, <1>2, <1>3, <1>5

(* Two accounts of one alliance are.                                       *)
LEMMA AccountsWritten ==
  ASSUME MembersInv, NEW a \in Alliances, NEW p \in Phones, NEW q \in Phones, p # q,
         NEW one \in People!Account, NEW two \in People!Account,
         account' = [account EXCEPT ![a][p] = one, ![a][q] = two], UNCHANGED link
  PROVE  AccountsAreRows' /\ AccountsStay /\ account'[a][p] \in People!Account
<1>1. /\ account'[a][p] = one /\ account'[a][q] = two
      /\ \A x \in Phones \ {p, q} : account'[a][x] = account[a][x]
      /\ \A b \in Alliances \ {a}, x \in Phones : account'[b][x] = account[b][x]
  BY DEF MembersInv, AccountsAreRows
<1>2. account' \in [Alliances -> [Phones -> People!Account \cup {None}]]
  BY DEF MembersInv, AccountsAreRows
<1>3. AccountsStay
  <2> SUFFICES ASSUME NEW b \in Alliances, NEW x \in Phones, account[b][x] \in People!Account
               PROVE  account'[b][x] \in People!Account
    BY DEF AccountsStay
  <2>1. CASE b = a /\ x \in {p, q}
    BY <1>1, <2>1
  <2>2. CASE b = a /\ x \notin {p, q}
    <3>1. account'[b][x] = account[b][x]
      BY <1>1, <2>2
    <3> QED
      BY <3>1
  <2>3. CASE b # a
    <3>1. account'[b][x] = account[b][x]
      BY <1>1, <2>3
    <3> QED
      BY <3>1
  <2> QED
    BY <2>1, <2>2, <2>3
<1>4. \A b, x : HasAccount(b, x) => HasAccount(b, x)'
  BY <1>3 DEF AccountsStay, HasAccount
<1>5. AccountsAreRows'
  BY <1>2, <1>4 DEF MembersInv, AccountsAreRows
<1> QED
  BY <1>1, <1>3, <1>5

(* A referral is paid to both, to the first of them for the first time.    *)
LEMMA PaidOnce ==
  ASSUME People!MembersParameters, MembersInv, NEW p \in Phones, NEW q \in Phones, p # q,
         referred[p] = None, People!Paid(p, q), AccountsAreRows', AccountsStay,
         account'[Market][p] \in People!Account
  PROVE  ReferralsAreRows' /\ People!ReferralsAreEntered'
<1> USE DEF MembersInv
<1> DEFINE of(x) == {y \in Phones : referred[y] = x}
<1>1. /\ referred' \in [Phones -> Phones \cup {None}]
      /\ \A x \in Phones : referred'[x] = IF x = p THEN q ELSE referred[x]
  BY DEF People!Paid, ReferralsAreRows
<1>2. /\ credit[p] \in [reward : Nat, signup : Nat, other : Int]
      /\ credit[q] \in [reward : Nat, signup : Nat, other : Int]
      /\ credit[p].signup = 0
  BY DEF ReferralsAreRows, People!ReferralsAreEntered
<1>3. /\ credit' \in [Phones -> [reward : Nat, signup : Nat, other : Int]]
      /\ \A x \in Phones : credit'[x].signup = IF x = p THEN 1 ELSE credit[x].signup
      /\ \A x \in Phones :
           credit'[x].reward = IF x = q THEN credit[x].reward + 1 ELSE credit[x].reward
  <2> DEFINE mine == [credit[p] EXCEPT !.signup = 1]
             theirs == [credit[q] EXCEPT !.reward = credit[q].reward + 1]
  <2>1. credit' = [credit EXCEPT ![p] = mine, ![q] = theirs]
    <3>1. credit' = [credit EXCEPT ![p].signup = credit[p].signup + 1,
                                     ![q].reward = credit[q].reward + 1]
      BY DEF People!Paid
    <3>2. credit[p].signup + 1 = 1
      BY <1>2
    <3>3. credit \in [Phones -> [reward : Nat, signup : Nat, other : Int]]
      BY DEF ReferralsAreRows
    <3> QED
      BY <3>1, <3>2, <3>3
  <2>2. /\ mine \in [reward : Nat, signup : Nat, other : Int] /\ theirs \in [reward : Nat, signup : Nat, other : Int]
        /\ mine.signup = 1 /\ mine.reward = credit[p].reward
        /\ theirs.signup = credit[q].signup /\ theirs.reward = credit[q].reward + 1
    BY <1>2
  <2> HIDE DEF mine, theirs
  <2>3. \A x \in Phones :
          credit'[x] = IF x = p THEN mine ELSE IF x = q THEN theirs ELSE credit[x]
    BY <2>1 DEF ReferralsAreRows
  <2> QED
    BY <2>1, <2>2, <2>3 DEF ReferralsAreRows
<1>4. ReferralsAreRows'
  BY <1>1, <1>3 DEF ReferralsAreRows, People!Paid
<1>5. {y \in Phones : referred'[y] = q} = of(q) \cup {p}
  BY <1>1
<1>6. Cardinality(of(q) \cup {p}) = Cardinality(of(q)) + 1
  <2>1. IsFiniteSet(of(q)) /\ p \notin of(q)
    BY CountsAreSame, FS_Subset DEF People!MembersParameters
  <2> QED
    BY <2>1, FS_AddElement
<1>7. \A x \in Phones \ {q} : {y \in Phones : referred'[y] = x} = of(x)
  BY <1>1 DEF People!MembersParameters
<1>8. \A x \in Phones : credit'[x].reward = Cardinality({y \in Phones : referred'[y] = x})
  <2>1. \A x \in Phones : credit[x].reward = Cardinality(of(x))
    BY CountsAreSame DEF People!ReferralsAreEntered
  <2>2. \A x \in Phones \ {q} :
          credit'[x].reward = Cardinality({y \in Phones : referred'[y] = x})
    BY <1>3, <1>7, <2>1
  <2>3. credit'[q].reward = Cardinality({y \in Phones : referred'[y] = q})
    BY <1>3, <1>5, <1>6, <2>1
  <2> QED
    BY <2>2, <2>3
<1>9. \A x \in Phones : credit'[x].signup = IF referred'[x] = None THEN 0 ELSE 1
  <2>1. q # None
    BY DEF People!MembersParameters
  <2>2. \A x \in Phones : credit[x].signup = IF referred[x] = None THEN 0 ELSE 1
    BY DEF People!ReferralsAreEntered
  <2> HIDE DEF of
  <2> QED
    BY <1>1, <1>3, <2>1, <2>2
<1>10. \A x \in Phones : referred'[x] # None => People!InMarket(x)' # None /\ referred'[x] # x
  <2>1. \A x \in Phones : People!InMarket(x) # None \/ x = p => People!InMarket(x)' # None
    BY AccountForms
       DEF AccountsStay, HasAccount, People!InMarket, People!MembersParameters
  <2>2. \A x \in Phones : referred[x] # None => People!InMarket(x) # None /\ referred[x] # x
    BY DEF People!ReferralsAreEntered
  <2> QED
    BY <1>1, <2>1, <2>2
<1> QED
  BY <1>4, <1>8, <1>9, <1>10, CountsAreSame DEF People!ReferralsAreEntered

LEMMA CommitLoginKeeps ==
  ASSUME People!MembersParameters, MembersInv, NEW w \in Workers, People!CommitLogin(w)
  PROVE  MembersInv'
<1> DEFINE r == request[w]
<1> USE DEF MembersInv
<1>1. PICK a \in Alliances, p \in Phones, t \in MemberTenants \cup {None} :
        /\ a = r.alliance /\ p = r.of /\ t = r.tenant
        /\ r.found.account => HasAccount(a, p)
  BY DEF People!CommitLogin, People!Doing, SessionsAreRequests, IsRequest
<1>2. /\ account' = IF r.found.account THEN account
                    ELSE [account EXCEPT ![a][p] = People!NewAccount]
      /\ \/ UNCHANGED link
         \/ t \in MemberTenants /\ link' = [link EXCEPT ![t][p] = a]
      /\ UNCHANGED <<referred, credit, owed>> /\ request' = [request EXCEPT ![w] = People!Idle]
  BY <1>1 DEF People!CommitLogin, People!Done, People!points
<1>3. /\ account' \in [Alliances -> [Phones -> People!Account \cup {None}]]
      /\ AccountsStay /\ account'[a][p] \in People!Account
  <2>1. CASE r.found.account
    BY <1>1, <1>2, <2>1 DEF AccountsAreRows, AccountsStay, HasAccount
  <2>2. CASE ~r.found.account
    BY <1>1, <1>2, <2>2, NewAccountType, AccountWritten
  <2> QED
    BY <2>1, <2>2
<1> HIDE DEF r
<1>4. \A b, x : HasAccount(b, x) => HasAccount(b, x)'
  BY <1>3 DEF AccountsStay, HasAccount
<1>5. AccountsAreRows'
  <2>1. CASE UNCHANGED link
    BY <1>3, <1>4, <2>1 DEF AccountsAreRows
  <2>2. CASE t \in MemberTenants /\ link' = [link EXCEPT ![t][p] = a]
    <3>1. link' \in [MemberTenants -> [Phones -> Alliances \cup {None}]]
      BY <1>1, <2>2 DEF AccountsAreRows
    <3>2. \A u \in MemberTenants, x \in Phones :
            link'[u][x] = IF u = t /\ x = p THEN a ELSE link[u][x]
      BY <1>1, <2>2 DEF AccountsAreRows
    <3>3. HasAccount(a, p)'
      BY <1>1, <1>3 DEF HasAccount
    <3>4. ASSUME NEW u \in MemberTenants, NEW x \in Phones, link'[u][x] # None
          PROVE  HasAccount(link[u][x], x)'
      <4>1. CASE u = t /\ x = p
        <5>1. link'[u][x] = a
          BY <3>2, <4>1
        <5> QED
          BY <3>3, <4>1, <5>1 DEF HasAccount
      <4>2. CASE ~(u = t /\ x = p)
        <5>1. link'[u][x] = link[u][x]
          BY <3>2, <4>2
        <5> QED
          BY <1>4, <3>4, <5>1 DEF HasAccount, AccountsAreRows
      <4> QED
        BY <4>1, <4>2
    <3> QED
      BY <1>3, <3>1, <3>4 DEF AccountsAreRows
  <2> QED
    BY <1>2, <2>1, <2>2
<1> QED
  BY <1>2, <1>3, <1>5, IdleIsRequest, NothingEntered, PaysNone

(* Points, a LINE account or a referral code are written to an account.    *)
LEMMA AccountChanges ==
  ASSUME People!MembersParameters, MembersInv, NEW a, NEW p, HasAccount(a, p),
         NEW row \in People!Account, account' = [account EXCEPT ![a][p] = row],
         UNCHANGED link, EntersNone,
         \/ UNCHANGED request
         \/ \E w \in Workers : request' = [request EXCEPT ![w] = People!Idle]
  PROVE  MembersInv'
<1>1. AccountsAreRows' /\ AccountsStay
  BY AccountWritten DEF HasAccount
<1> QED
  BY <1>1, IdleIsRequest, PaysNone

LEMMA ChangesKeep ==
  ASSUME People!MembersParameters, MembersInv,
         \/ \E w \in Workers : People!CommitLine(w) \/ People!CommitPoints(w)
         \/ \E p \in Phones : People!UnbindLine(p) \/ People!Profile(p)
  PROVE  MembersInv'
<1>1. ASSUME NEW w \in Workers, People!CommitLine(w)
      PROVE  MembersInv'
  <2> DEFINE r == request[w]
             row == [account[Market][r.of] EXCEPT !.line = r.line]
  <2>1. HasAccount(Market, r.of) /\ r.line \in LineIds
    BY <1>1
       DEF People!CommitLine, People!Doing, MembersInv, SessionsAreRequests, IsRequest
  <2>2. row \in People!Account
    BY <2>1 DEF HasAccount, People!Account
  <2>3. /\ account' = [account EXCEPT ![Market][r.of] = row]
        /\ UNCHANGED <<link, referred, credit, owed>>
             /\ request' = [request EXCEPT ![w] = People!Idle]
    BY <1>1 DEF People!CommitLine, People!Done, People!points
  <2> HIDE DEF row
  <2> QED
    BY <2>1, <2>2, <2>3, NothingEntered, AccountChanges
<1>2. ASSUME NEW w \in Workers, People!CommitPoints(w)
      PROVE  MembersInv'
  <2> DEFINE r == request[w]
             old == account[r.alliance][r.of]
             left == IF r.take > r.read THEN 0 ELSE r.read - r.take
             row == [old EXCEPT !.points = left + 1,
                                !.greeted = old.greeted \/ r.day]
  <2>1. HasAccount(r.alliance, r.of) /\ r.read \in Nat /\ r.take \in Nat /\ r.day \in BOOLEAN
    BY <1>2
       DEF People!CommitPoints, People!Doing, MembersInv, SessionsAreRequests, IsRequest
  <2>2. row \in People!Account
    <3>1. left + 1 \in Nat /\ old \in People!Account
      BY <2>1 DEF HasAccount
    <3>2. (old.greeted \/ r.day) \in BOOLEAN
      OBVIOUS
    <3> QED
      BY <3>1, <3>2, AccountColumns
  <2>3. account' = [account EXCEPT ![r.alliance][r.of] = row]
    BY <1>2, <2>1
       DEF People!CommitPoints, People!Doing, HasAccount, MembersInv, AccountsAreRows
  <2>4. UNCHANGED link /\ request' = [request EXCEPT ![w] = People!Idle]
    BY <1>2 DEF People!CommitPoints, People!Done
  <2>5. EntersNone
    <3>1. CASE UNCHANGED <<credit, owed>>
      BY <1>2, <3>1, NothingEntered DEF People!CommitPoints
    <3>2. CASE r.alliance = Market
      <4>1. /\ credit' = [credit EXCEPT ![r.of].other = @ - r.take + 1]
            /\ owed' = [owed EXCEPT ![r.of] = @ + left - (r.read - r.take)]
            /\ UNCHANGED referred
        BY <1>2, <3>2 DEF People!CommitPoints
      <4>2. /\ credit[r.of].other - r.take + 1 \in Int
            /\ owed[r.of] + left - (r.read - r.take) \in Nat
        BY <2>1 DEF MembersInv, ReferralsAreRows, HasAccount
      <4> HIDE DEF left
      <4> QED
        BY <2>1, <4>1, <4>2 DEF MembersInv, ReferralsAreRows, EntersNone, HasAccount
    <3> QED
      BY <1>2, <3>1, <3>2 DEF People!CommitPoints, People!points
  <2> HIDE DEF row
  <2> QED
    BY <2>1, <2>2, <2>3, <2>4, <2>5, AccountChanges
<1>3. ASSUME NEW p \in Phones, People!UnbindLine(p)
      PROVE  MembersInv'
  <2> DEFINE row == [account[Market][p] EXCEPT !.line = None]
  <2>1. HasAccount(Market, p)
    BY <1>3, AccountForms DEF People!UnbindLine, MembersInv
  <2>2. row \in People!Account
    BY <2>1 DEF HasAccount, People!Account
  <2>3. /\ account' = [account EXCEPT ![Market][p] = row]
        /\ UNCHANGED <<link, referred, credit, owed, request>>
    BY <1>3 DEF People!UnbindLine, People!AtOnce, People!points
  <2> HIDE DEF row
  <2> QED
    BY <2>1, <2>2, <2>3, NothingEntered, AccountChanges
<1>4. ASSUME NEW p \in Phones, People!Profile(p)
      PROVE  MembersInv'
  <2> DEFINE row == [account[Market][p] EXCEPT !.referral = TRUE]
  <2>1. HasAccount(Market, p)
    BY <1>4, AccountForms DEF People!Profile, MembersInv
  <2>2. row \in People!Account
    BY <2>1 DEF HasAccount, People!Account
  <2>3. /\ account' = [account EXCEPT ![Market][p] = row]
        /\ UNCHANGED <<link, referred, credit, owed, request>>
    BY <1>4 DEF People!Profile, People!AtOnce, People!points
  <2> HIDE DEF row
  <2> QED
    BY <2>1, <2>2, <2>3, NothingEntered, AccountChanges
<1> QED
  BY <1>1, <1>2, <1>3, <1>4

(* A new member's referral is paid with the account: there was no account  *)
(* that it could have been paid to before.                                 *)
LEMMA CommitRegisterKeeps ==
  ASSUME People!MembersParameters, MembersInv, NEW w \in Workers, People!CommitRegister(w)
  PROVE  MembersInv' /\ AccountsStay /\ account'[Market][request[w].of] \in People!Account
<1> DEFINE r == request[w]
           p == r.of
           q == r.by
           new == [People!NewAccount EXCEPT !.points = IF q = None THEN 0 ELSE Reward]
           row == [account[Market][q] EXCEPT !.points = r.read.points + Reward]
<1> USE DEF MembersInv
<1>1. /\ p \in Phones /\ People!InMarket(p) = None
      /\ q # None => q # p /\ HasAccount(Market, q) /\ r.read.points \in Nat
  BY DEF People!CommitRegister, People!Doing, SessionsAreRequests, IsRequest
<1>2. request' = [request EXCEPT ![w] = People!Idle] /\ UNCHANGED link
  BY DEF People!CommitRegister, People!Done
<1>3. referred[p] = None
  BY <1>1 DEF People!ReferralsAreEntered
<1>4. new \in People!Account /\ Market \in Alliances
  BY NewAccountType DEF People!NewAccount, People!Account, People!MembersParameters
<1>5. CASE q = None
  <2>1. account' = [account EXCEPT ![Market][p] = new] /\ UNCHANGED <<referred, credit, owed>>
    BY <1>5 DEF People!CommitRegister, People!points
  <2> HIDE DEF new
  <2>2. AccountsAreRows' /\ AccountsStay /\ account'[Market][p] \in People!Account
    BY <1>1, <1>2, <1>4, <2>1, AccountWritten
  <2> QED
    BY <1>2, <2>1, <2>2, IdleIsRequest, NothingEntered, PaysNone
<1>6. CASE q # None
  <2>1. row \in People!Account /\ q \in Phones
    BY <1>1, <1>6 DEF HasAccount, People!Account, People!MembersParameters
  <2>2. account' = [account EXCEPT ![Market][p] = new, ![Market][q] = row] /\ People!Paid(p, q)
    <3>1. /\ account' = [account EXCEPT ![Market][p] = new,
                                        ![Market][q].points = r.read.points + Reward]
          /\ People!Paid(p, q)
      BY <1>6 DEF People!CommitRegister
    <3> HIDE DEF new
    <3> QED
      BY <1>1, <1>4, <1>6, <2>1, <3>1 DEF AccountsAreRows
  <2> HIDE DEF new, row
  <2>3. AccountsAreRows' /\ AccountsStay /\ account'[Market][p] \in People!Account
    BY <1>1, <1>2, <1>4, <1>6, <2>1, <2>2, AccountsWritten
  <2>4. ReferralsAreRows' /\ People!ReferralsAreEntered'
    BY <1>1, <1>3, <1>6, <2>1, <2>2, <2>3, PaidOnce
  <2>5. SessionsAreRequests'
    BY <1>2, <2>3, IdleIsRequest, SessionsStay
  <2> QED
    BY <2>3, <2>4, <2>5
<1> QED
  BY <1>5, <1>6

(* The unique key lets the first of two referrals of a member pass.        *)
LEMMA CommitReferralKeeps ==
  ASSUME People!MembersParameters, MembersInv, NEW w \in Workers, People!CommitReferral(w)
  PROVE  MembersInv' /\ AccountsStay
<1> DEFINE r == request[w]
           p == r.of
           q == r.by
           one == [account[Market][p] EXCEPT !.points = r.mine.points + Reward, !.referral = TRUE]
           two == [account[Market][q] EXCEPT !.points = r.read.points + Reward]
<1> USE DEF MembersInv
<1>1. /\ HasAccount(Market, p) /\ HasAccount(Market, q) /\ q # p
      /\ r.mine.points \in Nat /\ r.read.points \in Nat
  BY DEF People!CommitReferral, People!Doing, SessionsAreRequests, IsRequest
<1>2. p \in Phones /\ q \in Phones /\ Market \in Alliances /\ Reward \in Nat
  BY <1>1 DEF HasAccount, People!MembersParameters
<1>3. one \in People!Account /\ two \in People!Account
  <2>1. r.mine.points + Reward \in Nat /\ r.read.points + Reward \in Nat
    BY <1>1, <1>2
  <2> QED
    BY <1>1, <2>1, AccountColumns DEF HasAccount
<1>4. /\ referred[p] = None /\ People!Paid(p, q) /\ UNCHANGED link
      /\ request' = [request EXCEPT ![w] = People!Idle]
  BY DEF People!CommitReferral, People!Done
<1>5. account' = [account EXCEPT ![Market][p] = one, ![Market][q] = two]
  <2>1. account' = [account EXCEPT ![Market][q].points = r.read.points + Reward,
                                   ![Market][p].points = r.mine.points + Reward,
                                   ![Market][p].referral = TRUE]
    BY DEF People!CommitReferral
  <2>2. account \in [Alliances -> [Phones -> People!Account \cup {None}]]
    BY DEF AccountsAreRows
  <2> DEFINE half == [account[Market][p] EXCEPT !.points = r.mine.points + Reward]
             first == [account EXCEPT ![Market][q] = two]
             second == [account EXCEPT ![Market][q] = two, ![Market][p] = half]
  <2>3. first = [account EXCEPT ![Market][q].points = r.read.points + Reward]
    BY <1>2, <2>2
  <2>4. /\ first \in [Alliances -> [Phones -> People!Account \cup {None}]]
        /\ first[Market][p] = account[Market][p]
    BY <1>1, <1>2, <1>3, <2>2
  <2>5. second = [first EXCEPT ![Market][p].points = r.mine.points + Reward]
    <3>1. second = [first EXCEPT ![Market][p] = half]
      OBVIOUS
    <3> HIDE DEF first, second
    <3> QED
      BY <1>2, <2>4, <3>1
  <2>6. half \in People!Account
    <3>1. r.mine.points + Reward \in Nat
      BY <1>1, <1>2
    <3> QED
      BY <1>1, <3>1, AccountColumns DEF HasAccount
  <2>7. /\ second \in [Alliances -> [Phones -> People!Account \cup {None}]]
        /\ second[Market][p] = half
    <3> HIDE DEF half, two
    <3> QED
      BY <1>2, <1>3, <2>2, <2>6
  <2>8. account' = [second EXCEPT ![Market][p].referral = TRUE]
    BY <2>1, <2>3, <2>5
  <2>9. one = [half EXCEPT !.referral = TRUE]
    BY <1>1 DEF HasAccount, People!Account
  <2>10. account' = [second EXCEPT ![Market][p] = one]
    <3> HIDE DEF second, half, one
    <3> QED
      BY <1>2, <2>7, <2>8, <2>9
  <2> HIDE DEF one, two, half
  <2> QED
    BY <1>1, <1>2, <2>2, <2>10
<1> HIDE DEF one, two
<1>6. AccountsAreRows' /\ AccountsStay /\ account'[Market][p] \in People!Account
  BY <1>1, <1>2, <1>3, <1>4, <1>5, AccountsWritten
<1>7. ReferralsAreRows' /\ People!ReferralsAreEntered'
  BY <1>1, <1>2, <1>4, <1>6, PaidOnce
<1>8. SessionsAreRequests'
  BY <1>4, <1>6, IdleIsRequest, SessionsStay
<1> QED
  BY <1>6, <1>7, <1>8

LEMMA MembersStep ==
  ASSUME People!MembersParameters, MembersInv, [People!Next]_People!membersVars
  PROVE  MembersInv'
<1>1. ASSUME NEW w \in Workers, People!Handle(w)
      PROVE  MembersInv'
  <2>1. CASE Asks(w)
    BY <2>1, AskKeeps
  <2>2. CASE People!CommitTable(w) \/ People!CommitJoin(w) \/ People!CommitTopup(w)
             \/ People!CommitMember(w) \/ People!Abort(w)
    <3>1. /\ UNCHANGED <<account, link, referred, credit, owed>>
          /\ request' = [request EXCEPT ![w] = People!Idle]
      BY <2>2
         DEF People!CommitTable, People!CommitJoin, People!CommitTopup,
             People!CommitMember, People!Abort, People!Done, People!rows, People!points
    <3> QED
      BY <3>1, IdleIsRequest, OthersKeep
  <2> QED
    BY <1>1, <2>1, <2>2, CommitLoginKeeps, ChangesKeep, CommitRegisterKeeps,
       CommitReferralKeeps DEF People!Handle, Asks
<1>2. CASE \/ \E p \in Phones, s \in MemberTenants \cup {Market} :
                People!WrongCode(p, s) \/ \E k \in LoginCodes : People!RequestOtp(k, p, s)
           \/ \E p \in Phones, t \in MemberTenants : People!Favorite(p, t)
           \/ \E k \in LoginCodes : People!Lapse(k)
           \/ \E t \in MemberTenants : People!ApproveListing(t)
           \/ UNCHANGED People!membersVars
  <2>1. UNCHANGED <<account, link, referred, credit, owed, request>>
    BY <1>2
       DEF People!WrongCode, People!RequestOtp, People!Favorite, People!Lapse,
           People!ApproveListing, People!AtOnce, People!membersVars, People!rows, People!points
  <2> QED
    BY <2>1, OthersKeep
<1>3. CASE \E p \in Phones : People!UnbindLine(p) \/ People!Profile(p)
  BY <1>3, ChangesKeep
<1> QED
  BY <1>1, <1>2, <1>3 DEF People!Next

---------------------------------------------------------------------------
(* The points of the marketplace's members.                                *)
Entered(p) == People!Balance(p) + owed[p]

(* But for members whose points two requests were changing at once, the    *)
(* request that is changing them is one, and what it read is still so; and *)
(* nothing is entered for a phone before it has an account.                *)
PointsInv ==
  /\ People!PointsAreEntered
  /\ \A p \in Phones \ crossed, v, w \in Workers :
       p \in People!Writes(request[v]) /\ p \in People!Writes(request[w]) => v = w
  /\ \A p \in Phones \ crossed, w \in Workers :
       p \in People!Writes(request[w]) =>
         ReadOf(request[w], p) = People!InMarket(p).points
  /\ \A p \in Phones : People!InMarket(p) = None => Entered(p) = 0 /\ credit[p].reward = 0

LEMMA IdleWrites == People!Writes(People!Idle) = {}
BY DEF People!Writes, People!Idle

(* Who is being written to has an account.                                 *)
LEMMA WritesHaveAccounts ==
  ASSUME People!MembersParameters, MembersInv, NEW w \in Workers
  PROVE  \A p \in People!Writes(request[w]) :
           p \in Phones /\ HasAccount(Market, p) /\ People!InMarket(p) # None
<1>1. IsRequest(request[w])
  BY DEF MembersInv, SessionsAreRequests
<1>2. \A p \in People!Writes(request[w]) : HasAccount(Market, p)
  BY <1>1 DEF IsRequest, People!Writes, People!MembersParameters, HasAccount
<1> QED
  BY <1>2, AccountForms DEF MembersInv, HasAccount

LEMMA PointsBegin ==
  ASSUME People!MembersParameters, MembersInv, PointsInv, NEW w \in Workers, Asks(w)
  PROVE  PointsInv'
<1>1. PICK r : People!Begin(w, r) /\ IsRequest(r) /\ IsRead(r)
  BY AskBegins
<1>2. /\ request' = [request EXCEPT ![w] = r] /\ UNCHANGED <<account, credit, owed>>
      /\ crossed' = crossed
           \cup (People!Writes(r) \cap UNION {People!Writes(request[v]) : v \in Workers})
  BY <1>1 DEF People!Begin, People!rows, People!points
<1>3. /\ \A v \in Workers : request'[v] = IF v = w THEN r ELSE request[v]
      /\ \A v \in Workers, p \in Phones \ crossed' :
           ~(p \in People!Writes(r) /\ p \in People!Writes(request[v]))
      /\ Phones \ crossed' \subseteq Phones \ crossed
  BY <1>2 DEF MembersInv, SessionsAreRequests
<1>4. \A p : People!InMarket(p)' = People!InMarket(p) /\ Entered(p)' = Entered(p)
  BY <1>2 DEF People!InMarket, Entered, People!Balance
<1>5. People!PointsAreEntered'
  BY <1>3, <1>4 DEF PointsInv, People!PointsAreEntered, Entered
<1>6. \A p \in Phones \ crossed', u, v \in Workers :
        p \in People!Writes(request'[u]) /\ p \in People!Writes(request'[v]) => u = v
  BY <1>3 DEF PointsInv
<1>7. \A p \in Phones \ crossed', v \in Workers :
        p \in People!Writes(request'[v]) =>
          ReadOf(request'[v], p) = People!InMarket(p).points
  BY <1>1, <1>3 DEF PointsInv, IsRead
<1>8. \A p \in Phones : People!InMarket(p)' = None => Entered(p)' = 0 /\ credit'[p].reward = 0
  BY <1>2, <1>4 DEF PointsInv
<1> QED
  BY <1>4, <1>5, <1>6, <1>7, <1>8 DEF PointsInv

(* A request that commits accounts for the points it writes, and leaves    *)
(* those of others alone, but for accounts that it makes.                  *)
LEMMA PointsCommit ==
  ASSUME People!MembersParameters, MembersInv, PointsInv, UNCHANGED crossed, NEW D,
         \A v \in Workers :
           \/ request'[v] = People!Idle
           \/ request'[v] = request[v] /\ People!Writes(request[v]) \cap D \subseteq crossed,
         \A p \in Phones :
           \/ /\ p \notin D
              /\ People!InMarket(p)' = None <=> People!InMarket(p) = None
              /\ People!InMarket(p) # None =>
                   People!InMarket(p)'.points = People!InMarket(p).points
              /\ Entered(p)' = Entered(p) /\ credit'[p].reward = credit[p].reward
           \/ /\ p \in D \/ People!InMarket(p) = None
              /\ People!InMarket(p)' # None
              /\ p \notin crossed => People!InMarket(p)'.points = Entered(p)'
  PROVE  PointsInv'
<1>1. People!PointsAreEntered'
  <2> SUFFICES ASSUME NEW p \in Phones \ crossed, People!InMarket(p)' # None
               PROVE  People!InMarket(p)'.points = Entered(p)'
    BY DEF People!PointsAreEntered, Entered
  <2>1. People!InMarket(p) # None => People!InMarket(p).points = Entered(p)
    BY DEF PointsInv, People!PointsAreEntered, Entered
  <2> QED
    BY <2>1
<1>2. \A v \in Workers :
        \/ People!Writes(request'[v]) = {}
        \/ request'[v] = request[v] /\ People!Writes(request[v]) \cap D \subseteq crossed
  BY IdleWrites
<1>3. \A p \in Phones \ crossed', u, v \in Workers :
        p \in People!Writes(request'[u]) /\ p \in People!Writes(request'[v]) => u = v
  BY <1>2 DEF PointsInv
<1>4. ASSUME NEW p \in Phones \ crossed', NEW v \in Workers, p \in People!Writes(request'[v])
      PROVE  ReadOf(request'[v], p) = People!InMarket(p)'.points
  <2>1. request'[v] = request[v] /\ p \in People!Writes(request[v]) /\ p \notin D
    BY <1>2, <1>4
  <2>2. People!InMarket(p) # None
    BY <2>1, WritesHaveAccounts
  <2>3. People!InMarket(p)'.points = People!InMarket(p).points
    BY <2>1, <2>2
  <2> QED
    BY <2>1, <2>3 DEF PointsInv
<1>5. \A p \in Phones : People!InMarket(p)' = None => Entered(p)' = 0 /\ credit'[p].reward = 0
  BY DEF PointsInv
<1> QED
  BY <1>1, <1>3, <1>4, <1>5 DEF PointsInv

(* Steps after which everybody has the points of before.                   *)
LEMMA PointsStay ==
  ASSUME People!MembersParameters, MembersInv, PointsInv, UNCHANGED <<credit, owed, crossed>>,
         \/ UNCHANGED request
         \/ \E w \in Workers : request' = [request EXCEPT ![w] = People!Idle],
         \A p \in Phones :
           \/ /\ People!InMarket(p)' = None <=> People!InMarket(p) = None
              /\ People!InMarket(p) # None =>
                   People!InMarket(p)'.points = People!InMarket(p).points
           \/ /\ People!InMarket(p) = None
              /\ People!InMarket(p)' # None /\ People!InMarket(p)'.points = 0
  PROVE  PointsInv'
<1>1. \A v \in Workers : request'[v] = People!Idle \/ request'[v] = request[v]
  BY DEF MembersInv, SessionsAreRequests
<1>2. \A p \in Phones : Entered(p)' = Entered(p) /\ credit'[p].reward = credit[p].reward
  BY DEF Entered, People!Balance
<1>3. \A p \in Phones : People!InMarket(p) = None => Entered(p) = 0
  BY DEF PointsInv
<1>4. PICK D : D = {}
  OBVIOUS
<1>5. /\ \A p : p \notin D
      /\ \A v \in Workers : People!Writes(request[v]) \cap D \subseteq crossed
  BY <1>4
<1> QED
  BY <1>1, <1>2, <1>3, <1>5, PointsCommit

LEMMA PointsInit ==
  ASSUME People!MembersParameters, People!Init
  PROVE  PointsInv
<1>1. \A p \in Phones : credit[p] = [reward |-> 0, signup |-> 0, other |-> 0] /\ owed[p] = 0
  BY DEF People!Init
<1>2. \A p \in Phones : Entered(p) = 0 /\ credit[p].reward = 0
  <2> SUFFICES ASSUME NEW p \in Phones
               PROVE  Entered(p) = 0 /\ credit[p].reward = 0
    OBVIOUS
  <2>1. /\ credit[p].reward = 0 /\ credit[p].signup = 0 /\ credit[p].other = 0
        /\ owed[p] = 0 /\ Reward \in Nat
    BY <1>1 DEF People!MembersParameters
  <2>2. Reward * (credit[p].signup + credit[p].reward) = 0
    BY <2>1
  <2> QED
    BY <2>1, <2>2 DEF Entered, People!Balance
<1>3. \A p \in Phones : People!InMarket(p) # None => People!InMarket(p).points = 0
  <2>1. \A p \in Phones : People!InMarket(p) = IF p \in Known
                            THEN [People!NewAccount EXCEPT !.referral = TRUE] ELSE None
    BY DEF People!Init, People!InMarket, People!MembersParameters
  <2>2. [People!NewAccount EXCEPT !.referral = TRUE].points = 0
    BY DEF People!NewAccount
  <2> QED
    BY <2>1, <2>2
<1>4. \A w \in Workers : People!Writes(request[w]) = {}
  BY IdleWrites DEF People!Init
<1> QED
  BY <1>2, <1>3, <1>4 DEF PointsInv, People!PointsAreEntered, Entered

(* What is entered for a referral.                                         *)
LEMMA ReferralEntered ==
  ASSUME People!MembersParameters, MembersInv, NEW p \in Phones, NEW q \in Phones, p # q,
         People!Paid(p, q)
  PROVE  /\ Entered(p)' = Entered(p) + Reward /\ Entered(q)' = Entered(q) + Reward
         /\ Entered(p) \in Int /\ Entered(q) \in Int
         /\ \A x \in Phones \ {p, q} : Entered(x)' = Entered(x) /\ credit'[x] = credit[x]
<1>1. /\ \A x \in Phones : credit[x] \in [reward : Nat, signup : Nat, other : Int]
      /\ \A x \in Phones : owed[x] \in Nat
      /\ Reward \in Nat /\ UNCHANGED owed
  BY DEF MembersInv, ReferralsAreRows, People!MembersParameters, People!Paid
<1>2. /\ credit'[p] = [credit[p] EXCEPT !.signup = @ + 1]
      /\ credit'[q] = [credit[q] EXCEPT !.reward = @ + 1]
      /\ \A x \in Phones \ {p, q} : credit'[x] = credit[x]
  BY DEF People!Paid, MembersInv, ReferralsAreRows
<1>3. \A n \in Nat : Reward * (n + 1) = Reward * n + Reward /\ Reward * n \in Int
  BY <1>1
<1>4. ASSUME NEW x \in Phones
      PROVE  /\ credit[x].signup + credit[x].reward \in Nat
             /\ Entered(x) = Reward * (credit[x].signup + credit[x].reward)
                               + credit[x].other + owed[x]
             /\ Entered(x)' = Reward * (credit'[x].signup + credit'[x].reward)
                                + credit'[x].other + owed[x]
             /\ credit[x].other \in Int /\ owed[x] \in Int
  BY <1>1 DEF Entered, People!Balance
<1>5. /\ credit'[p].signup + credit'[p].reward = (credit[p].signup + credit[p].reward) + 1
      /\ credit'[q].signup + credit'[q].reward = (credit[q].signup + credit[q].reward) + 1
      /\ credit'[p].other = credit[p].other /\ credit'[q].other = credit[q].other
  BY <1>1, <1>2
<1>6. ASSUME NEW x \in {p, q}
      PROVE  Entered(x)' = Entered(x) + Reward /\ Entered(x) \in Int
  <2> DEFINE n == credit[x].signup + credit[x].reward
  <2>1. /\ n \in Nat /\ credit'[x].signup + credit'[x].reward = n + 1
        /\ credit'[x].other = credit[x].other
    BY <1>4, <1>5
  <2>2. /\ Entered(x) = Reward * n + credit[x].other + owed[x]
        /\ Entered(x)' = Reward * (n + 1) + credit[x].other + owed[x]
        /\ credit[x].other \in Int /\ owed[x] \in Int
    BY <1>4, <2>1
  <2>3. Reward * (n + 1) = Reward * n + Reward /\ Reward * n \in Int
    BY <1>3, <2>1
  <2> HIDE DEF n
  <2> QED
    BY <1>1, <2>2, <2>3
<1>7. \A x \in Phones \ {p, q} : Entered(x)' = Entered(x)
  BY <1>2, <1>4
<1> QED
  BY <1>2, <1>6, <1>7

(* The request that commits is the one that writes to those it writes to.  *)
LEMMA WritesAlone ==
  ASSUME MembersInv, PointsInv, NEW w \in Workers,
         request' = [request EXCEPT ![w] = People!Idle],
         NEW D, D \subseteq Phones, D \subseteq People!Writes(request[w])
  PROVE  \A v \in Workers :
           \/ request'[v] = People!Idle
           \/ request'[v] = request[v] /\ People!Writes(request[v]) \cap D \subseteq crossed
<1> SUFFICES ASSUME NEW v \in Workers, v # w
             PROVE  request'[v] = request[v] /\ People!Writes(request[v]) \cap D \subseteq crossed
  BY DEF MembersInv, SessionsAreRequests
<1>1. request'[v] = request[v]
  BY DEF MembersInv, SessionsAreRequests
<1> QED
  BY <1>1 DEF PointsInv

LEMMA ReferralPoints ==
  ASSUME People!MembersParameters, MembersInv, PointsInv, NEW w \in Workers,
         People!CommitReferral(w)
  PROVE  PointsInv'
<1>0. PICK r : r = request[w]
  OBVIOUS
<1> DEFINE p == r.of
           q == r.by
<1>1. /\ HasAccount(Market, p) /\ HasAccount(Market, q) /\ q # p
      /\ p \in Phones /\ q \in Phones /\ r.op = "refer"
      /\ Reward \in Nat /\ Market \in Alliances
  BY <1>0 DEF People!CommitReferral, People!Doing, MembersInv, SessionsAreRequests, IsRequest,
         HasAccount, People!MembersParameters
<1>2. /\ People!Paid(p, q) /\ UNCHANGED crossed
      /\ request' = [request EXCEPT ![w] = People!Idle]
  BY <1>0 DEF People!CommitReferral, People!Done
<1>3. People!Writes(r) = {p, q} /\ ReadOf(r, p) = r.mine.points /\ ReadOf(r, q) = r.read.points
  BY <1>1 DEF People!Writes, ReadOf
<1>4. /\ People!InMarket(p)'.points = r.mine.points + Reward
      /\ People!InMarket(q)'.points = r.read.points + Reward
      /\ \A x \in Phones \ {p, q} : People!InMarket(x)' = People!InMarket(x)
  <2>1. account' = [account EXCEPT ![Market][q].points = r.read.points + Reward,
                                   ![Market][p].points = r.mine.points + Reward,
                                   ![Market][p].referral = TRUE]
    BY <1>0 DEF People!CommitReferral
  <2> DEFINE first == [account EXCEPT ![Market][q].points = r.read.points + Reward]
             second == [first EXCEPT ![Market][p].points = r.mine.points + Reward]
  <2>2. account' = [second EXCEPT ![Market][p].referral = TRUE]
    BY <2>1
  <2>3. /\ Market \in DOMAIN account /\ DOMAIN account[Market] = Phones
        /\ account[Market][p] \in People!Account /\ account[Market][q] \in People!Account
    BY <1>1 DEF MembersInv, AccountsAreRows, HasAccount
  <2>4. /\ Market \in DOMAIN first /\ DOMAIN first[Market] = Phones
        /\ first[Market][q].points = r.read.points + Reward
        /\ \A x \in Phones \ {q} : first[Market][x] = account[Market][x]
    BY <1>1, <2>3 DEF People!Account
  <2> HIDE DEF first
  <2>5. /\ Market \in DOMAIN second /\ DOMAIN second[Market] = Phones
        /\ second[Market][p] = [account[Market][p] EXCEPT !.points = r.mine.points + Reward]
        /\ \A x \in Phones \ {p} : second[Market][x] = first[Market][x]
    BY <1>1, <2>4
  <2> HIDE DEF second
  <2>6. /\ account'[Market][p] = [second[Market][p] EXCEPT !.referral = TRUE]
        /\ \A x \in Phones \ {p} : account'[Market][x] = second[Market][x]
    BY <1>1, <2>2, <2>5
  <2>7. account'[Market][p].points = r.mine.points + Reward
    BY <2>3, <2>5, <2>6 DEF People!Account
  <2>8. account'[Market][q].points = r.read.points + Reward
    BY <1>1, <2>4, <2>5, <2>6
  <2>9. \A x \in Phones \ {p, q} : account'[Market][x] = account[Market][x]
    BY <2>4, <2>5, <2>6
  <2> QED
    BY <2>7, <2>8, <2>9 DEF People!InMarket
<1>5. AccountsStay
  BY CommitReferralKeeps
<1>6. People!InMarket(p)' # None /\ People!InMarket(q)' # None
  BY <1>1, <1>5 DEF HasAccount, AccountsStay, People!InMarket, People!MembersParameters
<1>7. \A x \in {p, q} : x \notin crossed => People!InMarket(x)'.points = Entered(x)'
  <2> SUFFICES ASSUME NEW x \in {p, q}, x \notin crossed
               PROVE  People!InMarket(x)'.points = Entered(x)'
    OBVIOUS
  <2>1. ReadOf(r, x) = People!InMarket(x).points
    BY <1>0, <1>1, <1>3 DEF PointsInv
  <2>2. People!InMarket(x).points = Entered(x)
    BY <1>0, <1>1, <1>3, WritesHaveAccounts DEF PointsInv, People!PointsAreEntered, Entered
  <2>3. People!InMarket(x)'.points = ReadOf(r, x) + Reward
    BY <1>3, <1>4
  <2>4. Entered(x)' = Entered(x) + Reward
    BY <1>1, <1>2, ReferralEntered
  <2> QED
    BY <2>1, <2>2, <2>3, <2>4
<1>8. \A x \in Phones \ {p, q} : Entered(x)' = Entered(x) /\ credit'[x] = credit[x]
  BY <1>1, <1>2, ReferralEntered
<1>9. PICK D : D = {p, q}
  OBVIOUS
<1> HIDE DEF p, q
<1>10. \A x \in Phones :
         \/ /\ x \notin D
            /\ People!InMarket(x)' = None <=> People!InMarket(x) = None
            /\ People!InMarket(x) # None =>
                 People!InMarket(x)'.points = People!InMarket(x).points
            /\ Entered(x)' = Entered(x) /\ credit'[x].reward = credit[x].reward
         \/ /\ x \in D \/ People!InMarket(x) = None
            /\ People!InMarket(x)' # None
            /\ x \notin crossed => People!InMarket(x)'.points = Entered(x)'
  BY <1>4, <1>6, <1>7, <1>8, <1>9
<1>11. \A v \in Workers :
         \/ request'[v] = People!Idle
         \/ request'[v] = request[v] /\ People!Writes(request[v]) \cap D \subseteq crossed
  <2>1. D \subseteq Phones /\ D \subseteq People!Writes(request[w])
    BY <1>0, <1>1, <1>3, <1>9
  <2> QED
    BY <1>2, <2>1, WritesAlone
<1> QED
  BY <1>2, <1>10, <1>11, PointsCommit

LEMMA RegisterPoints ==
  ASSUME People!MembersParameters, MembersInv, PointsInv, NEW w \in Workers,
         People!CommitRegister(w)
  PROVE  PointsInv'
<1>0. PICK r : r = request[w]
  OBVIOUS
<1> DEFINE p == r.of
           q == r.by
           reward == IF q = None THEN 0 ELSE Reward
           new == [People!NewAccount EXCEPT !.points = reward]
<1>1. /\ p \in Phones /\ People!InMarket(p) = None /\ r.op = "register"
      /\ q # None => q # p /\ HasAccount(Market, q) /\ q \in Phones
      /\ Market \in Alliances /\ None \notin Phones /\ Reward \in Nat
  BY <1>0 DEF People!CommitRegister, People!Doing, MembersInv, SessionsAreRequests, IsRequest,
         HasAccount, People!MembersParameters
<1>2. /\ UNCHANGED crossed /\ request' = [request EXCEPT ![w] = People!Idle]
  BY DEF People!CommitRegister, People!Done
<1>3. new.points = reward
  BY DEF People!NewAccount
<1>4. /\ Market \in DOMAIN account /\ DOMAIN account[Market] = Phones
      /\ Entered(p) = 0
  BY <1>1 DEF MembersInv, AccountsAreRows, PointsInv
<1>5. AccountsStay /\ People!InMarket(p)' # None
  BY <1>0, CommitRegisterKeeps DEF People!InMarket, People!MembersParameters
<1>6. CASE q = None
  <2>1. account' = [account EXCEPT ![Market][p] = new] /\ UNCHANGED <<credit, owed>>
    BY <1>0, <1>6 DEF People!CommitRegister, People!points
  <2>2. /\ People!InMarket(p)' = new
        /\ \A x \in Phones \ {p} : People!InMarket(x)' = People!InMarket(x)
    BY <1>1, <1>4, <2>1 DEF People!InMarket
  <2>3. People!InMarket(p)'.points = 0
    BY <1>3, <1>6, <2>2
  <2> HIDE DEF p, q, new
  <2> QED
    BY <1>1, <1>2, <1>5, <2>1, <2>2, <2>3, PointsStay
<1>7. CASE q # None
  <2>1. /\ account' = [account EXCEPT ![Market][p] = new,
                                      ![Market][q].points = r.read.points + Reward]
        /\ People!Paid(p, q)
    BY <1>0, <1>7 DEF People!CommitRegister
  <2>2. People!Writes(r) = {q} /\ ReadOf(r, q) = r.read.points
    BY <1>1, <1>7 DEF People!Writes, ReadOf
  <2>3. account[Market][q] \in People!Account
    BY <1>1, <1>7 DEF HasAccount
  <2>4. /\ People!InMarket(p)' = new
        /\ People!InMarket(q)' = [People!InMarket(q) EXCEPT !.points = r.read.points + Reward]
        /\ \A x \in Phones \ {p, q} : People!InMarket(x)' = People!InMarket(x)
    <3> DEFINE n == r.read.points + Reward
    <3>1. account' = [account EXCEPT ![Market][p] = new, ![Market][q].points = n]
      BY <2>1
    <3> DEFINE first == [account EXCEPT ![Market][p] = new]
    <3> HIDE DEF n, new
    <3>2. account' = [first EXCEPT ![Market][q].points = n]
      BY <3>1
    <3>3. /\ Market \in DOMAIN first /\ DOMAIN first[Market] = Phones
          /\ first[Market][p] = new
          /\ \A x \in Phones \ {p} : first[Market][x] = account[Market][x]
      BY <1>1, <1>4
    <3> HIDE DEF first
    <3>4. /\ account'[Market][q] = [first[Market][q] EXCEPT !.points = n]
          /\ \A x \in Phones \ {q} : account'[Market][x] = first[Market][x]
      BY <1>1, <1>7, <3>2, <3>3
    <3> HIDE DEF p, q
    <3> QED
      BY <1>1, <1>7, <3>3, <3>4 DEF People!InMarket, n
  <2>5. People!InMarket(p)'.points = Reward /\ People!InMarket(q)'.points = r.read.points + Reward
    BY <1>3, <1>7, <2>3, <2>4 DEF People!Account, People!InMarket
  <2>6. /\ Entered(p)' = Entered(p) + Reward /\ Entered(q)' = Entered(q) + Reward
        /\ \A x \in Phones \ {p, q} : Entered(x)' = Entered(x) /\ credit'[x] = credit[x]
    BY <1>1, <1>7, <2>1, ReferralEntered
  <2>7. People!InMarket(q)' # None
    BY <1>1, <1>5, <1>7, <2>3 DEF AccountsStay, People!InMarket, People!MembersParameters
  <2>8. q \notin crossed => People!InMarket(q)'.points = Entered(q)'
    <3> SUFFICES ASSUME q \notin crossed
                 PROVE  People!InMarket(q)'.points = Entered(q)'
      OBVIOUS
    <3>1. ReadOf(r, q) = People!InMarket(q).points
      BY <1>0, <1>1, <1>7, <2>2 DEF PointsInv
    <3>2. People!InMarket(q).points = Entered(q)
      BY <1>0, <1>1, <1>7, <2>2, WritesHaveAccounts DEF PointsInv, People!PointsAreEntered, Entered
    <3> QED
      BY <2>2, <2>5, <2>6, <3>1, <3>2
  <2>9. People!InMarket(p)'.points = Entered(p)'
    BY <1>1, <1>4, <2>5, <2>6
  <2>10. PICK D : D = {q}
    OBVIOUS
  <2>11. \A v \in Workers :
           \/ request'[v] = People!Idle
           \/ request'[v] = request[v] /\ People!Writes(request[v]) \cap D \subseteq crossed
    BY <1>0, <1>1, <1>2, <1>7, <2>2, <2>10, WritesAlone
  <2> HIDE DEF p, q, new
  <2>12. \A x \in Phones :
           \/ /\ x \notin D
              /\ People!InMarket(x)' = None <=> People!InMarket(x) = None
              /\ People!InMarket(x) # None =>
                   People!InMarket(x)'.points = People!InMarket(x).points
              /\ Entered(x)' = Entered(x) /\ credit'[x].reward = credit[x].reward
           \/ /\ x \in D \/ People!InMarket(x) = None
              /\ People!InMarket(x)' # None
              /\ x \notin crossed => People!InMarket(x)'.points = Entered(x)'
    <3>1. ASSUME NEW x \in Phones \ {p, q}
          PROVE  /\ x \notin D
                 /\ People!InMarket(x)' = People!InMarket(x)
                 /\ Entered(x)' = Entered(x) /\ credit'[x].reward = credit[x].reward
      BY <2>4, <2>6, <2>10
    <3> QED
      BY <1>1, <1>5, <2>7, <2>8, <2>9, <2>10, <3>1
  <2> QED
    BY <1>2, <2>11, <2>12, PointsCommit
<1> QED
  BY <1>6, <1>7

LEMMA PurchasePoints ==
  ASSUME People!MembersParameters, MembersInv, PointsInv, NEW w \in Workers,
         People!CommitPoints(w)
  PROVE  PointsInv'
<1>0. PICK r : r = request[w]
  OBVIOUS
<1> DEFINE a == r.alliance
           p == r.of
           left == IF r.take > r.read THEN 0 ELSE r.read - r.take
           row == [account[a][p] EXCEPT !.points = left + 1,
                                        !.greeted = account[a][p].greeted \/ r.day]
<1>1. /\ HasAccount(a, p) /\ a \in Alliances /\ p \in Phones /\ r.op = "points"
      /\ r.read \in Nat /\ r.take \in Nat /\ account[a][p] \in People!Account
      /\ UNCHANGED crossed /\ request' = [request EXCEPT ![w] = People!Idle]
  BY <1>0 DEF People!CommitPoints, People!Doing, People!Done, MembersInv, SessionsAreRequests,
         IsRequest, HasAccount
<1>2. /\ account' = [account EXCEPT ![a][p] = row]
      /\ row.points = left + 1
      /\ \A b \in Alliances, x \in Phones :
           account'[b][x] = IF b = a /\ x = p THEN row ELSE account[b][x]
  <2>1. account' = [account EXCEPT ![a][p] = row]
    <3>1. account' = [account EXCEPT ![a][p].points = left + 1,
                                     ![a][p].greeted = account[a][p].greeted \/ r.day]
      BY <1>0 DEF People!CommitPoints
    <3> DEFINE b == account[a][p].greeted \/ r.day
    <3>2. account' = [account EXCEPT ![a][p].points = left + 1, ![a][p].greeted = b]
      BY <3>1
    <3>3. row = [account[a][p] EXCEPT !.points = left + 1, !.greeted = b]
      OBVIOUS
    <3> HIDE DEF b, left, row, a, p
    <3> QED
      BY <1>1, <3>2, <3>3 DEF MembersInv, AccountsAreRows
  <2>2. row.points = left + 1
    BY <1>1 DEF People!Account
  <2> HIDE DEF row, a, p
  <2> QED
    BY <1>1, <2>1, <2>2 DEF MembersInv, AccountsAreRows
<1>3. MembersInv' /\ row # None
  <2>1. left + 1 \in Nat /\ (account[a][p].greeted \/ r.day) \in BOOLEAN
    BY <1>1
  <2>2. row \in People!Account
    BY <1>1, <2>1, AccountColumns
  <2> QED
    BY <2>2, ChangesKeep DEF People!MembersParameters
<1>4. CASE a # Market
  <2>1. \A x \in Phones : People!InMarket(x)' = People!InMarket(x)
    BY <1>2, <1>4 DEF People!InMarket, People!MembersParameters
  <2>2. UNCHANGED <<credit, owed>>
    BY <1>0, <1>4 DEF People!CommitPoints, People!points
  <2> QED
    BY <1>1, <2>1, <2>2, PointsStay
<1>5. CASE a = Market
  <2>1. /\ credit' = [credit EXCEPT ![p].other = @ - r.take + 1]
        /\ owed' = [owed EXCEPT ![p] = @ + left - (r.read - r.take)]
    BY <1>0, <1>5 DEF People!CommitPoints
  <2>2. /\ \A x \in Phones : credit[x] \in [reward : Nat, signup : Nat, other : Int]
        /\ owed[p] \in Nat
        /\ credit'[p] = [credit[p] EXCEPT !.other = credit[p].other - r.take + 1]
        /\ owed'[p] = owed[p] + left - (r.read - r.take)
        /\ \A x \in Phones \ {p} : credit'[x] = credit[x] /\ owed'[x] = owed[x]
    BY <1>1, <2>1 DEF MembersInv, ReferralsAreRows
  <2>3. People!Writes(r) = {p} /\ ReadOf(r, p) = r.read
    BY <1>1, <1>5 DEF People!Writes, ReadOf
  <2>4. \A x \in Phones \ {p} : Entered(x)' = Entered(x)
    BY <2>2 DEF Entered, People!Balance
  <2>5. p \notin crossed => left + 1 = Entered(p)'
    <3> SUFFICES ASSUME p \notin crossed
                 PROVE  left + 1 = Entered(p)'
      OBVIOUS
    <3>1. r.read = Entered(p)
      BY <1>0, <1>1, <2>3, WritesHaveAccounts DEF PointsInv, People!PointsAreEntered, Entered
    <3>2. /\ credit'[p].signup = credit[p].signup /\ credit'[p].reward = credit[p].reward
          /\ credit'[p].other = credit[p].other - r.take + 1
      BY <1>1, <2>2
    <3> DEFINE n == Reward * (credit[p].signup + credit[p].reward)
    <3>3. n \in Int
      BY <1>1, <2>2 DEF People!MembersParameters
    <3>4. /\ Entered(p) = n + credit[p].other + owed[p]
          /\ Entered(p)' = n + credit'[p].other + owed'[p]
      BY <3>2 DEF Entered, People!Balance
    <3>5. credit[p].other \in Int /\ left \in Int
      BY <1>1, <2>2
    <3> HIDE DEF n, left
    <3> QED
      BY <1>1, <2>2, <3>1, <3>2, <3>3, <3>4, <3>5
  <2>6. People!InMarket(p)' = row /\ \A x \in Phones \ {p} : People!InMarket(x)' = People!InMarket(x)
    <3> HIDE DEF row, left, p
    <3> QED
      BY <1>1, <1>2, <1>5 DEF People!InMarket
  <2>7. PICK D : D = {p}
    OBVIOUS
  <2>8. \A v \in Workers :
          \/ request'[v] = People!Idle
          \/ request'[v] = request[v] /\ People!Writes(request[v]) \cap D \subseteq crossed
    BY <1>0, <1>1, <2>3, <2>7, WritesAlone
  <2>9. p \notin crossed => People!InMarket(p)'.points = Entered(p)'
    BY <1>2, <2>5, <2>6
  <2>10. People!InMarket(p)' # None
    BY <1>3, <2>6
  <2> HIDE DEF p, a, row, left
  <2>11. \A x \in Phones :
           \/ /\ x \notin D
              /\ People!InMarket(x)' = None <=> People!InMarket(x) = None
              /\ People!InMarket(x) # None =>
                   People!InMarket(x)'.points = People!InMarket(x).points
              /\ Entered(x)' = Entered(x) /\ credit'[x].reward = credit[x].reward
           \/ /\ x \in D \/ People!InMarket(x) = None
              /\ People!InMarket(x)' # None
              /\ x \notin crossed => People!InMarket(x)'.points = Entered(x)'
    <3>1. ASSUME NEW x \in Phones \ {p}
          PROVE  /\ x \notin D
                 /\ People!InMarket(x)' = People!InMarket(x)
                 /\ Entered(x)' = Entered(x) /\ credit'[x].reward = credit[x].reward
      BY <2>2, <2>4, <2>6, <2>7
    <3> QED
      BY <2>7, <2>9, <2>10, <3>1
  <2> QED
    BY <1>1, <2>8, <2>11, PointsCommit
<1> QED
  BY <1>4, <1>5

(* A login that makes an account, and what is written to one beside its    *)
(* points.                                                                 *)
LEMMA LoginPoints ==
  ASSUME People!MembersParameters, MembersInv, PointsInv, NEW w \in Workers,
         People!CommitLogin(w)
  PROVE  PointsInv'
<1>0. PICK r : r = request[w]
  OBVIOUS
<1> DEFINE a == r.alliance
           p == r.of
<1>1. /\ a \in Alliances /\ p \in Phones /\ Market \in Alliances
      /\ UNCHANGED <<credit, owed, crossed>>
      /\ request' = [request EXCEPT ![w] = People!Idle]
      /\ ~r.found.account => account[a][p] = None
      /\ account' = IF r.found.account THEN account
                    ELSE [account EXCEPT ![a][p] = People!NewAccount]
  BY <1>0 DEF People!CommitLogin, People!Doing, People!Done, People!Clashes, People!points,
         MembersInv, SessionsAreRequests, IsRequest, People!MembersParameters
<1>2. People!NewAccount # None /\ People!NewAccount.points = 0
  BY NewAccountType DEF People!MembersParameters, People!NewAccount
<1> HIDE DEF a, p
<1>3. CASE UNCHANGED account
  BY <1>1, <1>3, PointsStay DEF People!InMarket
<1>4. CASE account[a][p] = None /\ account' = [account EXCEPT ![a][p] = People!NewAccount]
  <2>1. \A x \in Phones :
          account'[Market][x] = IF Market = a /\ x = p THEN People!NewAccount ELSE account[Market][x]
    BY <1>1, <1>4 DEF MembersInv, AccountsAreRows
  <2>2. \A x \in Phones : \/ People!InMarket(x)' = People!InMarket(x)
                          \/ People!InMarket(x) = None /\ People!InMarket(x)' = People!NewAccount
    BY <1>4, <2>1 DEF People!InMarket
  <2> QED
    BY <1>1, <1>2, <2>2, PointsStay
<1> QED
  BY <1>1, <1>3, <1>4

LEMMA ColumnPoints ==
  ASSUME People!MembersParameters, MembersInv, PointsInv, NEW p,
         HasAccount(Market, p), NEW row \in People!Account,
         account' = [account EXCEPT ![Market][p] = row],
         row.points = account[Market][p].points, UNCHANGED <<credit, owed, crossed>>,
         \/ UNCHANGED request
         \/ \E w \in Workers : request' = [request EXCEPT ![w] = People!Idle]
  PROVE  PointsInv'
<1>1. p \in Phones /\ Market \in Alliances /\ row # None /\ account[Market][p] # None
  BY DEF HasAccount, People!MembersParameters
<1>2. \A x \in Phones : account'[Market][x] = IF x = p THEN row ELSE account[Market][x]
  BY <1>1 DEF MembersInv, AccountsAreRows
<1>3. \A x \in Phones :
        /\ People!InMarket(x)' = None <=> People!InMarket(x) = None
        /\ People!InMarket(x) # None => People!InMarket(x)'.points = People!InMarket(x).points
  BY <1>1, <1>2 DEF People!InMarket
<1> QED
  BY <1>3, PointsStay

LEMMA ChangePoints ==
  ASSUME People!MembersParameters, MembersInv, PointsInv,
         \/ \E w \in Workers : People!CommitLine(w)
         \/ \E p \in Phones : People!UnbindLine(p) \/ People!Profile(p)
  PROVE  PointsInv'
<1>1. ASSUME NEW w \in Workers, People!CommitLine(w)
      PROVE  PointsInv'
  <2> DEFINE r == request[w]
             row == [account[Market][r.of] EXCEPT !.line = r.line]
  <2>1. HasAccount(Market, r.of) /\ r.line \in LineIds
    BY <1>1
       DEF People!CommitLine, People!Doing, MembersInv, SessionsAreRequests, IsRequest
  <2>2. row \in People!Account /\ row.points = account[Market][r.of].points
    BY <2>1 DEF HasAccount, People!Account
  <2>3. /\ account' = [account EXCEPT ![Market][r.of] = row]
        /\ UNCHANGED <<credit, owed, crossed>>
        /\ request' = [request EXCEPT ![w] = People!Idle]
    BY <1>1 DEF People!CommitLine, People!Done, People!points
  <2> HIDE DEF row
  <2> QED
    BY <2>1, <2>2, <2>3, ColumnPoints
<1>2. ASSUME NEW p \in Phones, People!UnbindLine(p)
      PROVE  PointsInv'
  <2> DEFINE row == [account[Market][p] EXCEPT !.line = None]
  <2>1. HasAccount(Market, p)
    BY <1>2, AccountForms DEF People!UnbindLine, MembersInv
  <2>2. row \in People!Account /\ row.points = account[Market][p].points
    BY <2>1 DEF HasAccount, People!Account
  <2>3. /\ account' = [account EXCEPT ![Market][p] = row]
        /\ UNCHANGED <<credit, owed, crossed, request>>
    BY <1>2 DEF People!UnbindLine, People!AtOnce, People!points
  <2> HIDE DEF row
  <2> QED
    BY <2>1, <2>2, <2>3, ColumnPoints
<1>3. ASSUME NEW p \in Phones, People!Profile(p)
      PROVE  PointsInv'
  <2> DEFINE row == [account[Market][p] EXCEPT !.referral = TRUE]
  <2>1. HasAccount(Market, p)
    BY <1>3, AccountForms DEF People!Profile, MembersInv
  <2>2. row \in People!Account /\ row.points = account[Market][p].points
    BY <2>1 DEF HasAccount, People!Account
  <2>3. /\ account' = [account EXCEPT ![Market][p] = row]
        /\ UNCHANGED <<credit, owed, crossed, request>>
    BY <1>3 DEF People!Profile, People!AtOnce, People!points
  <2> HIDE DEF row
  <2> QED
    BY <2>1, <2>2, <2>3, ColumnPoints
<1> QED
  BY <1>1, <1>2, <1>3

LEMMA PointsStep ==
  ASSUME People!MembersParameters, MembersInv, PointsInv, [People!Next]_People!membersVars
  PROVE  PointsInv'
<1>1. ASSUME NEW w \in Workers, People!Handle(w)
      PROVE  PointsInv'
  <2>1. CASE Asks(w)
    BY <2>1, PointsBegin
  <2>2. CASE People!CommitTable(w) \/ People!CommitJoin(w) \/ People!CommitTopup(w)
             \/ People!CommitMember(w) \/ People!Abort(w)
    <3>1. /\ UNCHANGED <<account, credit, owed, crossed>>
          /\ request' = [request EXCEPT ![w] = People!Idle]
      BY <2>2
         DEF People!CommitTable, People!CommitJoin, People!CommitTopup,
             People!CommitMember, People!Abort, People!Done, People!rows, People!points
    <3> QED
      BY <3>1, PointsStay DEF People!InMarket
  <2> QED
    BY <1>1, <2>1, <2>2, LoginPoints, ChangePoints, RegisterPoints, ReferralPoints,
       PurchasePoints DEF People!Handle, Asks
<1>2. CASE \/ \E p \in Phones, s \in MemberTenants \cup {Market} :
                People!WrongCode(p, s) \/ \E k \in LoginCodes : People!RequestOtp(k, p, s)
           \/ \E p \in Phones, t \in MemberTenants : People!Favorite(p, t)
           \/ \E k \in LoginCodes : People!Lapse(k)
           \/ \E t \in MemberTenants : People!ApproveListing(t)
           \/ UNCHANGED People!membersVars
  <2>1. UNCHANGED <<account, credit, owed, crossed, request>>
    BY <1>2
       DEF People!WrongCode, People!RequestOtp, People!Favorite, People!Lapse,
           People!ApproveListing, People!AtOnce, People!membersVars, People!rows, People!points
  <2> QED
    BY <2>1, PointsStay DEF People!InMarket
<1>3. CASE \E p \in Phones : People!UnbindLine(p) \/ People!Profile(p)
  BY <1>3, ChangePoints
<1> QED
  BY <1>1, <1>2, <1>3 DEF People!Next

---------------------------------------------------------------------------
(* The theorems.                                                           *)

(* A referral is entered for both, and once for each member referred,      *)
(* however many requests apply codes or register at once (apply_referral   *)
(* and register_member), and who is not written to by two requests at once *)
(* has the points of the ledger; a member linked to an alliance has an     *)
(* account there (resolve_alliance_member).                                *)
THEOREM MembersAlways ==
  ASSUME People!MembersParameters
  PROVE  People!Spec => [](People!ReferralPaidOnce /\ AccountsAreRows)
<1>1. People!Init => MembersInv /\ PointsInv
  BY MembersInit, PointsInit
<1>2. MembersInv /\ PointsInv /\ [People!Next]_People!membersVars => MembersInv' /\ PointsInv'
  BY MembersStep, PointsStep
<1>3. MembersInv /\ PointsInv => People!ReferralPaidOnce /\ AccountsAreRows
  BY DEF MembersInv, PointsInv, People!ReferralPaidOnce
<1> QED
  BY <1>1, <1>2, <1>3, PTL DEF People!Spec

---------------------------------------------------------------------------
(* The sessions of tills (Accounts).                                       *)
Token == [of : Users, is : {"live", "rotated", "revoked", "expired"}]

(* The refresh tokens are numbered in the order of their issue.            *)
TokensAreNumbered ==
  /\ \E n \in Nat : DOMAIN token = 1..n
  /\ \A j \in DOMAIN token : token[j] \in Token

TillsAreTyped ==
  /\ signedIn \in [Tills -> DOMAIN token \cup {None}]
  /\ waiting \in [Tills -> SUBSET Workers]
  /\ cause \in [Tills -> BOOLEAN]

(* A request is of a till, and a refresh of a token that was issued, which *)
(* no other till keeps.                                                    *)
IsAccountRequest(r) ==
  /\ r.op \in {"signIn", "refresh", "refused"} => r.till \in Tills
  /\ r.op = "signIn" => r.of \in Users
  /\ r.op = "refresh" =>
       /\ r.token \in DOMAIN token
       /\ \A c \in Tills : signedIn[c] = r.token => c = r.till

RequestsAreOfTills ==
  /\ DOMAIN request = Workers
  /\ \A w \in Workers : IsAccountRequest(request[w])

(* A till awaits one answer at most, to a refresh of its own.              *)
OneInFlight ==
  \A c \in Tills : \A w \in waiting[c] :
    /\ request[w].op \in {"refresh", "refused"} /\ request[w].till = c
    /\ waiting[c] = {w}

(* No two tills keep one token.                                            *)
TokenOfOneTill ==
  \A c, d \in Tills : signedIn[c] # None /\ signedIn[c] = signedIn[d] => c = d

(* A token that was rotated is kept for a cause, as is one whose refresh    *)
(* the till does not await any more.                                       *)
RotatedForCause ==
  /\ \A c \in Tills :
       signedIn[c] # None /\ token[signedIn[c]].is = "rotated" => cause[c]
  /\ \A w \in Workers :
       request[w].op = "refresh" =>
         \/ w \in waiting[request[w].till]
         \/ signedIn[request[w].till] # request[w].token
         \/ cause[request[w].till]

(* An answer that refuses a refresh is awaited for a cause.                *)
RefusedForCause ==
  \A c \in Tills : \A w \in waiting[c] : request[w].op = "refused" => cause[c]

AccountsInv ==
  /\ TokensAreNumbered
  /\ TillsAreTyped
  /\ RequestsAreOfTills
  /\ OneInFlight
  /\ TokenOfOneTill
  /\ RotatedForCause
  /\ RefusedForCause
  /\ SignIns!SignedOutForCause

LEMMA AccountsInit == SignIns!Init => AccountsInv
<1> SUFFICES ASSUME SignIns!Init PROVE AccountsInv
  OBVIOUS
<1>1. TokensAreNumbered
  <2>1. DOMAIN token = 1..0
    BY DEF SignIns!Init
  <2> QED
    BY <2>1 DEF TokensAreNumbered
<1>2. TillsAreTyped /\ RequestsAreOfTills
  BY DEF SignIns!Init, TillsAreTyped, RequestsAreOfTills, IsAccountRequest, SignIns!Idle
<1> QED
  BY <1>1, <1>2
     DEF SignIns!Init, AccountsInv, OneInFlight, TokenOfOneTill, RotatedForCause,
         RefusedForCause, SignIns!SignedOutForCause, SignIns!Idle

(* The counts of the module are those of its theorems.                     *)
LEMMA TokensAreCounted ==
  \A S : (SignIns!IsFiniteSet(S) <=> IsFiniteSet(S)) /\ SignIns!Cardinality(S) = Cardinality(S)
BY DEF SignIns!IsFiniteSet, IsFiniteSet, SignIns!Cardinality, Cardinality

(* The next token is one that was not issued before.                       *)
LEMMA FreshIsNew ==
  ASSUME TokensAreNumbered, NEW u \in Users, NEW tokens, DOMAIN tokens = DOMAIN token,
         \A j \in DOMAIN token : tokens[j] \in Token,
         token' = SignIns!Minted(u, tokens)
  PROVE  /\ SignIns!Fresh \in Nat /\ SignIns!Fresh \notin DOMAIN token
         /\ DOMAIN token' = DOMAIN token \cup {SignIns!Fresh}
         /\ token'[SignIns!Fresh] = [of |-> u, is |-> "live"]
         /\ \A j \in DOMAIN token : token'[j] = tokens[j]
         /\ TokensAreNumbered'
<1>1. PICK n \in Nat : DOMAIN token = 1..n
  BY DEF TokensAreNumbered
<1>2. SignIns!Fresh = n + 1
  <2>1. Cardinality(1..n) = n
    BY FS_Interval
  <2> QED
    BY <1>1, <2>1, TokensAreCounted DEF SignIns!Fresh
<1>3. /\ DOMAIN token' = DOMAIN token \cup {SignIns!Fresh}
      /\ \A j \in DOMAIN token \cup {SignIns!Fresh} :
           token'[j] = IF j = SignIns!Fresh THEN [of |-> u, is |-> "live"] ELSE tokens[j]
  BY DEF SignIns!Minted
<1>4. SignIns!Fresh \in Nat /\ SignIns!Fresh \notin DOMAIN token
  BY <1>1, <1>2
<1>5. DOMAIN token' = 1..(n + 1)
  BY <1>1, <1>2, <1>3
<1>6. [of |-> u, is |-> "live"] \in Token
  BY DEF Token
<1> QED
  BY <1>3, <1>4, <1>5, <1>6 DEF TokensAreNumbered

(* What the server does on its own: tokens are issued, revoked or expire,  *)
(* and a request that no till awaits comes or goes.                        *)
ServerOnly(w) ==
  /\ TokensAreNumbered'
  /\ \A j \in DOMAIN token : j \in DOMAIN token'
       /\ token'[j].is \in {token[j].is, "revoked", "expired"}
  /\ UNCHANGED <<signedIn, waiting, cause>>
  /\ \/ UNCHANGED request
     \/ /\ request[w].op \notin {"refresh", "refused"}
        /\ \E r : /\ request' = [request EXCEPT ![w] = r]
                  /\ r.op \notin {"refresh", "refused"}
                  /\ r.op = "signIn" => r.till \in Tills /\ r.of \in Users

LEMMA ServerOnlyKeeps ==
  ASSUME AccountsInv, NEW w, ServerOnly(w)
  PROVE  AccountsInv'
<1>1. /\ DOMAIN request' = Workers
      /\ \A v \in Workers :
           \/ request'[v] = request[v]
           \/ /\ request[v].op \notin {"refresh", "refused"}
              /\ request'[v].op \notin {"refresh", "refused"}
              /\ request'[v].op = "signIn" =>
                   request'[v].till \in Tills /\ request'[v].of \in Users
  BY DEF ServerOnly, AccountsInv, RequestsAreOfTills
<1>2. /\ TokensAreNumbered'
      /\ \A j \in DOMAIN token : j \in DOMAIN token'
           /\ token'[j].is \in {token[j].is, "revoked", "expired"}
      /\ signedIn' = signedIn /\ waiting' = waiting /\ cause' = cause
  BY DEF ServerOnly
<1>3. TokensAreNumbered' /\ TillsAreTyped' /\ TokenOfOneTill' /\ SignIns!SignedOutForCause'
  BY <1>2 DEF AccountsInv, TillsAreTyped, TokenOfOneTill, SignIns!SignedOutForCause
<1>4. RequestsAreOfTills'
  BY <1>1, <1>2 DEF AccountsInv, RequestsAreOfTills, IsAccountRequest
<1>5. waiting \in [Tills -> SUBSET Workers]
  BY DEF AccountsInv, TillsAreTyped
<1>6. OneInFlight' /\ RefusedForCause'
  BY <1>1, <1>2, <1>5 DEF AccountsInv, OneInFlight, RefusedForCause
<1>7. RotatedForCause'
  BY <1>1, <1>2, <1>5 DEF AccountsInv, RotatedForCause, TillsAreTyped
<1> QED
  BY <1>3, <1>4, <1>6, <1>7 DEF AccountsInv

(* An answer that no till awaits any more changes a token only.            *)
LEMMA SignInKeeps ==
  ASSUME SignIns!AccountsParameters, AccountsInv, NEW w \in Workers, NEW u \in Users,
         request[w].op = "signIn", token' = SignIns!Minted(u, token), SignIns!Kept(request[w].till, SignIns!Fresh),
         SignIns!Done(w)
  PROVE  AccountsInv'
<1>1. PICK c : c = request[w].till
  OBVIOUS
<1>2. c \in Tills
  BY <1>1 DEF AccountsInv, RequestsAreOfTills, IsAccountRequest
<1>3. PICK fresh : fresh = SignIns!Fresh
  OBVIOUS
<1>4. /\ fresh \in Nat /\ fresh \notin DOMAIN token /\ fresh # None
      /\ DOMAIN token' = DOMAIN token \cup {fresh}
      /\ token'[fresh] = [of |-> u, is |-> "live"]
      /\ \A j \in DOMAIN token : token'[j] = token[j]
      /\ TokensAreNumbered'
  <2> QED
    BY <1>3, FreshIsNew DEF AccountsInv, SignIns!AccountsParameters, TokensAreNumbered
<1>5. /\ signedIn \in [Tills -> DOMAIN token \cup {None}]
           /\ waiting \in [Tills -> SUBSET Workers]
      /\ cause \in [Tills -> BOOLEAN]
  BY DEF AccountsInv, TillsAreTyped
<1>6. /\ signedIn' = [signedIn EXCEPT ![c] = fresh]
      /\ cause' = [cause EXCEPT ![c] = waiting[c] # {}]
      /\ waiting' = waiting
  BY <1>1, <1>3 DEF SignIns!Kept, SignIns!InFlight
<1>7. /\ DOMAIN request' = Workers /\ request'[w] = SignIns!Idle
      /\ \A v \in Workers \ {w} : request'[v] = request[v]
  BY DEF SignIns!Done, AccountsInv, RequestsAreOfTills
<1>8. \A d \in Tills : w \notin waiting[d]
  BY DEF AccountsInv, OneInFlight
<1>9. TillsAreTyped'
  BY <1>2, <1>4, <1>5, <1>6 DEF TillsAreTyped
<1>10. RequestsAreOfTills'
  BY <1>4, <1>5, <1>6, <1>7
     DEF AccountsInv, RequestsAreOfTills, IsAccountRequest, SignIns!Idle
<1>11. OneInFlight'
  BY <1>5, <1>6, <1>7, <1>8 DEF AccountsInv, OneInFlight
<1>12. TokenOfOneTill'
  BY <1>2, <1>4, <1>5, <1>6 DEF AccountsInv, TokenOfOneTill
<1>13. RotatedForCause'
  <2>1. ASSUME NEW d \in Tills, signedIn'[d] # None, token'[signedIn'[d]].is = "rotated"
        PROVE  cause'[d]
    BY <1>2, <1>4, <1>5, <1>6, <2>1 DEF AccountsInv, RotatedForCause
  <2>2. ASSUME NEW v \in Workers, request'[v].op = "refresh",
               v \notin waiting'[request'[v].till],
               signedIn'[request'[v].till] = request'[v].token
        PROVE  cause'[request'[v].till]
    <3>1. v # w /\ request'[v] = request[v]
      BY <1>7, <2>2 DEF SignIns!Idle
    <3>2. request[v].token \in DOMAIN token /\ request[v].till \in Tills
      BY <2>2, <3>1 DEF AccountsInv, RequestsAreOfTills, IsAccountRequest
    <3>3. request[v].till # c
      BY <1>2, <1>4, <1>5, <1>6, <2>2, <3>1, <3>2
    <3> QED
      BY <1>5, <1>6, <2>2, <3>1, <3>2, <3>3 DEF AccountsInv, RotatedForCause
  <2> QED
    BY <2>1, <2>2 DEF RotatedForCause
<1>14. RefusedForCause'
  BY <1>2, <1>5, <1>6, <1>7, <1>8 DEF AccountsInv, RefusedForCause
<1>15. SignIns!SignedOutForCause'
  BY <1>2, <1>4, <1>5, <1>6 DEF AccountsInv, SignIns!SignedOutForCause
<1> QED
  BY <1>4, <1>9, <1>10, <1>11, <1>12, <1>13, <1>14, <1>15 DEF AccountsInv

(* The till's own: it gives up waiting, is killed or signs out.            *)
LEMMA TillStops ==
  ASSUME SignIns!AccountsParameters, AccountsInv,
         NEW c \in Tills, SignIns!GiveUp(c) \/ SignIns!Kill(c) \/ SignIns!SignOut(c)
  PROVE  AccountsInv'
<1>1. /\ signedIn \in [Tills -> DOMAIN token \cup {None}]
           /\ waiting \in [Tills -> SUBSET Workers]
      /\ cause \in [Tills -> BOOLEAN]
  BY DEF AccountsInv, TillsAreTyped
<1>2. PICK s \in {signedIn[c], None}, ws \in {waiting[c], {}} :
        /\ signedIn' = [signedIn EXCEPT ![c] = s]
        /\ waiting' = [waiting EXCEPT ![c] = ws]
  <2>1. signedIn = [signedIn EXCEPT ![c] = signedIn[c]]
             /\ waiting = [waiting EXCEPT ![c] = waiting[c]]
    BY <1>1
  <2> QED
    BY <2>1 DEF SignIns!GiveUp, SignIns!Kill, SignIns!SignOut
<1>3. cause' = [cause EXCEPT ![c] = TRUE] /\ UNCHANGED <<token, request>>
  BY DEF SignIns!GiveUp, SignIns!Kill, SignIns!SignOut, SignIns!server
<1>4. TokensAreNumbered' /\ TillsAreTyped' /\ TokenOfOneTill' /\ SignIns!SignedOutForCause'
  BY <1>1, <1>2, <1>3
     DEF AccountsInv, TokensAreNumbered, TillsAreTyped, TokenOfOneTill,
         SignIns!SignedOutForCause
<1>5. RequestsAreOfTills'
  <2>1. None \notin DOMAIN token
    BY DEF SignIns!AccountsParameters, AccountsInv, TokensAreNumbered
  <2> QED
    BY <1>1, <1>2, <1>3, <2>1 DEF AccountsInv, RequestsAreOfTills, IsAccountRequest
<1>6. OneInFlight' /\ RefusedForCause'
  BY <1>1, <1>2, <1>3 DEF AccountsInv, OneInFlight, RefusedForCause
<1>7. RotatedForCause'
  <2>1. \A d \in Tills \ {c} :
          signedIn'[d] = signedIn[d] /\ waiting'[d] = waiting[d] /\ cause'[d] = cause[d]
    BY <1>1, <1>2, <1>3
  <2>2. cause'[c]
    BY <1>1, <1>3
  <2> QED
    BY <1>3, <2>1, <2>2
       DEF AccountsInv, RotatedForCause, RequestsAreOfTills, IsAccountRequest
<1> QED
  BY <1>4, <1>5, <1>6, <1>7 DEF AccountsInv

LEMMA RefreshKeeps ==
  ASSUME AccountsInv, NEW w \in Workers, NEW c \in Tills, SignIns!Refresh(w, c)
  PROVE  AccountsInv'
<1>1. PICK j : j = signedIn[c]
  OBVIOUS
<1>2. PICK op : op = IF token[j].is = "live"
           /\ user[token[j].of].active THEN "refresh" ELSE "refused"
  OBVIOUS
<1>3. PICK r : r = [op |-> op, till |-> c, token |-> j, read |-> user[token[j].of]]
  OBVIOUS
<1>4. /\ j # None /\ waiting[c] = {} /\ request[w] = SignIns!Idle
      /\ request' = [request EXCEPT ![w] = r]
      /\ waiting' = [waiting EXCEPT ![c] = waiting[c] \cup {w}]
      /\ cause' = [cause EXCEPT ![c] = cause[c] \/ token[j].is \in {"revoked", "expired"}
                                       \/ ~user[token[j].of].active]
      /\ UNCHANGED <<token, signedIn>>
  BY <1>1, <1>2, <1>3
     DEF SignIns!Refresh, SignIns!Begin, SignIns!InFlight, SignIns!server
<1>5. /\ signedIn \in [Tills -> DOMAIN token \cup {None}]
           /\ waiting \in [Tills -> SUBSET Workers]
      /\ cause \in [Tills -> BOOLEAN]
  BY DEF AccountsInv, TillsAreTyped
<1>6. j \in DOMAIN token /\ \A d \in Tills : signedIn[d] = j => d = c
  BY <1>1, <1>4, <1>5 DEF AccountsInv, TokenOfOneTill
<1>7. /\ DOMAIN request' = Workers /\ request'[w] = r
      /\ \A v \in Workers \ {w} : request'[v] = request[v]
  BY <1>4 DEF AccountsInv, RequestsAreOfTills
<1>8. r.op \in {"refresh", "refused"} /\ r.till = c /\ r.token = j
  BY <1>2, <1>3
<1>9. \A d \in Tills : w \notin waiting[d]
  BY <1>4 DEF AccountsInv, OneInFlight, SignIns!Idle
<1>10. /\ waiting'[c] = {w} /\ \A d \in Tills \ {c} : waiting'[d] = waiting[d]
       /\ \A d \in Tills : cause'[d] \in BOOLEAN /\ (cause[d] => cause'[d])
  BY <1>4, <1>5
<1>11. TillsAreTyped'
  BY <1>4, <1>5, <1>10 DEF TillsAreTyped
<1>12. RequestsAreOfTills'
  BY <1>4, <1>6, <1>7, <1>8 DEF AccountsInv, RequestsAreOfTills, IsAccountRequest
<1>13. OneInFlight'
  BY <1>5, <1>7, <1>8, <1>9, <1>10 DEF AccountsInv, OneInFlight
<1>14. TokensAreNumbered' /\ TokenOfOneTill' /\ SignIns!SignedOutForCause'
  BY <1>4, <1>10
     DEF AccountsInv, TokensAreNumbered, TokenOfOneTill, SignIns!SignedOutForCause
<1>15. RotatedForCause'
  <2>1. \A d \in Tills :
          signedIn'[d] # None /\ token'[signedIn'[d]].is = "rotated" => cause'[d]
    BY <1>4, <1>10 DEF AccountsInv, RotatedForCause
  <2>2. ASSUME NEW v \in Workers, request'[v].op = "refresh",
               v \notin waiting'[request'[v].till],
               signedIn'[request'[v].till] = request'[v].token
        PROVE  cause'[request'[v].till]
    <3>1. v # w /\ request'[v] = request[v]
      BY <1>7, <1>8, <1>10, <2>2
    <3>2. request[v].till \in Tills
      BY <2>2, <3>1 DEF AccountsInv, RequestsAreOfTills, IsAccountRequest
    <3>3. v \notin waiting[request[v].till]
      BY <1>4, <1>10, <2>2, <3>1, <3>2
    <3>4. cause[request[v].till]
      BY <1>4, <2>2, <3>1, <3>3 DEF AccountsInv, RotatedForCause
    <3> QED
      BY <1>10, <3>1, <3>2, <3>4
  <2> QED
    BY <2>1, <2>2 DEF RotatedForCause
<1>16. RefusedForCause'
  <2>1. ASSUME r.op = "refused" PROVE cause'[c]
    <3>1. token[j].is # "live" \/ ~user[token[j].of].active
      BY <1>2, <1>3, <2>1
    <3>2. token[j].is \in {"live", "rotated", "revoked", "expired"}
      BY <1>6 DEF AccountsInv, TokensAreNumbered, Token
    <3>3. token[j].is = "rotated" => cause[c]
      BY <1>1, <1>4 DEF AccountsInv, RotatedForCause
    <3> QED
      BY <1>4, <1>5, <3>1, <3>2, <3>3
  <2> QED
    BY <1>5, <1>7, <1>9, <1>10, <2>1 DEF AccountsInv, RefusedForCause
<1> QED
  BY <1>11, <1>12, <1>13, <1>14, <1>15, <1>16 DEF AccountsInv

LEMMA CommitRefreshKeeps ==
  ASSUME SignIns!AccountsParameters, AccountsInv, NEW w \in Workers, SignIns!CommitRefresh(w)
  PROVE  AccountsInv'
<1>1. PICK r : r = request[w]
  OBVIOUS
<1>2. r.op = "refresh" /\ IsAccountRequest(r)
  BY <1>1 DEF SignIns!CommitRefresh, SignIns!Doing, AccountsInv, RequestsAreOfTills
<1>3. /\ r.till \in Tills /\ r.token \in DOMAIN token
      /\ \A d \in Tills : signedIn[d] = r.token => d = r.till
  BY <1>2 DEF IsAccountRequest
<1>4. PICK c \in Tills : c = r.till
  BY <1>3
<1>5. PICK fresh : fresh = SignIns!Fresh
  OBVIOUS
<1>6. PICK rotated : rotated = [token EXCEPT ![r.token].is = "rotated"]
  OBVIOUS
<1>7. /\ DOMAIN rotated = DOMAIN token
      /\ \A j \in DOMAIN token \ {r.token} : rotated[j] = token[j]
      /\ \A j \in DOMAIN token : rotated[j] \in Token
  <2>1. \A j \in DOMAIN token : token[j] \in Token
    BY DEF AccountsInv, TokensAreNumbered
  <2>2. DOMAIN rotated = DOMAIN token
             /\ \A j \in DOMAIN token \ {r.token} : rotated[j] = token[j]
    BY <1>6
  <2>3. rotated[r.token] \in Token
    BY <1>3, <1>6, <2>1 DEF Token
  <2> QED
    BY <2>1, <2>2, <2>3
<1>8. token' = SignIns!Minted(token[r.token].of, rotated) /\ token[r.token].of \in Users
  BY <1>1, <1>3, <1>6 DEF SignIns!CommitRefresh, AccountsInv, TokensAreNumbered, Token
<1>9. /\ fresh \in Nat /\ fresh \notin DOMAIN token /\ fresh # None
      /\ DOMAIN token' = DOMAIN token \cup {fresh}
      /\ token'[fresh] = [of |-> token[r.token].of, is |-> "live"]
      /\ \A j \in DOMAIN token : token'[j] = rotated[j]
      /\ TokensAreNumbered'
  BY <1>5, <1>7, <1>8, FreshIsNew DEF AccountsInv, SignIns!AccountsParameters
<1>10. /\ signedIn \in [Tills -> DOMAIN token \cup {None}]
            /\ waiting \in [Tills -> SUBSET Workers]
       /\ cause \in [Tills -> BOOLEAN]
  BY DEF AccountsInv, TillsAreTyped
<1>11. /\ waiting' = [waiting EXCEPT ![c] = waiting[c] \ {w}]
       /\ IF w \in waiting[c]
          THEN signedIn' = [signedIn EXCEPT ![c] = fresh]
               /\ cause' = [cause EXCEPT ![c] = FALSE]
          ELSE UNCHANGED <<signedIn, cause>>
       /\ SignIns!Done(w)
  BY <1>1, <1>4, <1>5 DEF SignIns!CommitRefresh
<1>12. /\ DOMAIN request' = Workers /\ request'[w] = SignIns!Idle
       /\ \A v \in Workers \ {w} : request'[v] = request[v]
  BY <1>11 DEF SignIns!Done, AccountsInv, RequestsAreOfTills
<1>13. \A d \in Tills : waiting'[d] = waiting[d] \ {w}
  BY <1>1, <1>4, <1>10, <1>11 DEF AccountsInv, OneInFlight
<1>14. \A d \in Tills \ {c} : signedIn'[d] = signedIn[d] /\ cause'[d] = cause[d]
  BY <1>10, <1>11
<1>15. \/ signedIn'[c] = fresh /\ w \in waiting[c]
       \/ signedIn'[c] = signedIn[c] /\ cause'[c] = cause[c] /\ w \notin waiting[c]
  BY <1>10, <1>11
<1>16. TillsAreTyped'
  BY <1>9, <1>10, <1>11 DEF TillsAreTyped
<1>17. RequestsAreOfTills'
  <2>1. ASSUME NEW v \in Workers \ {w}, IsAccountRequest(request[v])
        PROVE  /\ request[v].op \in {"signIn", "refresh", "refused"} => request[v].till \in Tills
               /\ request[v].op = "signIn" => request[v].of \in Users
               /\ request[v].op = "refresh" =>
                    /\ request[v].token \in DOMAIN token'
                    /\ \A d \in Tills : signedIn'[d] = request[v].token => d = request[v].till
    BY <1>9, <1>14, <1>15, <2>1 DEF IsAccountRequest
  <2>2. \A v \in Workers : IsAccountRequest(request[v])
    BY DEF AccountsInv, RequestsAreOfTills
  <2> QED
    BY <1>12, <2>1, <2>2 DEF RequestsAreOfTills, IsAccountRequest, SignIns!Idle
<1>18. OneInFlight'
  BY <1>10, <1>12, <1>13 DEF AccountsInv, OneInFlight
<1>19. TokenOfOneTill'
  BY <1>9, <1>10, <1>14, <1>15 DEF AccountsInv, TokenOfOneTill
<1>20. RotatedForCause'
  <2>1. ASSUME NEW d \in Tills, signedIn'[d] # None, token'[signedIn'[d]].is = "rotated"
        PROVE  cause'[d]
    <3>1. signedIn'[d] # fresh
      BY <1>9, <2>1
    <3>2. signedIn'[d] = signedIn[d] /\ cause'[d] = cause[d] /\ (d = c => w \notin waiting[c])
      BY <1>14, <1>15, <3>1
    <3>3. signedIn[d] \in DOMAIN token
      BY <1>10, <2>1, <3>2
    <3>4. CASE signedIn[d] = r.token
      <4>1. d = c
        BY <1>3, <1>4, <3>4
      <4> QED
        BY <1>1, <1>2, <1>4, <3>2, <3>4, <4>1 DEF AccountsInv, RotatedForCause
    <3>5. CASE signedIn[d] # r.token
      BY <1>7, <1>9, <2>1, <3>2, <3>3, <3>5 DEF AccountsInv, RotatedForCause
    <3> QED
      BY <3>4, <3>5
  <2>2. ASSUME NEW v \in Workers, request'[v].op = "refresh",
               v \notin waiting'[request'[v].till],
               signedIn'[request'[v].till] = request'[v].token
        PROVE  cause'[request'[v].till]
    <3>1. v # w /\ request'[v] = request[v]
      BY <1>12, <2>2 DEF SignIns!Idle
    <3>2. request[v].till \in Tills /\ request[v].token \in DOMAIN token
      BY <2>2, <3>1 DEF AccountsInv, RequestsAreOfTills, IsAccountRequest
    <3>3. v \notin waiting[request[v].till]
      BY <1>13, <2>2, <3>1, <3>2
    <3>4. signedIn'[request[v].till] # fresh
      BY <1>9, <2>2, <3>1, <3>2
    <3>5. /\ signedIn'[request[v].till] = signedIn[request[v].till]
          /\ cause'[request[v].till] = cause[request[v].till]
      BY <1>14, <1>15, <3>2, <3>4
    <3> QED
      BY <2>2, <3>1, <3>3, <3>5 DEF AccountsInv, RotatedForCause
  <2> QED
    BY <2>1, <2>2 DEF RotatedForCause
<1>21. RefusedForCause'
  <2>1. ASSUME NEW d \in Tills, NEW v \in waiting'[d], request'[v].op = "refused"
        PROVE  cause'[d]
    <3>1. v \in waiting[d] /\ v # w /\ v \in Workers /\ request[v].op = "refused"
      BY <1>10, <1>12, <1>13, <2>1
    <3>2. d = c => w \notin waiting[c]
      BY <3>1 DEF AccountsInv, OneInFlight
    <3> QED
      BY <1>14, <1>15, <3>1, <3>2 DEF AccountsInv, RefusedForCause
  <2> QED
    BY <2>1 DEF RefusedForCause
<1>22. SignIns!SignedOutForCause'
  BY <1>9, <1>14, <1>15 DEF AccountsInv, SignIns!SignedOutForCause
<1> QED
  BY <1>9, <1>16, <1>17, <1>18, <1>19, <1>20, <1>21, <1>22 DEF AccountsInv

LEMMA RefusedKeeps ==
  ASSUME SignIns!AccountsParameters, AccountsInv, NEW w \in Workers, SignIns!Refused(w)
  PROVE  AccountsInv'
<1>1. PICK c : c = request[w].till
  OBVIOUS
<1>2. c \in Tills /\ request[w].op = "refused"
  BY <1>1
     DEF SignIns!Refused, SignIns!Doing, AccountsInv, RequestsAreOfTills,
         IsAccountRequest
<1>3. /\ signedIn \in [Tills -> DOMAIN token \cup {None}]
           /\ waiting \in [Tills -> SUBSET Workers]
      /\ cause \in [Tills -> BOOLEAN]
  BY DEF AccountsInv, TillsAreTyped
<1>4. /\ waiting' = [waiting EXCEPT ![c] = waiting[c] \ {w}]
      /\ signedIn' = [signedIn EXCEPT ![c] = IF w \in waiting[c] THEN None ELSE signedIn[c]]
      /\ UNCHANGED <<token, cause>> /\ SignIns!Done(w)
  BY <1>1, <1>2, <1>3 DEF SignIns!Refused, SignIns!server
<1>5. /\ DOMAIN request' = Workers /\ request'[w] = SignIns!Idle
      /\ \A v \in Workers \ {w} : request'[v] = request[v]
  BY <1>4 DEF SignIns!Done, AccountsInv, RequestsAreOfTills
<1>6. \A d \in Tills : waiting'[d] = waiting[d] \ {w}
  BY <1>1, <1>3, <1>4 DEF AccountsInv, OneInFlight
<1>7. \A d \in Tills :
        \/ signedIn'[d] = signedIn[d]
        \/ signedIn'[d] = None /\ w \in waiting[d] /\ d = c
  BY <1>3, <1>4
<1>8. None \notin DOMAIN token
  BY DEF SignIns!AccountsParameters, AccountsInv, TokensAreNumbered
<1>9. TillsAreTyped'
  BY <1>2, <1>3, <1>4 DEF TillsAreTyped
<1>10. RequestsAreOfTills'
  <2>1. \A v \in Workers : IsAccountRequest(request[v])
    BY DEF AccountsInv, RequestsAreOfTills
  <2> QED
    BY <1>4, <1>5, <1>7, <1>8, <2>1
       DEF RequestsAreOfTills, IsAccountRequest, SignIns!Idle
<1>11. OneInFlight' /\ RefusedForCause'
  BY <1>3, <1>4, <1>5, <1>6 DEF AccountsInv, OneInFlight, RefusedForCause
<1>12. TokensAreNumbered' /\ TokenOfOneTill'
  BY <1>4, <1>7 DEF AccountsInv, TokensAreNumbered, TokenOfOneTill
<1>13. SignIns!SignedOutForCause'
  BY <1>2, <1>4, <1>7 DEF AccountsInv, SignIns!SignedOutForCause, RefusedForCause
<1>14. RotatedForCause'
  <2>1. \A d \in Tills :
          signedIn'[d] # None /\ token'[signedIn'[d]].is = "rotated" => cause'[d]
    BY <1>4, <1>7 DEF AccountsInv, RotatedForCause
  <2>2. ASSUME NEW v \in Workers, request'[v].op = "refresh",
               v \notin waiting'[request'[v].till],
               signedIn'[request'[v].till] = request'[v].token
        PROVE  cause'[request'[v].till]
    <3>1. v # w /\ request'[v] = request[v]
      BY <1>5, <2>2 DEF SignIns!Idle
    <3>2. request[v].till \in Tills /\ request[v].token \in DOMAIN token
      BY <2>2, <3>1 DEF AccountsInv, RequestsAreOfTills, IsAccountRequest
    <3>3. v \notin waiting[request[v].till]
      BY <1>6, <2>2, <3>1, <3>2
    <3>4. signedIn'[request[v].till] = signedIn[request[v].till]
      BY <1>7, <1>8, <2>2, <3>1, <3>2
    <3> QED
      BY <1>4, <2>2, <3>1, <3>3, <3>4 DEF AccountsInv, RotatedForCause
  <2> QED
    BY <2>1, <2>2 DEF RotatedForCause
<1> QED
  BY <1>9, <1>10, <1>11, <1>12, <1>13, <1>14 DEF AccountsInv

LEMMA TokensStay ==
  ASSUME AccountsInv, UNCHANGED token
  PROVE  /\ TokensAreNumbered'
         /\ \A j \in DOMAIN token : j \in DOMAIN token'
              /\ token'[j].is \in {token[j].is, "revoked", "expired"}
BY DEF AccountsInv, TokensAreNumbered

LEMMA RevokedKeeps ==
  ASSUME AccountsInv, NEW js, token' = SignIns!Revoked(js)
  PROVE  /\ TokensAreNumbered'
         /\ \A j \in DOMAIN token : j \in DOMAIN token'
              /\ token'[j].is \in {token[j].is, "revoked", "expired"}
<1>1. DOMAIN token' = DOMAIN token
  BY DEF SignIns!Revoked
<1>2. ASSUME NEW j \in DOMAIN token
      PROVE  token'[j] \in Token /\ token'[j].is \in {token[j].is, "revoked", "expired"}
  <2>1. token[j] \in Token
    BY DEF AccountsInv, TokensAreNumbered
  <2>2. token'[j] = [token[j] EXCEPT !.is = "revoked"] \/ token'[j] = token[j]
    BY DEF SignIns!Revoked
  <2> QED
    BY <2>1, <2>2 DEF Token
<1> QED
  BY <1>1, <1>2 DEF AccountsInv, TokensAreNumbered

LEMMA AccountAtOnceKeeps ==
  ASSUME AccountsInv, NEW w \in Workers, request' = [request EXCEPT ![w] = SignIns!Idle],
         request[w].op \notin {"refresh", "refused"},
         UNCHANGED <<signedIn, waiting, cause>>, TokensAreNumbered',
         \A j \in DOMAIN token : j \in DOMAIN token'
              /\ token'[j].is \in {token[j].is, "revoked", "expired"}
  PROVE  AccountsInv'
<1>1. SignIns!Idle.op \notin {"refresh", "refused", "signIn"}
  BY DEF SignIns!Idle
<1>2. ServerOnly(w)
  BY <1>1 DEF ServerOnly
<1> QED
  BY <1>2, ServerOnlyKeeps

LEMMA CommitSignInKeeps ==
  ASSUME SignIns!AccountsParameters, AccountsInv, NEW w \in Workers, SignIns!CommitSignIn(w)
  PROVE  AccountsInv'
<1>1. request[w].op = "signIn" /\ SignIns!Done(w) /\ request[w].of \in Users
  BY DEF SignIns!CommitSignIn, SignIns!Doing, AccountsInv, RequestsAreOfTills,
         IsAccountRequest
<1>2. CASE UNCHANGED <<token, SignIns!till>>
  BY <1>1, <1>2, TokensStay, AccountAtOnceKeeps DEF SignIns!Done, SignIns!till
<1>3. CASE token' = SignIns!Minted(request[w].of, token) /\ UNCHANGED SignIns!till
  <2>1. \A j \in DOMAIN token : token[j] \in Token
    BY DEF AccountsInv, TokensAreNumbered
  <2>2. /\ TokensAreNumbered'
        /\ \A j \in DOMAIN token : j \in DOMAIN token' /\ token'[j] = token[j]
    BY <1>1, <1>3, <2>1, FreshIsNew DEF AccountsInv
  <2> QED
    BY <1>1, <1>3, <2>2, AccountAtOnceKeeps DEF SignIns!Done, SignIns!till
<1>4. CASE token' = SignIns!Minted(request[w].of, token)
           /\ SignIns!Kept(request[w].till, SignIns!Fresh)
  BY <1>1, <1>4, SignInKeeps
<1> QED
  BY <1>2, <1>3, <1>4 DEF SignIns!CommitSignIn

LEMMA AccountBeginsKeep ==
  ASSUME AccountsInv, NEW w \in Workers,
         NEW r, SignIns!Begin(w, r), r.op \notin {"refresh", "refused"},
         r.op = "signIn" => r.till \in Tills /\ r.of \in Users,
         UNCHANGED SignIns!till \/ UNCHANGED <<signedIn, waiting, cause>>,
         UNCHANGED token \/ \E js : token' = SignIns!Revoked(js)
  PROVE  AccountsInv'
<1>1. /\ TokensAreNumbered'
      /\ \A j \in DOMAIN token : j \in DOMAIN token'
           /\ token'[j].is \in {token[j].is, "revoked", "expired"}
  BY TokensStay, RevokedKeeps
<1>2. request' = [request EXCEPT ![w] = r] /\ request[w].op \notin {"refresh", "refused"}
  BY DEF SignIns!Begin, SignIns!Idle
<1>3. UNCHANGED <<signedIn, waiting, cause>>
  BY DEF SignIns!till
<1>4. ServerOnly(w)
  BY <1>1, <1>2, <1>3 DEF ServerOnly
<1> QED
  BY <1>4, ServerOnlyKeeps

LEMMA TokenExpiryKeeps ==
  ASSUME AccountsInv, NEW j \in DOMAIN token, SignIns!Expire(j)
  PROVE  AccountsInv'
<1>1. token' = [token EXCEPT ![j].is = "expired"]
      /\ UNCHANGED <<signedIn, waiting, cause, request>>
  BY DEF SignIns!Expire, SignIns!till
<1>2. /\ DOMAIN token' = DOMAIN token
      /\ \A i \in DOMAIN token :
           /\ token'[i] \in Token
           /\ token'[i].is \in {token[i].is, "revoked", "expired"}
  BY <1>1 DEF AccountsInv, TokensAreNumbered, Token
<1>3. PICK w : w = None
  OBVIOUS
<1>4. TokensAreNumbered'
  BY <1>2 DEF AccountsInv, TokensAreNumbered
<1>5. ServerOnly(w)
  BY <1>1, <1>2, <1>4 DEF ServerOnly
<1> QED
  BY <1>5, ServerOnlyKeeps

LEMMA UsersKeep ==
  ASSUME AccountsInv, NEW w \in Workers, NEW u \in Users,
         \/ SignIns!Logout(w, u) \/ SignIns!ChangePassword(w, u)
         \/ SignIns!CreateUser(w, u) \/ SignIns!UpdateUser(w, u)
              \/ SignIns!DeleteUser(w, u) \/ SignIns!Totp(w, u)
  PROVE  AccountsInv'
<1>1. SignIns!Begin(w, SignIns!Idle) /\ UNCHANGED SignIns!till
  BY DEF SignIns!Logout, SignIns!ChangePassword, SignIns!CreateUser, SignIns!UpdateUser,
         SignIns!DeleteUser, SignIns!Totp, SignIns!AtOnce
<1>2. UNCHANGED token \/ \E js : token' = SignIns!Revoked(js)
  BY DEF SignIns!Logout, SignIns!ChangePassword, SignIns!CreateUser, SignIns!UpdateUser,
         SignIns!DeleteUser, SignIns!Totp
<1>3. SignIns!Idle.op = "none"
  BY DEF SignIns!Idle
<1> QED
  BY <1>1, <1>2, <1>3, AccountBeginsKeep

LEMMA AccountsSame ==
  ASSUME AccountsInv, UNCHANGED <<token, signedIn, waiting, cause, request>>
  PROVE  AccountsInv'
BY DEF AccountsInv, TokensAreNumbered, TillsAreTyped, RequestsAreOfTills,
       IsAccountRequest, OneInFlight, TokenOfOneTill, RotatedForCause, RefusedForCause,
       SignIns!SignedOutForCause

LEMMA AccountsStep ==
  ASSUME SignIns!AccountsParameters, AccountsInv, [SignIns!Next]_SignIns!accountVars
  PROVE  AccountsInv'
<1>1. ASSUME NEW w \in Workers, NEW u \in Users, NEW how, NEW c \in Tills, NEW right,
             SignIns!SignIn(w, how, c, u, right)
      PROVE  AccountsInv'
  <2>1. PICK r : r = [op |-> "signIn", how |-> how, till |-> c, of |-> u,
                      right |-> right, read |-> user[u]]
    OBVIOUS
  <2>2. SignIns!Begin(w, r) /\ UNCHANGED <<token, SignIns!till>>
    BY <1>1, <2>1 DEF SignIns!SignIn, SignIns!server
  <2> QED
    BY <2>1, <2>2, AccountBeginsKeep
<1>2. ASSUME NEW w \in Workers, NEW u \in Users, NEW right, SignIns!VerifyPin(w, u, right)
      PROVE  AccountsInv'
  <2>1. PICK r : r = [op |-> "verifyPin", of |-> u, right |-> right, read |-> user[u]]
    OBVIOUS
  <2>2. SignIns!Begin(w, r) /\ UNCHANGED <<token, SignIns!till>>
    BY <1>2, <2>1 DEF SignIns!VerifyPin, SignIns!server
  <2> QED
    BY <2>1, <2>2, AccountBeginsKeep
<1>3. ASSUME NEW w \in Workers, NEW c \in Tills, SignIns!RegisterTerminal(w, c)
      PROVE  AccountsInv'
  <2>1. SignIns!Begin(w, SignIns!Idle) /\ UNCHANGED <<signedIn, waiting, cause>>
             /\ UNCHANGED token
    BY <1>3 DEF SignIns!RegisterTerminal, SignIns!AtOnce
  <2>2. SignIns!Idle.op = "none"
    BY DEF SignIns!Idle
  <2> QED
    BY <2>1, <2>2, AccountBeginsKeep
<1>4. ASSUME NEW u \in Users, SignIns!LockEnds(u) PROVE AccountsInv'
  BY <1>4, AccountsSame DEF SignIns!LockEnds, SignIns!till
<1>5. ASSUME NEW w \in Workers, SignIns!CommitPin(w) PROVE AccountsInv'
  <2>1. /\ request[w].op = "verifyPin" /\ request' = [request EXCEPT ![w] = SignIns!Idle]
        /\ UNCHANGED token /\ UNCHANGED <<signedIn, waiting, cause>>
    BY <1>5 DEF SignIns!CommitPin, SignIns!Doing, SignIns!Done, SignIns!till
  <2> QED
    BY <2>1, TokensStay, AccountAtOnceKeeps
<1>6. CASE UNCHANGED SignIns!accountVars
  BY <1>6, AccountsSame DEF SignIns!accountVars
<1> QED
  BY <1>1, <1>2, <1>3, <1>4, <1>5, <1>6, UsersKeep, TillStops, RefreshKeeps, TokenExpiryKeeps,
     CommitSignInKeeps, CommitRefreshKeeps, RefusedKeeps DEF SignIns!Next

(* A till loses its session for a cause only, however many of its calls are *)
(* refused at the same time (AuthController, auth.py); a till awaits one   *)
(* answer, and no two tills keep one token.                                *)
THEOREM AccountsAlways ==
  ASSUME SignIns!AccountsParameters
  PROVE  SignIns!Spec => [](SignIns!SignedOutForCause /\ OneInFlight /\ TokenOfOneTill)
<1>1. SignIns!Init => AccountsInv
  BY AccountsInit
<1>2. AccountsInv /\ [SignIns!Next]_SignIns!accountVars => AccountsInv'
  BY AccountsStep
<1>3. AccountsInv => SignIns!SignedOutForCause /\ OneInFlight /\ TokenOfOneTill
  BY DEF AccountsInv
<1> QED
  BY <1>1, <1>2, <1>3, PTL DEF SignIns!Spec

---------------------------------------------------------------------------
(* The tenants (Tenants).  What an application needs to become one stays:  *)
(* a code of its own that was entered.                                     *)
CodeWasEntered(a) == \E k \in DOMAIN otp : otp[k].app = a /\ otp[k].is = "used"

(* Request r is of rows that are there, and of what its reading let pass:   *)
(* a code that is right was sent for the application, and one that is       *)
(* approved was verified.                                                  *)
IsTenantRequest(r) ==
  /\ r.op \in {"none", "submit", "verify", "approve", "create", "reject", "plan",
               "count", "settings", "listing"}
  /\ r.op = "submit" => r.email \in Emails /\ r.code \in TenantCodes \cup {None}
  /\ r.op \in {"verify", "approve", "reject"} => r.of \in DOMAIN app
  /\ r.op = "verify" =>
       /\ r.hit # 0 => r.hit \in DOMAIN otp /\ otp[r.hit].app = r.of
       /\ \A k \in DOMAIN r.tries : r.tries[k] \in Nat
  /\ r.op = "approve" => CodeWasEntered(r.of)
  /\ r.op \in {"approve", "create"} => r.code \in TenantCodes \cup {None} /\ r.plan \in Plans
  /\ r.op \in {"plan", "count", "settings", "listing"} => r.of \in DOMAIN tenant
  /\ r.op = "plan" => r.plan \in Plans \cup {None}
  /\ r.op = "count" => r.what \in {"stores", "orders"} /\ r.read \in Nat
  /\ r.op = "settings" => r.new \in Platform!Settings
  /\ r.op = "listing" => r.to \in {"draft", "pending", "approved", "suspended"}

RequestsAreOfTenants ==
  /\ DOMAIN request = Workers
  /\ \A w \in Workers : IsTenantRequest(request[w])

(* An application that is verified, or was once, has its own code entered.  *)
OwnCodeEntered ==
  \A a \in DOMAIN app :
    app[a].status \in {"email_verified", "provisioned"}
         \/ app[a].tenant # 0 => CodeWasEntered(a)

TenantsInv ==
  /\ Platform!TenantsTypeOK
  /\ RequestsAreOfTenants
  /\ OwnCodeEntered

LEMMA TenantsInit == ASSUME Platform!TenantsParameters, Platform!Init PROVE TenantsInv
<1>1. Platform!TenantsTypeOK
  BY DEF Platform!Init, Platform!TenantsTypeOK, Platform!TenantsParameters
<1>2. RequestsAreOfTenants
  BY DEF Platform!Init, RequestsAreOfTenants, IsTenantRequest, Platform!Idle
<1>3. OwnCodeEntered
  BY DEF Platform!Init, OwnCodeEntered
<1> QED
  BY <1>1, <1>2, <1>3 DEF TenantsInv

(* Rows are never dropped, and a code that was entered stays so.            *)
TenantRowsStay ==
  /\ DOMAIN app \subseteq DOMAIN app'
  /\ DOMAIN tenant \subseteq DOMAIN tenant'
  /\ DOMAIN otp \subseteq DOMAIN otp'
  /\ \A k \in DOMAIN otp :
       otp'[k].app = otp[k].app /\ (otp[k].is = "used" => otp'[k].is = "used")

LEMMA TenantRequestStays ==
  ASSUME TenantRowsStay, NEW r, IsTenantRequest(r)
  PROVE  IsTenantRequest(r)'
<1>1. \A a : CodeWasEntered(a) => CodeWasEntered(a)'
  BY DEF CodeWasEntered, TenantRowsStay
<1> QED
  BY <1>1 DEF IsTenantRequest, TenantRowsStay

LEMMA EnteredStays == ASSUME TenantRowsStay, NEW a, CodeWasEntered(a) PROVE CodeWasEntered(a)'
BY DEF CodeWasEntered, TenantRowsStay

LEMMA TenantRequestsStay ==
  ASSUME RequestsAreOfTenants, TenantRowsStay, NEW w \in Workers, NEW r, IsTenantRequest(r)',
         request' = [request EXCEPT ![w] = r]
  PROVE  RequestsAreOfTenants'
<1>1. DOMAIN request' = Workers
  BY DEF RequestsAreOfTenants
<1>2. ASSUME NEW v \in Workers PROVE IsTenantRequest(request[v])' 
  <2>1. CASE v = w
    <3>1. request'[v] = r
      BY <2>1 DEF RequestsAreOfTenants
    <3>2. IsTenantRequest(r)' 
      OBVIOUS
    <3> QED
      BY <3>1, <3>2 DEF IsTenantRequest, CodeWasEntered
  <2>2. CASE v # w
    <3>1. request'[v] = request[v]
      BY <2>2 DEF RequestsAreOfTenants
    <3>2. PICK q : q = request[v]
      OBVIOUS
    <3>3. IsTenantRequest(q)'
      BY <3>2, TenantRequestStays DEF RequestsAreOfTenants
    <3> QED
      BY <3>1, <3>2, <3>3 DEF IsTenantRequest, CodeWasEntered
  <2> QED
    BY <2>1, <2>2
<1> QED
  BY <1>1, <1>2 DEF RequestsAreOfTenants

(* What the rows of the three tables hold.                                 *)
LEMMA TenantRowTypes ==
  ASSUME Platform!TenantsTypeOK
  PROVE  /\ DOMAIN app = 1..Len(app) /\ Len(app) \in Nat
         /\ DOMAIN otp = 1..Len(otp) /\ Len(otp) \in Nat
         /\ DOMAIN tenant = 1..Len(tenant) /\ Len(tenant) \in Nat
         /\ \A a \in DOMAIN app : app[a] \in Platform!Application
         /\ \A k \in DOMAIN otp : otp[k] \in Platform!Otp
         /\ \A t \in DOMAIN tenant : tenant[t] \in Platform!Tenant
<1>1. app \in Seq(Platform!Application) /\ otp \in Seq(Platform!Otp)
           /\ tenant \in Seq(Platform!Tenant)
  BY DEF Platform!TenantsTypeOK
<1>2. /\ DOMAIN app = 1..Len(app) /\ Len(app) \in Nat
      /\ DOMAIN otp = 1..Len(otp) /\ Len(otp) \in Nat
      /\ DOMAIN tenant = 1..Len(tenant) /\ Len(tenant) \in Nat
  BY <1>1
<1> QED
  BY <1>1, <1>2, ElementOfSeq

LEMMA NothingIsOfTenants == IsTenantRequest(Platform!Idle) /\ IsTenantRequest(Platform!Idle)'
BY DEF IsTenantRequest, Platform!Idle

LEMMA SameTenantRows ==
  ASSUME TenantsInv, UNCHANGED Platform!rows
  PROVE  TenantRowsStay /\ OwnCodeEntered'
         /\ (requests' \in 0..TenantRequests => Platform!TenantsTypeOK')
BY DEF Platform!rows, TenantsInv, TenantRowsStay, OwnCodeEntered, CodeWasEntered,
       Platform!TenantsTypeOK

LEMMA TenantBeginKeeps ==
  ASSUME Platform!TenantsParameters, TenantsInv, NEW w \in Workers,
         NEW r, IsTenantRequest(r), Platform!Begin(w, r)
  PROVE  TenantsInv'
<1>1. requests' \in 0..TenantRequests
  BY DEF Platform!Begin, TenantsInv, Platform!TenantsTypeOK, Platform!TenantsParameters
<1>2. TenantRowsStay /\ OwnCodeEntered' /\ Platform!TenantsTypeOK'
  BY <1>1, SameTenantRows DEF Platform!Begin
<1>3. IsTenantRequest(r)'
  BY <1>2, TenantRequestStays
<1>4. RequestsAreOfTenants'
  BY <1>2, <1>3, TenantRequestsStay DEF Platform!Begin, TenantsInv
<1> QED
  BY <1>2, <1>4 DEF TenantsInv

TenantBegins(w) ==
  \/ \E e \in Emails, c \in TenantCodes \cup {None} : Platform!SubmitApplication(w, e, c)
  \/ \E a \in DOMAIN app :
       \/ Platform!RejectApplication(w, a)
       \/ \E k \in {0} \cup DOMAIN otp : Platform!VerifyApplication(w, a, k)
       \/ \E c \in TenantCodes \cup {None}, p \in Plans : Platform!ApproveApplication(w, a, c, p)
  \/ \E c \in TenantCodes, p \in Plans : Platform!DirectCreate(w, c, p)
  \/ \E t \in DOMAIN tenant :
       \/ \E p \in Plans \cup {None} : Platform!UpdatePlan(w, t, p)
       \/ \E what \in {"stores", "orders"} : Platform!Count(w, t, what)
       \/ \E what \in {"modules", "line", "approval"}, is \in BOOLEAN :
            Platform!UpdateSettings(w, t, what, is)
       \/ \E move \in Platform!Moves : Platform!UpdateListing(w, t, move)

LEMMA TenantBeginsKeep ==
  ASSUME Platform!TenantsParameters, TenantsInv, NEW w \in Workers, TenantBegins(w)
  PROVE  TenantsInv'
<1>1. CASE \E e \in Emails, c \in TenantCodes \cup {None} : Platform!SubmitApplication(w, e, c)
  <2>1. PICK e \in Emails, c \in TenantCodes \cup {None} : Platform!SubmitApplication(w, e, c)
    BY <1>1
  <2>2. IsTenantRequest([op |-> "submit", email |-> e, code |-> c])
    BY DEF IsTenantRequest
  <2> QED
    BY <2>1, <2>2, TenantBeginKeeps DEF Platform!SubmitApplication
<1>2. CASE \E a \in DOMAIN app : Platform!RejectApplication(w, a)
  <2>1. PICK a \in DOMAIN app : Platform!RejectApplication(w, a)
    BY <1>2
  <2>2. IsTenantRequest([op |-> "reject", of |-> a])
    BY DEF IsTenantRequest
  <2> QED
    BY <2>1, <2>2, TenantBeginKeeps DEF Platform!RejectApplication
<1>3. CASE \E a \in DOMAIN app, k \in {0} \cup DOMAIN otp : Platform!VerifyApplication(w, a, k)
  <2>1. PICK a \in DOMAIN app, k \in {0} \cup DOMAIN otp : Platform!VerifyApplication(w, a, k)
    BY <1>3
  <2> DEFINE attempted == {j \in Platform!Looked(Platform!CodesOf(a)) :
                            otp[j].is = "sent" /\ otp[j].attempts < MaxAttempts}
             r == [op |-> "verify", of |-> a, status |-> app[a].status,
                   hit |-> IF k \in attempted THEN k ELSE 0,
                   tries |-> [j \in {i \in attempted : k \in attempted => i > k} |->
                                otp[j].attempts + 1]]
  <2>2. \A j \in attempted : j \in DOMAIN otp /\ otp[j].app = a
    BY DEF Platform!Looked, Platform!CodesOf
  <2>3. \A j \in attempted : otp[j].attempts + 1 \in Nat
    BY <2>2, TenantRowTypes DEF TenantsInv, Platform!Otp
  <2>4. Platform!Begin(w, r)
    BY <2>1 DEF Platform!VerifyApplication
  <2> HIDE DEF attempted
  <2>5. IsTenantRequest(r)
    BY <2>2, <2>3 DEF IsTenantRequest
  <2> HIDE DEF r
  <2> QED
    BY <2>4, <2>5, TenantBeginKeeps
<1>4. CASE \E a \in DOMAIN app, c \in TenantCodes \cup {None}, p \in Plans :
             Platform!ApproveApplication(w, a, c, p)
  <2>1. PICK a \in DOMAIN app, c \in TenantCodes \cup {None}, p \in Plans :
          Platform!ApproveApplication(w, a, c, p)
    BY <1>4
  <2>2. CodeWasEntered(a)
    BY <2>1 DEF Platform!ApproveApplication, TenantsInv, OwnCodeEntered
  <2>3. IsTenantRequest([op |-> "approve", of |-> a, code |-> c, plan |-> p])
    BY <2>2 DEF IsTenantRequest
  <2> QED
    BY <2>1, <2>3, TenantBeginKeeps DEF Platform!ApproveApplication
<1>5. CASE \E c \in TenantCodes, p \in Plans : Platform!DirectCreate(w, c, p)
  <2>1. PICK c \in TenantCodes, p \in Plans : Platform!DirectCreate(w, c, p)
    BY <1>5
  <2>2. IsTenantRequest([op |-> "create", code |-> c, plan |-> p])
    BY DEF IsTenantRequest
  <2> QED
    BY <2>1, <2>2, TenantBeginKeeps DEF Platform!DirectCreate
<1>6. CASE \E t \in DOMAIN tenant, p \in Plans \cup {None} : Platform!UpdatePlan(w, t, p)
  <2>1. PICK t \in DOMAIN tenant, p \in Plans \cup {None} : Platform!UpdatePlan(w, t, p)
    BY <1>6
  <2>2. IsTenantRequest([op |-> "plan", of |-> t, plan |-> p, read |-> tenant[t].plan,
                         active |-> Platform!Active(t)])
    BY DEF IsTenantRequest
  <2> QED
    BY <2>1, <2>2, TenantBeginKeeps DEF Platform!UpdatePlan
<1>7. CASE \E t \in DOMAIN tenant, what \in {"stores", "orders"} : Platform!Count(w, t, what)
  <2>1. PICK t \in DOMAIN tenant, what \in {"stores", "orders"} : Platform!Count(w, t, what)
    BY <1>7
  <2>2. tenant[t].orders \in Nat
    BY TenantRowTypes DEF TenantsInv, Platform!Tenant
  <2>3. IsTenantRequest([op |-> "count", of |-> t, what |-> what, read |-> tenant[t].orders])
    BY <2>2 DEF IsTenantRequest
  <2> QED
    BY <2>1, <2>3, TenantBeginKeeps DEF Platform!Count
<1>8. CASE \E t \in DOMAIN tenant, what \in {"modules", "line", "approval"}, is \in BOOLEAN :
             Platform!UpdateSettings(w, t, what, is)
  <2>1. PICK t \in DOMAIN tenant, what \in {"modules", "line", "approval"}, is \in BOOLEAN :
          Platform!UpdateSettings(w, t, what, is)
    BY <1>8
  <2>2. tenant[t].settings \in Platform!Settings
    BY TenantRowTypes DEF TenantsInv, Platform!Tenant
  <2>3. [tenant[t].settings EXCEPT ![what] = is] \in Platform!Settings
    BY <2>2 DEF Platform!Settings
  <2>4. IsTenantRequest([op |-> "settings", of |-> t, read |-> tenant[t].settings,
                         new |-> [tenant[t].settings EXCEPT ![what] = is]])
    BY <2>3 DEF IsTenantRequest
  <2> QED
    BY <2>1, <2>4, TenantBeginKeeps DEF Platform!UpdateSettings
<1>9. CASE \E t \in DOMAIN tenant, move \in Platform!Moves : Platform!UpdateListing(w, t, move)
  <2>1. PICK t \in DOMAIN tenant, move \in Platform!Moves : Platform!UpdateListing(w, t, move)
    BY <1>9
  <2>2. move[2] \in {"draft", "pending", "approved", "suspended"}
    BY DEF Platform!Moves
  <2>3. IsTenantRequest([op |-> "listing", of |-> t, to |-> move[2], from |-> move[1]])
    BY <2>2 DEF IsTenantRequest
  <2> QED
    BY <2>1, <2>3, TenantBeginKeeps DEF Platform!UpdateListing
<1> QED
  BY <1>1, <1>2, <1>3, <1>4, <1>5, <1>6, <1>7, <1>8, <1>9 DEF TenantBegins

LEMMA TenantEndKeeps ==
  ASSUME TenantsInv, NEW w \in Workers, request' = [request EXCEPT ![w] = Platform!Idle],
         TenantRowsStay, Platform!TenantsTypeOK', OwnCodeEntered'
  PROVE  TenantsInv'
BY NothingIsOfTenants, TenantRequestsStay DEF TenantsInv

LEMMA TenantAbortKeeps ==
  ASSUME TenantsInv, NEW w \in Workers, Platform!Abort(w)
  PROVE  TenantsInv'
<1>1. requests' \in 0..TenantRequests
  BY DEF Platform!Abort, Platform!Done, TenantsInv, Platform!TenantsTypeOK
<1> QED
  BY <1>1, SameTenantRows, TenantEndKeeps DEF Platform!Abort, Platform!Done

(* A request that is refused its rows leaves the request of nobody else.    *)
LEMMA TenantIdleKeeps ==
  ASSUME TenantsInv, UNCHANGED request, TenantRowsStay, Platform!TenantsTypeOK', OwnCodeEntered'
  PROVE  TenantsInv'
<1>1. ASSUME NEW w \in Workers PROVE IsTenantRequest(request[w])'
  <2>1. PICK q : q = request[w]
    OBVIOUS
  <2>2. IsTenantRequest(q)'
    BY <2>1, TenantRequestStays DEF TenantsInv, RequestsAreOfTenants
  <2> QED
    BY <2>1, <2>2 DEF IsTenantRequest, CodeWasEntered
<1> QED
  BY <1>1 DEF TenantsInv, RequestsAreOfTenants

(* Code n + 1 of the table is sent for application a.                      *)
LEMMA SentKeeps ==
  ASSUME otp \in Seq(Platform!Otp), NEW a \in Nat \ {0},
         NEW email \in Emails, otp' = Platform!Sent(a, email)
  PROVE  /\ otp' \in Seq(Platform!Otp)
         /\ DOMAIN otp \subseteq DOMAIN otp'
         /\ \A k \in DOMAIN otp : otp'[k] = otp[k]
<1>1. [app |-> a, email |-> email, attempts |-> 0, is |-> "sent"] \in Platform!Otp
  BY DEF Platform!Otp
<1> QED
  BY <1>1, AppendProperties DEF Platform!Sent

LEMMA CommitSubmitKeeps ==
  ASSUME Platform!TenantsParameters, TenantsInv, NEW w \in Workers, Platform!CommitSubmit(w)
  PROVE  TenantsInv'
<1> DEFINE r == request[w]
           new == [email |-> r.email, code |-> r.code, status |-> "pending", tenant |-> 0]
<1>1. CASE r.code # None /\ \E a \in DOMAIN app : app[a].code = r.code
  BY <1>1, TenantAbortKeeps DEF Platform!CommitSubmit
<1>2. CASE ~(r.code # None /\ \E a \in DOMAIN app : app[a].code = r.code)
  <2>1. /\ app' = Append(app, new) /\ otp' = Platform!Sent(Len(app) + 1, r.email)
             /\ Platform!Done(w)
        /\ tenant' = tenant
    BY <1>2 DEF Platform!CommitSubmit
  <2>2. r.email \in Emails /\ r.code \in TenantCodes \cup {None}
    BY DEF Platform!CommitSubmit, Platform!Doing, TenantsInv, RequestsAreOfTenants,
           IsTenantRequest
  <2>3. new \in Platform!Application
    BY <2>2 DEF Platform!Application
  <2>4. app \in Seq(Platform!Application) /\ Len(app) \in Nat /\ otp \in Seq(Platform!Otp)
    BY DEF TenantsInv, Platform!TenantsTypeOK
  <2> HIDE DEF new
  <2>5. /\ app' \in Seq(Platform!Application) /\ Len(app') = Len(app) + 1
        /\ \A a \in DOMAIN app : app'[a] = app[a]
        /\ app'[Len(app) + 1] = new
    BY <2>1, <2>3, <2>4, AppendProperties
  <2>6. /\ otp' \in Seq(Platform!Otp) /\ DOMAIN otp \subseteq DOMAIN otp'
        /\ \A k \in DOMAIN otp : otp'[k] = otp[k]
    BY <2>1, <2>2, <2>4, SentKeeps
  <2>7. DOMAIN app = 1..Len(app) /\ DOMAIN app' = 1..(Len(app) + 1)
    BY <2>4, <2>5
  <2>8. TenantRowsStay
    BY <2>1, <2>4, <2>6, <2>7 DEF TenantRowsStay
  <2>9. \A a \in DOMAIN app' : a \in DOMAIN app \/ app'[a] = new
    BY <2>4, <2>5, <2>7
  <2>10. new.status = "pending" /\ new.tenant = 0
    BY DEF new
  <2>11. OwnCodeEntered'
    <3>1. ASSUME NEW a \in DOMAIN app',
                 app'[a].status \in {"email_verified", "provisioned"} \/ app'[a].tenant # 0
          PROVE  CodeWasEntered(a)'
      <4>1. a \in DOMAIN app /\ app'[a] = app[a]
        BY <2>5, <2>9, <2>10, <3>1
      <4> QED
        BY <2>8, <3>1, <4>1, EnteredStays DEF TenantsInv, OwnCodeEntered
    <3> QED
      BY <3>1 DEF OwnCodeEntered
  <2>12. requests' \in 0..TenantRequests
    BY <2>1 DEF Platform!Done, TenantsInv, Platform!TenantsTypeOK
  <2>13. \A a \in DOMAIN app' : app'[a].tenant \in 0..Len(tenant')
    BY <2>1, <2>5, <2>9, <2>10, TenantRowTypes DEF TenantsInv, Platform!TenantsTypeOK
  <2>14. Platform!TenantsTypeOK'
    BY <2>1, <2>5, <2>6, <2>12, <2>13 DEF TenantsInv, Platform!TenantsTypeOK
  <2> QED
    BY <2>1, <2>8, <2>11, <2>14, TenantEndKeeps DEF Platform!Done
<1> QED
  BY <1>1, <1>2

(* An application's row is written, and what it needs was entered before.  *)
LEMMA AppWritten ==
  ASSUME TenantsInv, NEW a \in DOMAIN app, NEW row \in Platform!Application,
         app' = [app EXCEPT ![a] = row],
         row.status \in {"email_verified", "provisioned"}
              \/ row.tenant # 0 => CodeWasEntered(a)',
         otp' \in Seq(Platform!Otp), DOMAIN otp' = DOMAIN otp,
         \A k \in DOMAIN otp :
           otp'[k].app = otp[k].app /\ (otp[k].is = "used" => otp'[k].is = "used"),
         tenant' \in Seq(Platform!Tenant), Len(tenant') >= Len(tenant), row.tenant \in 0..Len(tenant'),
         requests' \in 0..TenantRequests
  PROVE  TenantRowsStay /\ Platform!TenantsTypeOK' /\ OwnCodeEntered'
<1>1. /\ DOMAIN app = 1..Len(app) /\ Len(app) \in Nat /\ app \in Seq(Platform!Application)
      /\ DOMAIN tenant = 1..Len(tenant) /\ Len(tenant) \in Nat
      /\ \A b \in DOMAIN app : app[b].tenant \in 0..Len(tenant)
  BY TenantRowTypes DEF TenantsInv, Platform!TenantsTypeOK
<1>2. app' \in Seq(Platform!Application) /\ DOMAIN app' = DOMAIN app
  BY <1>1, ExceptSeq
<1>3. \A b \in DOMAIN app : app'[b] = IF b = a THEN row ELSE app[b]
  OBVIOUS
<1>4. DOMAIN tenant' = 1..Len(tenant') /\ Len(tenant') \in Nat
  OBVIOUS
<1>5. TenantRowsStay
  BY <1>1, <1>2, <1>4 DEF TenantRowsStay
<1>6. Platform!TenantsTypeOK'
  BY <1>1, <1>2, <1>3, <1>4 DEF Platform!TenantsTypeOK
<1>7. OwnCodeEntered'
  <2>1. ASSUME NEW b \in DOMAIN app',
               app'[b].status \in {"email_verified", "provisioned"} \/ app'[b].tenant # 0
        PROVE  CodeWasEntered(b)'
    <3>1. CASE b = a
      BY <1>2, <1>3, <2>1, <3>1
    <3>2. CASE b # a
      BY <1>2, <1>3, <1>5, <2>1, <3>2, EnteredStays DEF TenantsInv, OwnCodeEntered
    <3> QED
      BY <3>1, <3>2
  <2> QED
    BY <2>1 DEF OwnCodeEntered
<1> QED
  BY <1>5, <1>6, <1>7

(* Nothing is written but codes.                                           *)
LEMMA CodesWritten ==
  ASSUME TenantsInv, otp' \in Seq(Platform!Otp), DOMAIN otp \subseteq DOMAIN otp',
         \A k \in DOMAIN otp :
           otp'[k].app = otp[k].app /\ (otp[k].is = "used" => otp'[k].is = "used"),
         UNCHANGED <<app, tenant>>, requests' \in 0..TenantRequests
  PROVE  TenantRowsStay /\ Platform!TenantsTypeOK' /\ OwnCodeEntered'
<1>1. TenantRowsStay
  BY DEF TenantRowsStay
<1>2. Platform!TenantsTypeOK'
  BY DEF TenantsInv, Platform!TenantsTypeOK
<1>3. OwnCodeEntered'
  BY <1>1, EnteredStays DEF TenantsInv, OwnCodeEntered
<1> QED
  BY <1>1, <1>2, <1>3

(* Nothing is written but tenants.                                         *)
LEMMA TenantsWritten ==
  ASSUME TenantsInv, tenant' \in Seq(Platform!Tenant), Len(tenant') >= Len(tenant),
         UNCHANGED <<app, otp>>, requests' \in 0..TenantRequests
  PROVE  TenantRowsStay /\ Platform!TenantsTypeOK' /\ OwnCodeEntered'
<1>1. /\ DOMAIN tenant = 1..Len(tenant) /\ Len(tenant) \in Nat
      /\ DOMAIN tenant' = 1..Len(tenant') /\ Len(tenant') \in Nat
      /\ \A a \in DOMAIN app : app[a].tenant \in 0..Len(tenant)
  BY TenantRowTypes DEF TenantsInv, Platform!TenantsTypeOK
<1>2. TenantRowsStay
  BY <1>1 DEF TenantRowsStay
<1>3. Platform!TenantsTypeOK'
  BY <1>1 DEF TenantsInv, Platform!TenantsTypeOK
<1>4. OwnCodeEntered'
  BY <1>2, EnteredStays DEF TenantsInv, OwnCodeEntered
<1> QED
  BY <1>2, <1>3, <1>4

LEMMA OneTenantWritten ==
  ASSUME TenantsInv, NEW t \in DOMAIN tenant, NEW row \in Platform!Tenant,
         tenant' = [tenant EXCEPT ![t] = row],
         UNCHANGED <<app, otp>>, requests' \in 0..TenantRequests
  PROVE  TenantRowsStay /\ Platform!TenantsTypeOK' /\ OwnCodeEntered'
<1>1. tenant \in Seq(Platform!Tenant) /\ t \in 1..Len(tenant) /\ Len(tenant) \in Nat
  BY TenantRowTypes DEF TenantsInv, Platform!TenantsTypeOK
<1>2. tenant' \in Seq(Platform!Tenant) /\ Len(tenant') = Len(tenant)
  BY <1>1, ExceptSeq
<1> QED
  BY <1>1, <1>2, TenantsWritten

LEMMA ResendKeeps ==
  ASSUME Platform!TenantsParameters, TenantsInv, NEW w \in Workers,
         NEW a \in DOMAIN app, Platform!Resend(w, a)
  PROVE  TenantsInv'
<1>1. app[a].email \in Emails /\ a \in Nat \ {0} /\ otp \in Seq(Platform!Otp)
  BY TenantRowTypes DEF Platform!Application, TenantsInv, Platform!TenantsTypeOK
<1>2. /\ otp' \in Seq(Platform!Otp) /\ DOMAIN otp \subseteq DOMAIN otp'
      /\ \A k \in DOMAIN otp : otp'[k] = otp[k]
  BY <1>1, SentKeeps DEF Platform!Resend
<1>3. requests' \in 0..TenantRequests
  BY DEF Platform!Resend, Platform!AtOnce, TenantsInv, Platform!TenantsTypeOK,
         Platform!TenantsParameters
<1>4. TenantRowsStay /\ Platform!TenantsTypeOK' /\ OwnCodeEntered'
  BY <1>2, <1>3, CodesWritten DEF Platform!Resend
<1> QED
  BY <1>4, TenantIdleKeeps DEF Platform!Resend, Platform!AtOnce

LEMMA ExpireKeeps ==
  ASSUME TenantsInv, NEW k \in DOMAIN otp, Platform!Expire(k)
  PROVE  TenantsInv'
<1>1. otp \in Seq(Platform!Otp) /\ k \in 1..Len(otp) /\ otp[k] \in Platform!Otp
           /\ DOMAIN otp = 1..Len(otp)
  BY TenantRowTypes DEF TenantsInv, Platform!TenantsTypeOK
<1>2. PICK row : row = [otp[k] EXCEPT !.is = "expired"]
  OBVIOUS
<1>3. row \in Platform!Otp /\ row.app = otp[k].app
  BY <1>1, <1>2 DEF Platform!Otp
<1>4. otp' = [otp EXCEPT ![k] = row]
  BY <1>2 DEF Platform!Expire
<1>5. otp' \in Seq(Platform!Otp) /\ DOMAIN otp' = DOMAIN otp
  BY <1>1, <1>3, <1>4, ExceptSeq
<1>6. \A j \in DOMAIN otp : otp'[j] = IF j = k THEN row ELSE otp[j]
  BY <1>4
<1>7. otp[k].is = "sent" /\ UNCHANGED <<app, tenant, request>>
           /\ requests' \in 0..TenantRequests
  BY DEF Platform!Expire, TenantsInv, Platform!TenantsTypeOK
<1>8. TenantRowsStay /\ Platform!TenantsTypeOK' /\ OwnCodeEntered'
  BY <1>3, <1>5, <1>6, <1>7, CodesWritten
<1> QED
  BY <1>7, <1>8, TenantIdleKeeps

LEMMA CommitVerifyKeeps ==
  ASSUME TenantsInv, NEW w \in Workers, Platform!CommitVerify(w)
  PROVE  TenantsInv'
<1>1. PICK r : r = request[w]
  OBVIOUS
<1>2. r.op = "verify" /\ IsTenantRequest(r)
  BY <1>1 DEF Platform!CommitVerify, Platform!Doing, TenantsInv, RequestsAreOfTenants
<1>3. /\ r.of \in DOMAIN app
      /\ r.hit # 0 => r.hit \in DOMAIN otp /\ otp[r.hit].app = r.of
      /\ \A k \in DOMAIN r.tries : r.tries[k] \in Nat
  BY <1>2 DEF IsTenantRequest
<1>4. /\ otp' = [k \in DOMAIN otp |->
           IF k = r.hit THEN [otp[k] EXCEPT !.is = "used"]
           ELSE IF k \in DOMAIN r.tries /\ r.hit # 0
                THEN [otp[k] EXCEPT !.attempts = r.tries[k]] ELSE otp[k]]
      /\ app' = IF r.hit # 0 /\ r.status = "pending"
                THEN [app EXCEPT ![r.of].status = "email_verified"] ELSE app
      /\ Platform!Done(w) /\ UNCHANGED tenant
  BY <1>1 DEF Platform!CommitVerify
<1>5. DOMAIN otp' = DOMAIN otp /\ DOMAIN otp = 1..Len(otp) /\ Len(otp) \in Nat
  BY <1>4, TenantRowTypes DEF TenantsInv
<1>6. ASSUME NEW k \in DOMAIN otp
      PROVE  /\ otp'[k] \in Platform!Otp /\ otp'[k].app = otp[k].app
             /\ otp[k].is = "used" => otp'[k].is = "used"
             /\ k = r.hit => otp'[k].is = "used"
  <2>1. otp[k] \in Platform!Otp
    BY TenantRowTypes DEF TenantsInv
  <2>2. CASE k = r.hit
    <3>1. otp'[k] = [otp[k] EXCEPT !.is = "used"]
      BY <1>4, <2>2
    <3> QED
      BY <2>1, <3>1 DEF Platform!Otp
  <2>3. CASE k # r.hit /\ k \in DOMAIN r.tries /\ r.hit # 0
    <3>1. otp'[k] = [otp[k] EXCEPT !.attempts = r.tries[k]]
      BY <1>4, <2>3
    <3> QED
      BY <1>3, <2>1, <2>3, <3>1 DEF Platform!Otp
  <2>4. CASE k # r.hit /\ ~(k \in DOMAIN r.tries /\ r.hit # 0)
    <3>1. otp'[k] = otp[k]
      BY <1>4, <2>4
    <3> QED
      BY <2>1, <2>4, <3>1
  <2> QED
    BY <2>2, <2>3, <2>4
<1>7. otp' \in Seq(Platform!Otp)
  <2>1. otp' \in [1..Len(otp) -> Platform!Otp]
    BY <1>4, <1>5, <1>6
  <2> QED
    BY <1>5, <2>1, SeqDef
<1>8. requests' \in 0..TenantRequests /\ tenant' \in Seq(Platform!Tenant) /\ Len(tenant) \in Nat
  BY <1>4 DEF Platform!Done, TenantsInv, Platform!TenantsTypeOK
<1>9. CASE r.hit # 0 /\ r.status = "pending"
  <2>1. PICK row : row = [app[r.of] EXCEPT !.status = "email_verified"]
    OBVIOUS
  <2>2. app[r.of] \in Platform!Application /\ app[r.of].tenant \in 0..Len(tenant)
    BY <1>3, TenantRowTypes DEF TenantsInv, Platform!TenantsTypeOK
  <2>3. row \in Platform!Application /\ row.tenant = app[r.of].tenant
    BY <2>1, <2>2 DEF Platform!Application
  <2>4. app' = [app EXCEPT ![r.of] = row]
    BY <1>4, <1>9, <2>1
  <2>5. CodeWasEntered(r.of)'
    BY <1>3, <1>5, <1>6, <1>9 DEF CodeWasEntered
  <2>6. /\ \A k \in DOMAIN otp :
             otp'[k].app = otp[k].app /\ (otp[k].is = "used" => otp'[k].is = "used")
        /\ Len(tenant') >= Len(tenant) /\ row.tenant \in 0..Len(tenant')
    BY <1>4, <1>6, <1>8, <2>2, <2>3
  <2>7. TenantRowsStay /\ Platform!TenantsTypeOK' /\ OwnCodeEntered'
    BY <1>3, <1>5, <1>7, <1>8, <2>3, <2>4, <2>5, <2>6, AppWritten
  <2> QED
    BY <1>4, <2>7, TenantEndKeeps DEF Platform!Done
<1>10. CASE ~(r.hit # 0 /\ r.status = "pending")
  <2>1. UNCHANGED <<app, tenant>>
    BY <1>4, <1>10
  <2>2. TenantRowsStay /\ Platform!TenantsTypeOK' /\ OwnCodeEntered'
    BY <1>5, <1>6, <1>7, <1>8, <2>1, CodesWritten
  <2> QED
    BY <1>4, <2>2, TenantEndKeeps DEF Platform!Done
<1> QED
  BY <1>9, <1>10

LEMMA NewTenantType ==
  ASSUME NEW chosen \in TenantCodes \cup {None}, NEW plan \in Plans
  PROVE  Platform!NewTenant(chosen, plan) \in Platform!Tenant
<1>1. <<[plan |-> plan, active |-> TRUE]>> \in Seq([plan : Plans, active : BOOLEAN])
  OBVIOUS
<1>2. [modules |-> FALSE, line |-> FALSE, approval |-> FALSE] \in Platform!Settings
  BY DEF Platform!Settings
<1> QED
  BY <1>1, <1>2 DEF Platform!NewTenant, Platform!Tenant

LEMMA ProvisionKeeps ==
  ASSUME TenantsInv, NEW w \in Workers, Platform!Provision(w)
  PROVE  TenantsInv'
<1>1. PICK r : r = request[w]
  OBVIOUS
<1>2. r.op \in {"approve", "create"} /\ IsTenantRequest(r)
  BY <1>1 DEF Platform!Provision, Platform!Doing, TenantsInv, RequestsAreOfTenants
<1>3. /\ r.op = "approve" => r.of \in DOMAIN app /\ CodeWasEntered(r.of)
      /\ r.code \in TenantCodes \cup {None} /\ r.plan \in Plans
  BY <1>2 DEF IsTenantRequest
<1>4. CASE Platform!CodeTaken(r.code)
  BY <1>1, <1>4, TenantAbortKeeps DEF Platform!Provision
<1>5. CASE ~Platform!CodeTaken(r.code)
  <2>1. /\ tenant' = Append(tenant, Platform!NewTenant(r.code, r.plan))
        /\ app' = IF r.op = "create" THEN app
                  ELSE [app EXCEPT ![r.of].status = "provisioned",
                                   ![r.of].tenant = Len(tenant) + 1]
        /\ Platform!Done(w) /\ UNCHANGED otp
    BY <1>1, <1>5 DEF Platform!Provision
  <2>2. tenant \in Seq(Platform!Tenant) /\ otp \in Seq(Platform!Otp) /\ Len(tenant) \in Nat
    BY DEF TenantsInv, Platform!TenantsTypeOK
  <2>3. tenant' \in Seq(Platform!Tenant) /\ Len(tenant') = Len(tenant) + 1
    BY <1>3, <2>1, <2>2, NewTenantType, AppendProperties
  <2>4. requests' \in 0..TenantRequests
    BY <2>1 DEF Platform!Done, TenantsInv, Platform!TenantsTypeOK
  <2>5. CASE r.op = "create"
    <3>1. TenantRowsStay /\ Platform!TenantsTypeOK' /\ OwnCodeEntered'
      BY <2>1, <2>2, <2>3, <2>4, <2>5, TenantsWritten
    <3> QED
      BY <2>1, <3>1, TenantEndKeeps DEF Platform!Done
  <2>6. CASE r.op = "approve"
    <3>1. r.of \in DOMAIN app /\ CodeWasEntered(r.of) /\ app[r.of] \in Platform!Application
      BY <1>3, <2>6, TenantRowTypes DEF TenantsInv
    <3>2. PICK row : row = [app[r.of] EXCEPT !.status = "provisioned", !.tenant = Len(tenant) + 1]
      OBVIOUS
    <3>3. row \in Platform!Application /\ row.tenant = Len(tenant) + 1
      <4>1. /\ DOMAIN app[r.of] = {"email", "code", "tenant", "status"}
            /\ app[r.of].email \in Emails /\ app[r.of].code \in TenantCodes \cup {None}
        BY <3>1 DEF Platform!Application
      <4>2. row = [email |-> app[r.of].email, code |-> app[r.of].code,
                   status |-> "provisioned", tenant |-> Len(tenant) + 1]
        BY <3>1, <3>2, <4>1 DEF Platform!Application
      <4> QED
        BY <2>2, <4>1, <4>2 DEF Platform!Application
    <3>4. app' = [app EXCEPT ![r.of] = row]
      BY <2>1, <2>6, <3>1, <3>2
    <3>5. CodeWasEntered(r.of)'
      <4>1. app' = [app EXCEPT ![r.of] = row] /\ otp' = otp
        BY <2>1, <3>4
      <4> QED
        BY <3>1, <4>1 DEF CodeWasEntered
    <3>6. /\ otp' \in Seq(Platform!Otp) /\ DOMAIN otp' = DOMAIN otp
          /\ \A k \in DOMAIN otp :
               otp'[k].app = otp[k].app /\ (otp[k].is = "used" => otp'[k].is = "used")
          /\ Len(tenant') >= Len(tenant) /\ row.tenant \in 0..Len(tenant')
      BY <2>1, <2>2, <2>3, <3>3
    <3>7. TenantRowsStay /\ Platform!TenantsTypeOK' /\ OwnCodeEntered'
      BY <2>3, <2>4, <3>1, <3>3, <3>4, <3>5, <3>6, AppWritten
    <3> QED
      BY <2>1, <3>7, TenantEndKeeps DEF Platform!Done
  <2> QED
    BY <1>2, <2>5, <2>6
<1> QED
  BY <1>4, <1>5

LEMMA CommitRejectKeeps ==
  ASSUME TenantsInv, NEW w \in Workers, Platform!CommitReject(w)
  PROVE  TenantsInv'
<1>1. PICK a : a = request[w].of
  OBVIOUS
<1>2. a \in DOMAIN app
  BY <1>1
     DEF Platform!CommitReject, Platform!Doing, TenantsInv, RequestsAreOfTenants,
         IsTenantRequest
<1>3. app[a] \in Platform!Application /\ app[a].tenant \in 0..Len(tenant)
  BY <1>2, TenantRowTypes DEF TenantsInv, Platform!TenantsTypeOK
<1>4. PICK row : row = [app[a] EXCEPT !.status = "rejected"]
  OBVIOUS
<1>5. row \in Platform!Application /\ row.status = "rejected" /\ row.tenant = app[a].tenant
  BY <1>3, <1>4 DEF Platform!Application
<1>6. app' = [app EXCEPT ![a] = row] /\ UNCHANGED <<otp, tenant>> /\ Platform!Done(w)
  BY <1>1, <1>4 DEF Platform!CommitReject
<1>7. requests' \in 0..TenantRequests /\ tenant' \in Seq(Platform!Tenant)
           /\ otp' \in Seq(Platform!Otp)
      /\ Len(tenant) \in Nat
  BY <1>6 DEF Platform!Done, TenantsInv, Platform!TenantsTypeOK
<1>8. row.tenant # 0 => CodeWasEntered(a)'
  BY <1>2, <1>5, <1>6 DEF TenantsInv, OwnCodeEntered, CodeWasEntered
<1>9. /\ DOMAIN otp' = DOMAIN otp
      /\ \A k \in DOMAIN otp :
           otp'[k].app = otp[k].app /\ (otp[k].is = "used" => otp'[k].is = "used")
      /\ Len(tenant') >= Len(tenant) /\ row.tenant \in 0..Len(tenant')
  BY <1>3, <1>5, <1>6, <1>7
<1>10. TenantRowsStay /\ Platform!TenantsTypeOK' /\ OwnCodeEntered'
  BY <1>2, <1>5, <1>6, <1>7, <1>8, <1>9, AppWritten
<1> QED
  BY <1>6, <1>10, TenantEndKeeps DEF Platform!Done

Subs == Seq([plan : Plans, active : BOOLEAN])

LEMMA SubscriptionsWritten ==
  ASSUME NEW subs \in Subs, NEW active, NEW plan \in Plans \cup {None}
  PROVE  [n \in DOMAIN subs |->
            IF n \notin active THEN subs[n]
            ELSE IF plan = None THEN [subs[n] EXCEPT !.active = FALSE]
            ELSE [subs[n] EXCEPT !.plan = plan]] \in Subs
<1> DEFINE Sub == [plan : Plans, active : BOOLEAN]
           new == [n \in DOMAIN subs |->
                     IF n \notin active THEN subs[n]
                     ELSE IF plan = None THEN [subs[n] EXCEPT !.active = FALSE]
                     ELSE [subs[n] EXCEPT !.plan = plan]]
<1>1. DOMAIN subs = 1..Len(subs) /\ Len(subs) \in Nat /\ \A n \in DOMAIN subs : subs[n] \in Sub
  BY ElementOfSeq, LenProperties DEF Subs
<1>2. \A n \in DOMAIN subs : new[n] \in Sub
  BY <1>1
<1>3. new \in [1..Len(subs) -> Sub]
  BY <1>1, <1>2
<1> QED
  BY <1>1, <1>3, SeqDef DEF Subs

LEMMA CommitPlanKeeps ==
  ASSUME TenantsInv, NEW w \in Workers, Platform!CommitPlan(w)
  PROVE  TenantsInv'
<1>1. PICK r : r = request[w]
  OBVIOUS
<1>2. r.of \in DOMAIN tenant /\ r.plan \in Plans \cup {None}
  BY <1>1
     DEF Platform!CommitPlan, Platform!Doing, TenantsInv, RequestsAreOfTenants,
         IsTenantRequest
<1>3. PICK t : t = tenant[r.of]
  OBVIOUS
<1>4. t \in Platform!Tenant
  BY <1>2, <1>3, TenantRowTypes DEF TenantsInv
<1>5. PICK plan : plan = IF r.plan = r.read THEN t.plan ELSE r.plan
  OBVIOUS
<1>6. PICK subs : subs =
        IF r.active # {}
        THEN [n \in DOMAIN t.subs |->
               IF n \notin r.active THEN t.subs[n]
               ELSE IF r.plan = None THEN [t.subs[n] EXCEPT !.active = FALSE]
               ELSE [t.subs[n] EXCEPT !.plan = r.plan]]
        ELSE IF r.plan = None THEN t.subs
        ELSE Append(t.subs, [plan |-> r.plan, active |-> TRUE])
  OBVIOUS
<1>7. PICK row : row = [t EXCEPT !.plan = plan, !.subs = subs]
  OBVIOUS
<1>8. tenant' = [tenant EXCEPT ![r.of] = row]
  <2>1. tenant' = [tenant EXCEPT
          ![r.of].plan = IF r.plan = r.read THEN @ ELSE r.plan,
          ![r.of].subs =
            IF r.active # {}
            THEN [n \in DOMAIN @ |->
                   IF n \notin r.active THEN @[n]
                   ELSE IF r.plan = None THEN [@[n] EXCEPT !.active = FALSE]
                   ELSE [@[n] EXCEPT !.plan = r.plan]]
            ELSE IF r.plan = None THEN @
            ELSE Append(@, [plan |-> r.plan, active |-> TRUE])]
    BY <1>1 DEF Platform!CommitPlan
  <2>2. tenant' = [tenant EXCEPT ![r.of] = [tenant[r.of] EXCEPT
          !.plan = IF r.plan = r.read THEN tenant[r.of].plan ELSE r.plan,
          !.subs =
            IF r.active # {}
            THEN [n \in DOMAIN tenant[r.of].subs |->
                   IF n \notin r.active THEN tenant[r.of].subs[n]
                   ELSE IF r.plan = None THEN [tenant[r.of].subs[n] EXCEPT !.active = FALSE]
                   ELSE [tenant[r.of].subs[n] EXCEPT !.plan = r.plan]]
            ELSE IF r.plan = None THEN tenant[r.of].subs
            ELSE Append(tenant[r.of].subs, [plan |-> r.plan, active |-> TRUE])]]
    BY <1>2, <1>3, <1>4, <2>1 DEF Platform!Tenant
  <2> QED
    BY <1>2, <1>3, <1>5, <1>6, <1>7, <2>2
<1>9. plan \in Plans \cup {None}
  BY <1>2, <1>4, <1>5 DEF Platform!Tenant
<1>10. subs \in Subs
  <2>1. t.subs \in Subs
    BY <1>4 DEF Platform!Tenant, Subs
  <2>2. r.plan # None => Append(t.subs, [plan |-> r.plan, active |-> TRUE]) \in Subs
    BY <1>2, <2>1, AppendProperties DEF Subs
  <2>3. CASE r.active # {}
    <3>1. subs = [n \in DOMAIN t.subs |->
                   IF n \notin r.active THEN t.subs[n]
                   ELSE IF r.plan = None THEN [t.subs[n] EXCEPT !.active = FALSE]
                   ELSE [t.subs[n] EXCEPT !.plan = r.plan]]
      BY <1>6, <2>3
    <3> QED
      BY <1>2, <2>1, <3>1, SubscriptionsWritten
  <2>4. CASE r.active = {}
    BY <1>6, <2>1, <2>2, <2>4
  <2> QED
    BY <2>3, <2>4
<1>11. row \in Platform!Tenant
  BY <1>4, <1>7, <1>9, <1>10 DEF Platform!Tenant, Subs
<1>12. UNCHANGED <<app, otp>> /\ Platform!Done(w) /\ requests' \in 0..TenantRequests
  BY DEF Platform!CommitPlan, Platform!Done, TenantsInv, Platform!TenantsTypeOK
<1>13. TenantRowsStay /\ Platform!TenantsTypeOK' /\ OwnCodeEntered'
  BY <1>2, <1>8, <1>11, <1>12, OneTenantWritten
<1> QED
  BY <1>12, <1>13, TenantEndKeeps DEF Platform!Done

(* One column of a tenant is written.                                      *)
LEMMA UpdateStatusKeeps ==
  ASSUME Platform!TenantsParameters, TenantsInv, NEW w \in Workers, NEW t \in DOMAIN tenant,
         Platform!UpdateStatus(w, t)
  PROVE  TenantsInv'
<1>1. PICK s \in {"active", "suspended"} : tenant' = [tenant EXCEPT ![t].status = s]
  BY DEF Platform!UpdateStatus
<1>2. PICK row : row = [tenant[t] EXCEPT !.status = s]
  OBVIOUS
<1>3. row \in Platform!Tenant /\ tenant' = [tenant EXCEPT ![t] = row]
  BY <1>1, <1>2, TenantRowTypes DEF TenantsInv, Platform!Tenant
<1>4. UNCHANGED <<app, otp, request>> /\ requests' \in 0..TenantRequests
  BY DEF Platform!UpdateStatus, Platform!AtOnce, TenantsInv, Platform!TenantsTypeOK,
         Platform!TenantsParameters
<1> QED
  BY <1>3, <1>4, OneTenantWritten, TenantIdleKeeps

LEMMA DeleteStoreKeeps ==
  ASSUME Platform!TenantsParameters, TenantsInv, NEW w \in Workers, NEW t \in DOMAIN tenant,
         Platform!DeleteStore(w, t)
  PROVE  TenantsInv'
<1>1. PICK row : row = [tenant[t] EXCEPT !.stores = tenant[t].stores - 1]
  OBVIOUS
<1>2. tenant[t] \in Platform!Tenant /\ tenant[t].stores > 0
  BY TenantRowTypes DEF TenantsInv, Platform!DeleteStore
<1>3. row \in Platform!Tenant
  BY <1>1, <1>2 DEF Platform!Tenant
<1>4. tenant' = [tenant EXCEPT ![t] = row]
  BY <1>1 DEF Platform!DeleteStore
<1>5. UNCHANGED <<app, otp, request>> /\ requests' \in 0..TenantRequests
  BY DEF Platform!DeleteStore, Platform!AtOnce, TenantsInv, Platform!TenantsTypeOK,
         Platform!TenantsParameters
<1> QED
  BY <1>3, <1>4, <1>5, OneTenantWritten, TenantIdleKeeps

LEMMA NewMonthKeeps ==
  ASSUME TenantsInv, NEW t \in DOMAIN tenant, Platform!NewMonth(t)
  PROVE  TenantsInv'
<1>1. PICK row : row = [tenant[t] EXCEPT !.orders = 0]
  OBVIOUS
<1>2. row \in Platform!Tenant /\ tenant' = [tenant EXCEPT ![t] = row]
  BY <1>1, TenantRowTypes DEF TenantsInv, Platform!Tenant, Platform!NewMonth
<1>3. UNCHANGED <<app, otp, request>> /\ requests' \in 0..TenantRequests
  BY DEF Platform!NewMonth, TenantsInv, Platform!TenantsTypeOK
<1> QED
  BY <1>2, <1>3, OneTenantWritten, TenantIdleKeeps

LEMMA CommitCountKeeps ==
  ASSUME TenantsInv, NEW w \in Workers, Platform!CommitCount(w)
  PROVE  TenantsInv'
<1>1. PICK r : r = request[w]
  OBVIOUS
<1>2. r.of \in DOMAIN tenant /\ r.what \in {"stores", "orders"} /\ r.read \in Nat
  BY <1>1
     DEF Platform!CommitCount, Platform!Doing, TenantsInv, RequestsAreOfTenants,
         IsTenantRequest
<1>3. CASE r.what = "orders" /\ r.read = 0 /\ tenant[r.of].orders # 0
  BY <1>1, <1>3, TenantAbortKeeps DEF Platform!CommitCount
<1>4. CASE ~(r.what = "orders" /\ r.read = 0 /\ tenant[r.of].orders # 0)
  <2>1. /\ tenant' = [tenant EXCEPT ![r.of][r.what] =
             IF r.what = "stores" THEN @ + 1 ELSE r.read + 1]
        /\ Platform!Done(w) /\ UNCHANGED <<app, otp>>
    BY <1>1, <1>4 DEF Platform!CommitCount
  <2>2. PICK row : row = [tenant[r.of] EXCEPT ![r.what] =
             IF r.what = "stores" THEN tenant[r.of][r.what] + 1 ELSE r.read + 1]
    OBVIOUS
  <2>3. tenant' = [tenant EXCEPT ![r.of] = row]
    BY <1>2, <2>1, <2>2
  <2>4. tenant[r.of] \in Platform!Tenant
    BY <1>2, TenantRowTypes DEF TenantsInv
  <2>5. row \in Platform!Tenant
    <3>1. CASE r.what = "stores"
      BY <2>2, <2>4, <3>1 DEF Platform!Tenant
    <3>2. CASE r.what = "orders"
      BY <1>2, <2>2, <2>4, <3>2 DEF Platform!Tenant
    <3> QED
      BY <1>2, <3>1, <3>2
  <2>6. requests' \in 0..TenantRequests
    BY <2>1 DEF Platform!Done, TenantsInv, Platform!TenantsTypeOK
  <2>7. TenantRowsStay /\ Platform!TenantsTypeOK' /\ OwnCodeEntered'
    BY <1>2, <2>1, <2>3, <2>5, <2>6, OneTenantWritten
  <2> QED
    BY <2>1, <2>7, TenantEndKeeps DEF Platform!Done
<1> QED
  BY <1>3, <1>4

(* A column is written, or left as it is.                                  *)
LEMMA TenantMayWriteKeeps ==
  ASSUME TenantsInv, NEW w \in Workers, Platform!Done(w), UNCHANGED <<app, otp>>,
         NEW t \in DOMAIN tenant, NEW row \in Platform!Tenant,
         tenant' = tenant \/ tenant' = [tenant EXCEPT ![t] = row]
  PROVE  TenantsInv'
<1>1. requests' \in 0..TenantRequests
  BY DEF Platform!Done, TenantsInv, Platform!TenantsTypeOK
<1>2. CASE tenant' = tenant
  <2>1. UNCHANGED Platform!rows
    BY <1>2 DEF Platform!rows
  <2> QED
    BY <1>1, <2>1, SameTenantRows, TenantEndKeeps DEF Platform!Done
<1>3. CASE tenant' = [tenant EXCEPT ![t] = row]
  BY <1>1, <1>3, OneTenantWritten, TenantEndKeeps DEF Platform!Done
<1> QED
  BY <1>2, <1>3

LEMMA CommitSettingsKeeps ==
  ASSUME TenantsInv, NEW w \in Workers, Platform!CommitSettings(w)
  PROVE  TenantsInv'
<1>1. PICK r : r = request[w]
  OBVIOUS
<1>2. r.of \in DOMAIN tenant /\ r.new \in Platform!Settings
  BY <1>1
     DEF Platform!CommitSettings, Platform!Doing, TenantsInv, RequestsAreOfTenants,
         IsTenantRequest
<1>3. PICK row : row = [tenant[r.of] EXCEPT !.settings = r.new]
  OBVIOUS
<1>4. row \in Platform!Tenant
  BY <1>2, <1>3, TenantRowTypes DEF TenantsInv, Platform!Tenant
<1>5. tenant' = tenant \/ tenant' = [tenant EXCEPT ![r.of] = row]
  BY <1>1, <1>3 DEF Platform!CommitSettings
<1>6. Platform!Done(w) /\ UNCHANGED <<app, otp>>
  BY DEF Platform!CommitSettings
<1> QED
  BY <1>2, <1>4, <1>5, <1>6, TenantMayWriteKeeps

LEMMA CommitListingKeeps ==
  ASSUME TenantsInv, NEW w \in Workers, Platform!CommitListing(w)
  PROVE  TenantsInv'
<1>1. PICK r : r = request[w]
  OBVIOUS
<1>2. r.of \in DOMAIN tenant /\ r.to \in {"draft", "pending", "approved", "suspended"}
  BY <1>1
     DEF Platform!CommitListing, Platform!Doing, TenantsInv, RequestsAreOfTenants,
         IsTenantRequest
<1>3. PICK row : row = [tenant[r.of] EXCEPT !.listing = r.to]
  OBVIOUS
<1>4. row \in Platform!Tenant
  <2>1. tenant[r.of] \in Platform!Tenant
    BY <1>2, TenantRowTypes DEF TenantsInv
  <2>2. r.to \in {"none", "draft", "pending", "approved", "suspended"}
    BY <1>2
  <2> QED
    BY <1>3, <2>1, <2>2 DEF Platform!Tenant
<1>5. tenant' = tenant \/ tenant' = [tenant EXCEPT ![r.of] = row]
  BY <1>1, <1>3 DEF Platform!CommitListing
<1>6. Platform!Done(w) /\ UNCHANGED <<app, otp>>
  BY DEF Platform!CommitListing
<1> QED
  BY <1>2, <1>4, <1>5, <1>6, TenantMayWriteKeeps

LEMMA TenantsStep ==
  ASSUME Platform!TenantsParameters, TenantsInv, [Platform!Next]_Platform!tenantVars
  PROVE  TenantsInv'
<1>1. CASE \E k \in DOMAIN otp : Platform!Expire(k)
  BY <1>1, ExpireKeeps
<1>2. CASE \E t \in DOMAIN tenant : Platform!NewMonth(t)
  BY <1>2, NewMonthKeeps
<1>3. ASSUME NEW w \in Workers, TenantBegins(w) PROVE TenantsInv'
  BY <1>3, TenantBeginsKeep
<1>4. ASSUME NEW w \in Workers, \E a \in DOMAIN app : Platform!Resend(w, a) PROVE TenantsInv'
  BY <1>4, ResendKeeps
<1>5. ASSUME NEW w \in Workers,
             \E t \in DOMAIN tenant : Platform!UpdateStatus(w, t) \/ Platform!DeleteStore(w, t)
      PROVE  TenantsInv'
  BY <1>5, UpdateStatusKeeps, DeleteStoreKeeps
<1>6. ASSUME NEW w \in Workers,
             Platform!CommitSubmit(w) \/ Platform!CommitVerify(w)
                  \/ Platform!Provision(w) \/ Platform!CommitReject(w)
      PROVE  TenantsInv'
  BY <1>6, CommitSubmitKeeps, CommitVerifyKeeps, ProvisionKeeps, CommitRejectKeeps
<1>7. ASSUME NEW w \in Workers,
             Platform!CommitPlan(w) \/ Platform!CommitCount(w)
                  \/ Platform!CommitSettings(w) \/ Platform!CommitListing(w)
      PROVE  TenantsInv'
  BY <1>7, CommitPlanKeeps, CommitCountKeeps, CommitSettingsKeeps, CommitListingKeeps
<1>8. CASE UNCHANGED Platform!tenantVars
  <2>1. UNCHANGED Platform!rows /\ UNCHANGED request /\ requests' \in 0..TenantRequests
    BY <1>8 DEF Platform!tenantVars, Platform!rows, TenantsInv, Platform!TenantsTypeOK
  <2> QED
    BY <2>1, SameTenantRows, TenantIdleKeeps
<1> QED
  BY <1>1, <1>2, <1>3, <1>4, <1>5, <1>6, <1>7, <1>8 DEF Platform!Next, TenantBegins

(* A tenant came of an application whose own code was entered, whatever    *)
(* requests overlap (tenant_apply.py, platform.py); and the rows of the three *)
(* tables keep their types.                                                *)
THEOREM TenantsAlways ==
  ASSUME Platform!TenantsParameters
  PROVE  Platform!Spec => [](Platform!TenantWasVerified /\ Platform!TenantsTypeOK)
<1>1. Platform!Init => TenantsInv
  BY TenantsInit
<1>2. TenantsInv /\ [Platform!Next]_Platform!tenantVars => TenantsInv'
  BY TenantsStep
<1>3. TenantsInv => Platform!TenantWasVerified /\ Platform!TenantsTypeOK
  BY DEF TenantsInv, OwnCodeEntered, CodeWasEntered, Platform!TenantWasVerified
<1> QED
  BY <1>1, <1>2, <1>3, PTL DEF Platform!Spec

---------------------------------------------------------------------------
(* The back office, whose part never changes: a step is one of the part.   *)
LEMMA MembersStepIsOwn ==
  ASSUME BackOfficeNext \/ UNCHANGED backOfficeVars, part = "members"
  PROVE  part' = part /\ (People!Next \/ UNCHANGED People!membersVars)
<1>1. CASE BackOfficeNext
  BY <1>1 DEF BackOfficeNext
<1>2. CASE UNCHANGED backOfficeVars
  BY <1>2 DEF backOfficeVars
<1> QED
  BY <1>1, <1>2

LEMMA AccountsStepIsOwn ==
  ASSUME BackOfficeNext \/ UNCHANGED backOfficeVars, part = "accounts"
  PROVE  part' = part /\ (SignIns!Next \/ UNCHANGED SignIns!accountVars)
<1>1. CASE BackOfficeNext
  BY <1>1 DEF BackOfficeNext
<1>2. CASE UNCHANGED backOfficeVars
  BY <1>2 DEF backOfficeVars
<1> QED
  BY <1>1, <1>2

LEMMA TenantsStepIsOwn ==
  ASSUME BackOfficeNext \/ UNCHANGED backOfficeVars, part = "tenants"
  PROVE  part' = part /\ (Platform!Next \/ UNCHANGED Platform!tenantVars)
<1>1. CASE BackOfficeNext
  BY <1>1 DEF BackOfficeNext
<1>2. CASE UNCHANGED backOfficeVars
  BY <1>2 DEF backOfficeVars
<1> QED
  BY <1>1, <1>2

(* In the back office: a referral is entered for both, once, and who was   *)
(* not written to by two requests at once has the points of the ledger.    *)
THEOREM ReferralPaidOnceAlways == BackOfficeSpec => []ReferralPaidOnce
<1> DEFINE Inv == part = "members" => MembersInv /\ PointsInv
<1>1. BackOfficeInit => Inv
  BY MembersParametersHold, MembersInit, PointsInit DEF BackOfficeInit
<1>2. Inv /\ [BackOfficeNext]_backOfficeVars => Inv'
  <2> SUFFICES ASSUME Inv, [BackOfficeNext]_backOfficeVars, part' = "members"
               PROVE  MembersInv' /\ PointsInv'
    OBVIOUS
  <2>1. part = "members"
    BY DEF BackOfficeNext, backOfficeVars
  <2>2. [People!Next]_People!membersVars
    BY <2>1, MembersStepIsOwn
  <2> QED
    BY <2>1, <2>2, MembersParametersHold, MembersStep, PointsStep
<1>3. Inv => ReferralPaidOnce
  BY DEF MembersInv, PointsInv, People!ReferralPaidOnce, ReferralPaidOnce
<1> QED
  BY <1>1, <1>2, <1>3, PTL DEF BackOfficeSpec

(* In the back office: a till is signed out for a cause only.              *)
THEOREM SignedOutForCauseAlways == BackOfficeSpec => []SignedOutForCause
<1> DEFINE Inv == part = "accounts" => AccountsInv
<1>1. BackOfficeInit => Inv
  BY AccountsInit DEF BackOfficeInit
<1>2. Inv /\ [BackOfficeNext]_backOfficeVars => Inv'
  <2> SUFFICES ASSUME Inv, [BackOfficeNext]_backOfficeVars, part' = "accounts"
               PROVE  AccountsInv'
    OBVIOUS
  <2>1. part = "accounts"
    BY DEF BackOfficeNext, backOfficeVars
  <2>2. [SignIns!Next]_SignIns!accountVars
    BY <2>1, AccountsStepIsOwn
  <2> QED
    BY <2>1, <2>2, AccountsParametersHold, AccountsStep
<1>3. Inv => SignedOutForCause
  BY DEF AccountsInv, SignedOutForCause
<1> QED
  BY <1>1, <1>2, <1>3, PTL DEF BackOfficeSpec

(* In the back office: a tenant came of an application of its own code.    *)
THEOREM TenantWasVerifiedAlways == BackOfficeSpec => []TenantWasVerified
<1> DEFINE Inv == part = "tenants" => TenantsInv
<1>1. BackOfficeInit => Inv
  BY TenantsParametersHold, TenantsInit DEF BackOfficeInit
<1>2. Inv /\ [BackOfficeNext]_backOfficeVars => Inv'
  <2> SUFFICES ASSUME Inv, [BackOfficeNext]_backOfficeVars, part' = "tenants"
               PROVE  TenantsInv'
    OBVIOUS
  <2>1. part = "tenants"
    BY DEF BackOfficeNext, backOfficeVars
  <2>2. [Platform!Next]_Platform!tenantVars
    BY <2>1, TenantsStepIsOwn
  <2> QED
    BY <2>1, <2>2, TenantsParametersHold, TenantsStep
<1>3. Inv => TenantWasVerified
  BY DEF TenantsInv, OwnCodeEntered, CodeWasEntered, TenantWasVerified,
     Platform!TenantWasVerified
<1> QED
  BY <1>1, <1>2, <1>3, PTL DEF BackOfficeSpec

=============================================================================
