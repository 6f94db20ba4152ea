------------------------------ MODULE DeltaPull ------------------------------
(***************************************************************************)
(* The read path of the till: the pages of api/v1/sync.py, and the         *)
(* DeltaPuller of pos_app (lib/data/sync/delta_puller.dart) that stores    *)
(* their rows and the time up to which it has them.  One entity is         *)
(* modelled, products; the others differ in their columns.                 *)
(*                                                                         *)
(* updated_at is the time at which the transaction of the write began      *)
(* (func.now), so every row of one transaction has the same, and it is     *)
(* seen only once the transaction has committed.  A product's barcodes are *)
(* rows of their own, which its page carries: that they change does not    *)
(* write the product, whose updated_at stays.                              *)
(***************************************************************************)
EXTENDS Integers, FiniteSets, FiniteSetsExt

CONSTANTS
  Rows, Writers,
  Pulls,        \* the pulls that may be under way at once
  PageSize,     \* the limit of a page
  MaxClock,     \* bound on the clock
  MaxWrites,    \* bound on the transactions
  MaxPulls,     \* bound on the pulls
  None

VARIABLES
  clock,     \* the server's time
  server,    \* server[r]: the version of row r and its updated_at
  began,     \* began[w]: when the transaction of writer w began
  till,      \* till[r]: the version of row r that the till has
  since,     \* sync.since.products
  pull,      \* pull[p]: what pull p is at
  inFlight,  \* _pullInFlight
  excused,   \* the rows that a known gap may keep from the till
  writes, pulls

deltaVars == <<clock, server, began, till, since, pull, inFlight, excused, writes, pulls>>

backend == <<clock, server, began, writes>>

---------------------------------------------------------------------------
Time == 0..MaxClock

Version == 0..MaxWrites

(* What the constants stand for: a page has room for a row, and the absence *)
(* of a time or of a pull is neither.                                      *)
DeltaParameters ==
  /\ IsFiniteSet(Rows) /\ IsFiniteSet(Writers)
  /\ PageSize \in Nat \ {0} /\ MaxClock \in Nat \ {0} /\ MaxWrites \in Nat
  /\ None \notin Time /\ None \notin Pulls

Idle == [at |-> "idle"]

DeltaTypeOK ==
  /\ clock \in Time
  /\ server \in [Rows -> [v : Version, stamp : Time]]
  /\ began \in [Writers -> Time \cup {None}]
  /\ till \in [Rows -> Version]
  /\ since \in Time
  /\ \A p \in Pulls : pull[p].at \in {"idle", "begins", "asked", "answered", "applied"}
  /\ inFlight \in Pulls \cup {None}
  /\ excused \subseteq Rows

(* Version 0 is no row; the epoch is 0.                                    *)
Init ==
  /\ clock = 1
  /\ server = [r \in Rows |-> [v |-> 0, stamp |-> 0]]
  /\ began = [w \in Writers |-> None]
  /\ till = [r \in Rows |-> 0]
  /\ since = 0
  /\ pull = [p \in Pulls |-> Idle]
  /\ inFlight = None
  /\ excused = {}
  /\ writes = 0
  /\ pulls = 0

---------------------------------------------------------------------------
(* The server.                                                             *)

Tick ==
  /\ clock < MaxClock
  /\ clock' = clock + 1
  /\ UNCHANGED <<server, began, till, since, pull, inFlight, excused, writes, pulls>>

BeginWrite(w) ==
  /\ began[w] = None
  /\ writes < MaxWrites
  /\ began' = [began EXCEPT ![w] = clock]
  /\ writes' = writes + 1
  /\ UNCHANGED <<clock, server, till, since, pull, inFlight, excused, pulls>>

Answered(p) == pull[p].at \in {"answered", "applied"}

(* The till is, or will be, past time t.                                   *)
Past(t) == t <= since \/ \E p \in Pulls : Answered(p) /\ t <= pull[p].next

(* Of the changed rows, those in stamped are written themselves, the others *)
(* have got or lost barcodes only.                                         *)
CommitWrite(w) ==
  /\ began[w] # None
  /\ \E changed \in (SUBSET Rows) \ {{}}, stamped \in SUBSET Rows :
       /\ \A r \in changed \ stamped : server[r].v # 0
       /\ server' = [r \in Rows |->
            IF r \notin changed THEN server[r]
            ELSE [v |-> server[r].v + 1,
                  stamp |-> IF r \in stamped THEN began[w] ELSE server[r].stamp]]
       /\ excused' = excused \cup {r \in changed : Past(server'[r].stamp)}
  /\ began' = [began EXCEPT ![w] = None]
  /\ UNCHANGED <<clock, till, since, pull, inFlight, writes, pulls>>

---------------------------------------------------------------------------
(* A page of rows after t, in the order of their stamps; ties are in any.  *)
After(t) == {r \in Rows : server[r].stamp > t}

IsPage(page, t) ==
  /\ page \subseteq After(t)
  /\ Cardinality(page) = Min({PageSize, Cardinality(After(t))})
  /\ \A r \in page, q \in After(t) \ page : server[r].stamp <= server[q].stamp

(* Mistaken: the till is to go on from now.                                *)
NextSinceNow(page) == clock

(* next_since *)
NextSince(page) == IF page = {} THEN clock ELSE Max({server[r].stamp : r \in page})

(* sync_products *)
SyncProducts(p) ==
  /\ pull[p].at = "asked"
  /\ \E page \in SUBSET Rows :
       /\ IsPage(page, pull[p].since)
       /\ pull' = [pull EXCEPT ![p] =
            [at |-> "answered", next |-> NextSince(page),
             rows |-> [r \in page |-> server[r].v]]]
       /\ excused' = excused \cup
            {q \in After(pull[p].since) \ page :
               \E r \in page : server[q].stamp = server[r].stamp}
  /\ UNCHANGED <<backend, till, since, inFlight, pulls>>

---------------------------------------------------------------------------
(* The till.                                                               *)

Busy == \E p \in Pulls : pull[p].at # "idle"

(* pullAll, which joins a pull in flight, or forceFullResync, which does   *)
(* not and clears the till's data first.                                   *)
Start(p, full) ==
  /\ pull[p] = Idle
  /\ pulls < MaxPulls
  /\ full \/ inFlight = None
  /\ pulls' = pulls + 1
  /\ pull' = [pull EXCEPT ![p] = [at |-> "begins"]]
  /\ inFlight' = p
  /\ IF full THEN till' = [r \in Rows |-> 0] /\ since' = 0 ELSE UNCHANGED <<till, since>>
  /\ excused' = IF Busy THEN Rows ELSE excused
  /\ UNCHANGED backend

PullAll(p) == Start(p, FALSE)

ForceFullResync(p) == Start(p, TRUE)

ReadSince(p) ==
  /\ pull[p].at = "begins"
  /\ pull' = [pull EXCEPT ![p] = [at |-> "asked", since |-> since]]
  /\ UNCHANGED <<backend, till, since, inFlight, excused, pulls>>

Ended(p) ==
  /\ pull' = [pull EXCEPT ![p] = Idle]
  /\ inFlight' = IF inFlight = p THEN None ELSE inFlight

(* The request fails, or its answer is lost.                               *)
Fail(p) ==
  /\ pull[p].at \in {"asked", "answered"}
  /\ Ended(p)
  /\ UNCHANGED <<backend, till, since, excused, pulls>>

(* The batch that stores the rows of the page.                             *)
Store(p) ==
  /\ pull[p].at = "answered"
  /\ till' = [r \in Rows |->
       IF r \in DOMAIN pull[p].rows THEN pull[p].rows[r] ELSE till[r]]
  /\ pull' = [pull EXCEPT ![p].at = "applied"]
  /\ UNCHANGED <<backend, since, inFlight, excused, pulls>>

(* _writeSince; after a full page there is another one to ask for.         *)
WriteSince(p) ==
  /\ pull[p].at = "applied"
  /\ since' = pull[p].next
  /\ IF Cardinality(DOMAIN pull[p].rows) < PageSize THEN Ended(p)
     ELSE pull' = [pull EXCEPT ![p] = [at |-> "begins"]] /\ UNCHANGED inFlight
  /\ UNCHANGED <<backend, till, excused, pulls>>

(* The app is closed or killed, and opened again.                          *)
Crash ==
  /\ Busy
  /\ pull' = [p \in Pulls |-> Idle]
  /\ inFlight' = None
  /\ UNCHANGED <<backend, till, since, excused, pulls>>

PullStep(p) ==
  \/ PullAll(p) \/ ForceFullResync(p)
  \/ ReadSince(p) \/ SyncProducts(p) \/ Fail(p) \/ Store(p) \/ WriteSince(p)

Next ==
  \/ Tick
  \/ \E w \in Writers : BeginWrite(w) \/ CommitWrite(w)
  \/ \E p \in Pulls : PullStep(p)
  \/ Crash

Spec == Init /\ [][Next]_deltaVars

---------------------------------------------------------------------------
Missed(r) == till[r] # server[r].v /\ server[r].stamp <= since

(* A change is out of the reach of every later pull for four causes only:  *)
(* it was committed when the till had gone past the time its transaction   *)
(* began, it was of barcodes only and the till had gone past the last time *)
(* that the product was written, a full page ended within the rows of one  *)
(* transaction, or a pull overlapped a full resync.  Pages, lost answers,  *)
(* repeated pulls and restarts in the middle of one lose nothing.          *)
MissedForCause == \A r \in Rows : Missed(r) => r \in excused

===============================================================================
