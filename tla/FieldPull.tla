----------------------------- MODULE FieldPull ------------------------------
(***************************************************************************)
(* What comes down with every pass: the office's changes since a cursor    *)
(* (buildPull of services/mbos-service.ts, nextPullCursorAt), applied on   *)
(* the handset (applyPull of sync/pull.ts) before the cursor is stored     *)
(* (onePass of sync/engine.ts).  Two kinds of record come this way.        *)
(*                                                                         *)
(*   Shops  his book.  A page of the changed ones is sent, oldest first;   *)
(*          who is in the book is said whole, on every pass; a shop newly  *)
(*          his is asked for by id.                                        *)
(*   Leads  and whatever else he writes too, his orders, his samples: a    *)
(*          row that has an edit on its way up is left as it is.  One put  *)
(*          in the trash leaves a tombstone, which is all that says so.    *)
(*                                                                         *)
(* Instants are whole numbers.  The instant a row was last stamped with    *)
(* stands for what it says: no row is stamped twice with one instant.      *)
(***************************************************************************)
EXTENDS Integers, FiniteSets

CONSTANTS
  Shops, Leads,
  PageSize,       \* CUSTOMERS_PER_PULL, DELETIONS_PER_PULL
  Overlap,        \* CURSOR_OVERLAP_MS
  TxLife,         \* how long an office transaction stays open
  SharedInstant,  \* how many rows one statement may stamp alike
  AnySnapshot,    \* whether the book is taken again, on a new build or at a
                  \* sign-in, with a tombstone still to come down or an
                  \* edit still to go up
  EditsWait,      \* whether an edit sits out a pass: backing off, or behind
                  \* another record
  MayRefuse,      \* whether the office ever refuses an edit
  MaxTime         \* bound: the clock

ASSUME FieldPullAssumption ==
  /\ Shops \intersect Leads = {} /\ IsFiniteSet(Shops) /\ IsFiniteSet(Leads)
  /\ PageSize \in Nat \ {0} /\ SharedInstant \in Nat \ {0}
  /\ MaxTime \in Nat /\ Overlap \in 0 .. MaxTime /\ TxLife \in Nat
  /\ AnySnapshot \in BOOLEAN /\ EditsWait \in BOOLEAN /\ MayRefuse \in BOOLEAN

VARIABLES
  clock,
  at,        \* the instant each row was last stamped with
  book,      \* the shops in his book
  trash,     \* tombstones: the instant, or NoInstant
  writing,   \* transactions open at the office: the instant they stamp
  verdict,   \* what the office answered to the edit of a lead
  held,      \* the row the handset shows, by its instant, or NoInstant
  edited,    \* leads with an edit in the outbox
  missing,   \* missingIds: shops said to be his that it does not hold
  cursor,    \* pullCursor
  pull       \* the pass in hand

officeVars == <<clock, at, book, trash, writing, verdict>>
pulledVars == <<held, edited, missing, cursor>>
pullVars == <<clock, at, book, trash, writing, verdict, held, edited, missing, cursor, pull>>

Rows == Shops \union Leads
NoInstant == -2
Instants == NoInstant .. MaxTime

NoPull == [phase |-> "idle", since |-> NoInstant, asked |-> {}, items |-> {},
           left |-> {}, rows |-> << >>, gone |-> {}, book |-> {}, next |-> NoInstant]

PullInit ==
  /\ clock = Overlap
  /\ at = [r \in Rows |-> 0]
  /\ book = Shops
  /\ trash = [l \in Leads |-> NoInstant]
  /\ writing = [r \in Rows |-> NoInstant]
  /\ verdict = [l \in Leads |-> "none"]
  /\ held = [r \in Rows |-> 0]
  /\ edited = {} /\ missing = {}
  /\ cursor = 0
  /\ pull = NoPull
-----------------------------------------------------------------------------
(* The office.                                                             *)

StampedAt(t) == {r \in Rows : at[r] = t \/ writing[r] = t}

(* No transaction outlives TxLife.                                         *)
Tick ==
  /\ clock < MaxTime
  /\ \A r \in Rows : writing[r] # NoInstant => clock < writing[r] + TxLife
  /\ clock' = clock + 1
  /\ UNCHANGED <<at, book, trash, writing, verdict, pulledVars, pull>>

(* A row is changed: stamped when its transaction begins, seen when it     *)
(* commits.                                                                *)
BeginWrite(r) ==
  /\ writing[r] = NoInstant /\ at[r] < clock
  /\ r \in Leads => trash[r] = NoInstant
  /\ Cardinality(StampedAt(clock)) < SharedInstant
  /\ writing' = [writing EXCEPT ![r] = clock]
  /\ UNCHANGED <<clock, at, book, trash, verdict, pulledVars, pull>>

CommitWrite(r) ==
  /\ writing[r] # NoInstant
  /\ at' = [at EXCEPT ![r] = writing[r]]
  /\ writing' = [writing EXCEPT ![r] = NoInstant]
  /\ UNCHANGED <<clock, book, trash, verdict, pulledVars, pull>>

(* A territory is allocated, an account moved: nothing is stamped.         *)
Reassign(s) ==
  /\ book' = (book \ {s}) \union ({s} \ book)
  /\ UNCHANGED <<clock, at, trash, writing, verdict, pulledVars, pull>>

(* leadsLeftHandsets.                                                      *)
Trash(l) ==
  /\ trash[l] = NoInstant /\ writing[l] = NoInstant
  /\ trash' = [trash EXCEPT ![l] = clock]
  /\ UNCHANGED <<clock, at, book, writing, verdict, pulledVars, pull>>

(* Mutant: the row that comes back is not stamped.                         *)
RestoreUnstamped(l) ==
  /\ trash[l] # NoInstant /\ at[l] < clock
  /\ trash' = [trash EXCEPT ![l] = NoInstant]
  /\ UNCHANGED <<clock, at, book, writing, verdict, pulledVars, pull>>

(* leadsReturnedToHandsets: the tombstone goes, and the row is stamped.    *)
Restore(l) ==
  /\ trash[l] # NoInstant /\ at[l] < clock
  /\ at' = [at EXCEPT ![l] = clock]
  /\ trash' = [trash EXCEPT ![l] = NoInstant]
  /\ UNCHANGED <<clock, book, writing, verdict, pulledVars, pull>>
-----------------------------------------------------------------------------
(* The pass.                                                               *)

(* He changes a lead the handset shows.                                    *)
Edit(l) ==
  /\ l \notin edited /\ held[l] # NoInstant
  /\ edited' = edited \union {l}
  /\ verdict' = [verdict EXCEPT ![l] = "none"]
  /\ UNCHANGED <<clock, at, book, trash, writing, held, missing, cursor, pull>>

(* A pass sends what is due of the outbox, and asks from the cursor.       *)
StartPass ==
  /\ pull.phase = "idle"
  /\ \E items \in IF EditsWait THEN SUBSET edited ELSE {edited} :
       pull' = [NoPull EXCEPT !.phase = "sent", !.since = cursor,
                              !.asked = missing, !.items = items]
  /\ UNCHANGED <<officeVars, pulledVars>>

(* The office deals with the items first: an edit is taken, and stamps its *)
(* row, or refused, and stamps nothing; one answered before is answered    *)
(* the same.  Then it reads its clock, and whose shops they are.           *)
Unanswered == {l \in pull.items : verdict[l] = "none"}

OfficeIngests ==
  /\ pull.phase = "sent"
  /\ \E taken \in SUBSET Unanswered : \E refused \in SUBSET (Unanswered \ taken) :
       /\ refused # {} => MayRefuse
       /\ \A l \in taken : at[l] < clock /\ writing[l] = NoInstant /\ trash[l] = NoInstant
       /\ Cardinality(StampedAt(clock) \union taken) <= SharedInstant \/ taken = {}
       /\ verdict' = [l \in Leads |-> IF l \in taken THEN "taken"
                                      ELSE IF l \in refused THEN "refused" ELSE verdict[l]]
       /\ at' = [r \in Rows |-> IF r \in taken THEN clock ELSE at[r]]
  /\ pull' = [pull EXCEPT !.phase = "read", !.left = {"rows", "gone"}, !.book = book,
                          !.next = clock - Overlap,
                          !.items = {l \in @ : verdict'[l] # "none"}]
  /\ UNCHANGED <<clock, book, trash, writing, pulledVars>>

(* The first PageSize of S, oldest first, and the cursor a page that came  *)
(* back full holds the pull to.                                            *)
IsPage(P, S, when) ==
  /\ Cardinality(P) = IF Cardinality(S) < PageSize THEN Cardinality(S) ELSE PageSize
  /\ \A p \in P, s \in S \ P : when[p] <= when[s]

(* Mutant: a full page does not hold the cursor.                           *)
HeldAtLoose(next, P, when) == next

HeldAt(next, P, when) ==
  IF Cardinality(P) < PageSize THEN next
  ELSE LET last == CHOOSE t \in {when[p] : p \in P} : \A p \in P : when[p] <= t
       IN IF last - 1 < next THEN last - 1 ELSE next

(* Mutant: the shops asked for by name are not sent.                       *)
ReadChanged ==
  /\ pull.phase = "read" /\ "rows" \in pull.left
  /\ LET changed == {s \in pull.book : at[s] > pull.since}
         leads   == {l \in Leads : trash[l] = NoInstant /\ at[l] > pull.since}
     IN \E page \in SUBSET changed :
          /\ IsPage(page, changed, at)
          /\ pull' = [pull EXCEPT
               !.left = @ \ {"rows"},
               !.rows = [r \in page \union leads |-> at[r]],
               !.next = HeldAt(@, page, at)]
  /\ UNCHANGED <<officeVars, pulledVars>>

(* changedCustomersForDevice and the shops asked for; openLeads.           *)
ReadRows ==
  /\ pull.phase = "read" /\ "rows" \in pull.left
  /\ LET changed == {s \in pull.book : at[s] > pull.since}
         leads   == {l \in Leads : trash[l] = NoInstant /\ at[l] > pull.since}
         asked   == pull.asked \intersect pull.book
     IN \E page \in SUBSET changed :
          /\ IsPage(page, changed, at)
          /\ pull' = [pull EXCEPT
               !.left = @ \ {"rows"},
               !.rows = [r \in page \union leads \union asked |-> at[r]],
               !.next = HeldAt(@, page, at)]
  /\ UNCHANGED <<officeVars, pulledVars>>

(* deletionsSince.                                                         *)
ReadTombstones ==
  /\ pull.phase = "read" /\ "gone" \in pull.left
  /\ LET gone == {l \in Leads : trash[l] > pull.since}
     IN \E page \in SUBSET gone :
          /\ IsPage(page, gone, trash)
          /\ pull' = [pull EXCEPT !.left = @ \ {"gone"}, !.gone = page,
                                  !.next = HeldAt(@, page, trash)]
  /\ UNCHANGED <<officeVars, pulledVars>>

(* The whole book again, as it now stands, with the cursor it comes with.  *)
(* No tombstones come with it.                                             *)
TakeSnapshot ==
  /\ pull.phase = "idle"
  /\ AnySnapshot \/ (edited = {} /\ \A l \in Leads : trash[l] <= cursor)
  /\ pull' = [NoPull EXCEPT !.phase = "read", !.book = book, !.next = clock - Overlap,
       !.rows = [r \in book \union {l \in Leads : trash[l] = NoInstant} |-> at[r]]]
  /\ UNCHANGED <<officeVars, pulledVars>>

(* Mutant: a lead with an edit on its way up is not put away either.       *)
ApplyGuarded ==
  /\ pull.phase = "read" /\ pull.left = {}
  /\ pull' = [pull EXCEPT !.phase = "applied"]
  /\ edited' = edited \ pull.items
  /\ LET rows == [r \in Rows |-> IF r \in DOMAIN pull.rows \ edited'
                                 THEN pull.rows[r] ELSE held[r]]
         dropped == (pull.gone \ edited') \union (Shops \ pull.book)
     IN /\ held' = [r \in Rows |-> IF r \in dropped THEN NoInstant ELSE rows[r]]
        /\ missing' = {s \in pull.book : rows[s] = NoInstant}
  /\ UNCHANGED <<officeVars, cursor>>

(* What was answered leaves the outbox.  Then applyPull: the rows, but for *)
(* those with an edit on its way up (noPending), the tombstones, the book, *)
(* and what of the book is missing.                                        *)
Apply ==
  /\ pull.phase = "read" /\ pull.left = {}
  /\ pull' = [pull EXCEPT !.phase = "applied"]
  /\ edited' = edited \ pull.items
  /\ LET rows == [r \in Rows |-> IF r \in DOMAIN pull.rows \ edited'
                                 THEN pull.rows[r] ELSE held[r]]
         dropped == pull.gone \union (Shops \ pull.book)
     IN /\ held' = [r \in Rows |-> IF r \in dropped THEN NoInstant ELSE rows[r]]
        /\ missing' = {s \in pull.book : rows[s] = NoInstant}
  /\ UNCHANGED <<officeVars, cursor>>

(* Then, and not before, the cursor.                                       *)
StoreCursor ==
  /\ pull.phase = "applied"
  /\ cursor' = pull.next
  /\ pull' = NoPull
  /\ UNCHANGED <<officeVars, held, edited, missing>>

(* The request or its answer is lost, or the app is killed.                *)
Interrupted ==
  /\ pull.phase # "idle"
  /\ pull' = NoPull
  /\ UNCHANGED <<officeVars, pulledVars>>

PassStep == StartPass \/ OfficeIngests \/ ReadRows \/ ReadTombstones \/ Apply \/ StoreCursor

PullNext ==
  \/ Tick
  \/ \E r \in Rows : BeginWrite(r) \/ CommitWrite(r)
  \/ \E s \in Shops : Reassign(s)
  \/ \E l \in Leads : Trash(l) \/ Restore(l) \/ Edit(l)
  \/ PassStep \/ TakeSnapshot \/ Interrupted

PullSpec == PullInit /\ [][PullNext]_pullVars

(* A pass runs on a timer, and every step of it is taken.                  *)
PullFair == WF_pullVars(PassStep)
-----------------------------------------------------------------------------
PullTypeOK ==
  /\ clock \in Overlap .. MaxTime /\ cursor \in -1 .. MaxTime
  /\ at \in [Rows -> 0 .. MaxTime] /\ held \in [Rows -> Instants]
  /\ book \subseteq Shops /\ missing \subseteq Shops /\ edited \subseteq Leads
  /\ trash \in [Leads -> Instants] /\ writing \in [Rows -> Instants]
  /\ verdict \in [Leads -> {"none", "taken", "refused"}]
  /\ pull.phase \in {"idle", "sent", "read", "applied"}
  /\ pull.gone \subseteq Leads /\ DOMAIN pull.rows \subseteq Rows

(* Whether the office shows him the row.                                   *)
Shown(r) == r \in book \/ (r \in Leads /\ trash[r] = NoInstant)

(* Nothing falls behind the cursor: a change stamped before it, which no   *)
(* later pass will ask for, is on the handset, unless an edit of that row  *)
(* is still on its way up.  A shop the handset does not hold is asked for  *)
(* by name and needs no cursor.                                            *)
RowsKeepUp ==
  \A r \in Rows :
    Shown(r) /\ at[r] <= cursor /\ r \notin edited /\ (r \in Shops => held[r] # NoInstant)
      => held[r] = at[r]

(* Nor does a tombstone: a lead put in the trash before the cursor is off  *)
(* the handset.                                                            *)
TombstonesKeepUp ==
  \A l \in Leads : trash[l] # NoInstant /\ trash[l] <= cursor => held[l] = NoInstant

(* However many pages a pull fills and whenever the app dies between rows  *)
(* and cursor, no change and no tombstone falls behind the cursor          *)
(* (pull-cursor.ts: "they fell behind it and were never asked for again"). *)
NothingFallsBehind == RowsKeepUp /\ TombstonesKeepUp

(* Once the office is quiet, nothing waits to go up and the link holds,    *)
(* the handset comes to show what the office does, the shops newly his     *)
(* among it.                                                               *)
OfficeQuiet == <>[][PassStep]_pullVars /\ <>[](edited = {})

HandsetCatchesUp ==
  OfficeQuiet => <>[](\A r \in Rows : held[r] = IF Shown(r) THEN at[r] ELSE NoInstant)
=============================================================================
