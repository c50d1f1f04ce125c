----------------------------- MODULE OlaKeyPool -----------------------------
(***************************************************************************)
(* Which of the map provider's keys a request is made with                 *)
(* (engines/ola-key-pool.ts and services/ola-key-service.ts), where more   *)
(* than one is held: the first that has not been refused this month or not *)
(* lately, and the next one where it is refused now.  Requests share the   *)
(* rows of ola_key_health and nothing else.                                *)
(***************************************************************************)
EXTENDS Naturals

CONSTANTS
  KeyCount,       \* the keys held, in their order
  MapRequests,    \* requests at work
  Cooldown,       \* maps.olaKeyCooldownHours
  MonthHours,     \* the length of a month
  MaxHours,       \* bound: the clock
  RetiresOverlap, \* two refusals may be written down at once
  SpansMonths     \* a request may begin in one month and end in the next

ASSUME PoolAssumption ==
  /\ KeyCount \in Nat \ {0, 1} /\ Cooldown \in Nat \ {0} /\ MonthHours \in Nat \ {0}
  /\ MaxHours \in Nat /\ RetiresOverlap \in BOOLEAN /\ SpansMonths \in BOOLEAN

VARIABLES
  hour,       \* the clock
  health,     \* ola_key_health: when each key was refused, and in which month
  call,       \* what each request is doing
  refusedAt,  \* history: when the provider last refused each key
  announced   \* history: how often a key was announced spent in each month

poolVars == <<hour, health, call, refusedAt, announced>>

Keys == 1 .. KeyCount
MonthOf(h) == h \div MonthHours
Months == 0 .. MonthOf(MaxHours)

(* Instants count from 1 where 0 means never.                              *)
Never == 0
Instant(h) == h + 1
Untried == [at |-> Never, month |-> 0]
NoCall == [phase |-> "idle", began |-> 0, remaining |-> {}, key |-> 0, prior |-> Untried]

PoolInit ==
  /\ hour = 0
  /\ health = [k \in Keys |-> Untried]
  /\ call = [r \in MapRequests |-> NoCall]
  /\ refusedAt = [k \in Keys |-> Never]
  /\ announced = [k \in Keys |-> [m \in Months |-> 0]]
-----------------------------------------------------------------------------
(* Mutant: a refusal of an earlier month still stands.                     *)
AvailableByTime(h, now) ==
  h.at = Never \/ (now + 1 >= h.at /\ now + 1 - h.at >= Cooldown)
(* keyIsAvailable: never refused, refused in a month that has ended, or    *)
(* long enough ago to be asked again.                                      *)
Available(h, now) ==
  \/ h.at = Never
  \/ h.month < MonthOf(now)
  \/ now + 1 >= h.at /\ now + 1 - h.at >= Cooldown

(* Mutant: only the first refusal there ever was is announced.             *)
WorthAnnouncingOnce(prior, month) == prior.at = Never
WorthAnnouncing(prior, month) == prior.at = Never \/ prior.month # month

HourPasses ==
  /\ hour < MaxHours
  /\ \A r \in MapRequests : call[r].phase \notin {"refused", "retiring"}
  /\ \/ SpansMonths \/ MonthOf(hour + 1) = MonthOf(hour)
     \/ \A r \in MapRequests : call[r].phase = "idle"
  /\ hour' = hour + 1
  /\ UNCHANGED <<health, call, refusedAt, announced>>

(* olaGet: the moment is read once, and every key may be tried once.       *)
Begin(r) ==
  /\ call[r].phase = "idle"
  /\ call' = [call EXCEPT ![r] =
       [NoCall EXCEPT !.phase = "choosing", !.began = hour, !.remaining = Keys]]
  /\ UNCHANGED <<hour, health, refusedAt, announced>>

(* chooseFrom: the first of those that remain that is available, or none.  *)
Choose(r) ==
  /\ call[r].phase = "choosing"
  /\ LET able == {k \in call[r].remaining : Available(health[k], call[r].began)}
     IN call' = IF able = {} THEN [call EXCEPT ![r].phase = "gaveUp"]
                ELSE [call EXCEPT ![r].phase = "asking",
                                  ![r].key = CHOOSE k \in able : \A j \in able : k <= j]
  /\ UNCHANGED <<hour, health, refusedAt, announced>>

(* An answer, or a failure that says nothing about the key.                *)
AnsweredOrFailed(r) ==
  /\ call[r].phase \in {"asking", "gaveUp"}
  /\ call' = [call EXCEPT ![r] = NoCall]
  /\ UNCHANGED <<hour, health, refusedAt, announced>>

Refused(r) ==
  /\ call[r].phase = "asking"
  /\ refusedAt' = [refusedAt EXCEPT ![call[r].key] = Instant(hour)]
  /\ call' = [call EXCEPT ![r].phase = "refused"]
  /\ UNCHANGED <<hour, health, announced>>

(* The key is out of this request's running, written down or not.          *)
Onwards(r) ==
  LET left == call[r].remaining \ {call[r].key}
  IN [call[r] EXCEPT !.remaining = left, !.key = 0, !.prior = Untried,
                     !.phase = IF left = {} THEN "gaveUp" ELSE "choosing"]

(* retire, one statement: the row as it stood when the statement began,    *)
BeginRetire(r) ==
  /\ call[r].phase = "refused"
  /\ RetiresOverlap \/ \A q \in MapRequests : call[q].phase # "retiring"
  /\ call' = [call EXCEPT ![r].phase = "retiring", ![r].prior = health[call[r].key]]
  /\ UNCHANGED <<hour, health, refusedAt, announced>>

(* and its write, stamped with the database's clock but with the month the *)
(* request began in.  A key already known spent this month is not          *)
(* announced again.                                                        *)
Retire(r) ==
  /\ call[r].phase = "retiring"
  /\ LET k == call[r].key
         month == MonthOf(call[r].began)
     IN /\ health' = [health EXCEPT ![k] = [at |-> Instant(hour), month |-> month]]
        /\ announced' = IF WorthAnnouncing(call[r].prior, month)
                        THEN [announced EXCEPT ![k][month] = @ + 1] ELSE announced
  /\ call' = [call EXCEPT ![r] = Onwards(r)]
  /\ UNCHANGED <<hour, refusedAt>>

(* "It can never fail the request that discovered it."                     *)
RetireFails(r) ==
  /\ call[r].phase = "retiring"
  /\ call' = [call EXCEPT ![r] = Onwards(r)]
  /\ UNCHANGED <<hour, health, refusedAt, announced>>

PoolNext ==
  \/ HourPasses
  \/ \E r \in MapRequests :
       \/ Begin(r) \/ Choose(r) \/ AnsweredOrFailed(r) \/ Refused(r)
       \/ BeginRetire(r) \/ Retire(r) \/ RetireFails(r)

PoolSpec == PoolInit /\ [][PoolNext]_poolVars
-----------------------------------------------------------------------------
PoolTypeOK ==
  /\ hour \in 0 .. MaxHours
  /\ health \in [Keys -> [at : Nat, month : Months]]
  /\ refusedAt \in [Keys -> Nat]
  /\ announced \in [Keys -> [Months -> Nat]]
  /\ call \in [MapRequests ->
       [phase : {"idle", "choosing", "asking", "refused", "retiring", "gaveUp"},
        began : 0 .. MaxHours, remaining : SUBSET Keys, key : 0 .. KeyCount,
        prior : [at : Nat, month : Months]]]

(* The keys a request has gone past: those before the one it is asking,    *)
(* and all of them once it gives up.                                       *)
PassedOver(r) ==
  CASE call[r].phase = "asking" -> {k \in Keys : k < call[r].key}
    [] call[r].phase = "gaveUp" -> Keys
    [] OTHER -> {}

(* A request passes a key over, or has nothing left, only where the        *)
(* provider itself refused that key in this month, within the cooldown of  *)
(* the request's beginning or while it ran: whatever was lost or written   *)
(* twice, no key rests for long and none rests unrefused ("A RETIRED KEY   *)
(* COMES BACK", "EXHAUSTION IS OBSERVED").                                 *)
PassedOverForCause ==
  \A r \in MapRequests : \A k \in PassedOver(r) :
    /\ refusedAt[k] # Never
    /\ refusedAt[k] + Cooldown > Instant(call[r].began)
    /\ MonthOf(refusedAt[k] - 1) >= MonthOf(call[r].began)

(* A key is announced spent once in a month, however many requests found   *)
(* it so and however often it was asked again ("it is sent once when an    *)
(* account runs out and not once a day for the rest of it").               *)
AnnouncedOnceAMonth ==
  \A k \in Keys : /\ \A m \in Months : announced[k][m] <= 1
                  /\ health[k].at # Never => announced[k][health[k].month] = 1

(* A refusal counts for what it is (retire, chooseOlaKey): it rests that   *)
(* key for so long, and is announced once.                                 *)
RefusalsCount == PassedOverForCause /\ AnnouncedOnceAMonth
=============================================================================
