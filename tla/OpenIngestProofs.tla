-------------------------- MODULE OpenIngestProofs --------------------------
(***************************************************************************)
(* What the office's ingest guarantees against any handset, for every set  *)
(* of records, payloads, connections and requests.                         *)
(*                                                                         *)
(* ReceiptMeansHeld, NoOrphans and AnswersAreOnRecord are not inductive:   *)
(* each round trip acts on what an earlier one found.  ConnInv carries it  *)
(* across: what a connection remembers of its batch is in the tables, the  *)
(* dependencies of an item in its handler's hands are, and so is a record  *)
(* whose acceptance is about to be stored.  That they stay true while      *)
(* other connections act rests on the tables only ever growing.            *)
(***************************************************************************)
EXTENDS OpenIngest, TLAPS

Underway == {"travelling", "judging", "writing", "storing"}

ConnInv(c) ==
  /\ conns[c].phase \in Underway => conns[c].at \in 1 .. Len(conns[c].items)
  /\ conns[c].acceptedHere \subseteq held
  /\ conns[c].phase = "writing" => Current(c).deps \subseteq held
  /\ conns[c].phase = "storing" /\ conns[c].verdict = "accepted"
       => Current(c).key.entity \in held
  /\ Len(conns[c].results) <= Len(conns[c].items)
  /\ conns[c].phase \in Underway => Len(conns[c].results) = conns[c].at - 1
  /\ conns[c].phase = "answered" => Len(conns[c].results) = Len(conns[c].items)

AnswerOnRecord(c) ==
  \A i \in DOMAIN conns[c].results :
    conns[c].results[i] = "accepted" => conns[c].items[i].key \in accepted

Inv ==
  /\ TypeOK
  /\ ReceiptMeansHeld
  /\ NoOrphans
  /\ AnswersAreOnRecord
  /\ \A c \in Conns : ConnInv(c)
-----------------------------------------------------------------------------
LEMMA CurrentType ==
  ASSUME TypeOK, NEW c \in Conns, ConnInv(c), conns[c].phase \in Underway
  PROVE  /\ Current(c) \in Item
         /\ Current(c).row \in Nat
         /\ Current(c).key \in Key
         /\ Current(c).key.entity \in Entities
         /\ Current(c).key.body \in Bodies
         /\ Current(c).deps \in SUBSET Entities
<1>1. conns[c] \in Conn
  BY DEF TypeOK
<1>2. Current(c) \in Item
  BY <1>1 DEF Conn, ConnInv, Current
<1>3. QED
  BY <1>2 DEF Item, Key

(* What answering an item does to the connection it is on.                 *)
LEMMA AnswerEffect ==
  ASSUME TypeOK, NEW c \in Conns, ConnInv(c), conns[c].phase \in Underway,
         NEW v \in Verdicts, Answer(c, v)
  PROVE  /\ conns' \in [Conns -> Conn]
         /\ \A d \in Conns \ {c} : conns'[d] = conns[d]
         /\ conns'[c].items = conns[c].items
         /\ conns'[c].results = Append(conns[c].results, v)
         /\ conns'[c].at = conns[c].at + 1
         /\ conns'[c].acceptedHere =
              IF v = "accepted" THEN conns[c].acceptedHere \union {Current(c).key.entity}
                                ELSE conns[c].acceptedHere
         /\ \/ /\ conns'[c].phase = "answered"
               /\ conns[c].at = Len(conns[c].items)
            \/ /\ conns'[c].phase = "judging"
               /\ conns[c].at # Len(conns[c].items)
<1>1. conns \in [Conns -> Conn] /\ conns[c] \in Conn
  BY DEF TypeOK
<1>2. Current(c).key.entity \in Entities
  BY CurrentType
<1> DEFINE e == Current(c).key.entity
           here == IF v = "accepted" THEN conns[c].acceptedHere \union {e}
                                     ELSE conns[c].acceptedHere
           gone == IF v = "rejected" THEN conns[c].refusedHere \union {e}
                                     ELSE conns[c].refusedHere
           next == IF conns[c].at = Len(conns[c].items) THEN "answered" ELSE "judging"
           new == [phase |-> next, items |-> conns[c].items, at |-> conns[c].at + 1,
                   acceptedHere |-> here, refusedHere |-> gone,
                   verdict |-> "retry",
                   results |-> Append(conns[c].results, v)]
<1>3. conns' = [conns EXCEPT ![c] = new]
  BY DEF Answer
<1>4. new \in Conn
  <2>1. Append(conns[c].results, v) \in Seq(Verdicts)
    BY <1>1 DEF Conn
  <2>2. here \in SUBSET Entities /\ gone \in SUBSET Entities
    BY <1>1, <1>2 DEF Conn
  <2>3. next \in Phases
    BY DEF Phases
  <2>4. /\ conns[c].items \in Seq(Item) /\ conns[c].at + 1 \in Nat
        /\ "retry" \in Verdicts
    BY <1>1 DEF Conn, Verdicts
  <2> HIDE DEF here, gone, next
  <2>5. QED
    BY <2>1, <2>2, <2>3, <2>4 DEF Conn
<1>5. conns'[c] = new /\ \A d \in Conns \ {c} : conns'[d] = conns[d]
  BY <1>1, <1>3
<1>6. conns' \in [Conns -> Conn]
  <2> HIDE DEF new
  <2>1. QED
    BY <1>1, <1>3, <1>4
<1>7. QED
  BY <1>5, <1>6

LEMMA DecideEffect ==
  ASSUME TypeOK, NEW c \in Conns, NEW v \in Verdicts, Decide(c, v)
  PROVE  /\ conns' \in [Conns -> Conn]
         /\ \A d \in Conns \ {c} : conns'[d] = conns[d]
         /\ conns'[c] = [conns[c] EXCEPT !.phase = "storing", !.verdict = v]
<1>1. conns \in [Conns -> Conn] /\ conns[c] \in Conn
  BY DEF TypeOK
<1>2. conns' = [conns EXCEPT ![c] = [conns[c] EXCEPT !.phase = "storing", !.verdict = v]]
  BY <1>1 DEF Decide, Conn
<1>3. [conns[c] EXCEPT !.phase = "storing", !.verdict = v] \in Conn
  BY <1>1 DEF Conn, Phases
<1>4. QED
  BY <1>1, <1>2, <1>3
-----------------------------------------------------------------------------
(* A step of one connection leaves what is known of the others true,       *)
(* because what the office holds and has accepted only grows.              *)
LEMMA OthersKept ==
  ASSUME Inv, NEW c \in Conns,
         \A d \in Conns \ {c} : conns'[d] = conns[d],
         held \subseteq held', accepted \subseteq accepted',
         ConnInv(c)', AnswerOnRecord(c)'
  PROVE  /\ \A d \in Conns : ConnInv(d)'
         /\ AnswersAreOnRecord'
<1>1. ASSUME NEW d \in Conns PROVE ConnInv(d)' /\ AnswerOnRecord(d)'
  <2>1. CASE d = c
    BY <2>1
  <2>2. CASE d # c
    <3>1. conns'[d] = conns[d]
      BY <2>2
    <3>2. ConnInv(d) /\ AnswerOnRecord(d)
      BY DEF Inv, AnswersAreOnRecord, AnswerOnRecord
    <3>3. QED
      BY <3>1, <3>2 DEF ConnInv, Current, AnswerOnRecord
  <2>3. QED
    BY <2>1, <2>2
<1>2. QED
  BY <1>1 DEF AnswersAreOnRecord, AnswerOnRecord

(* A step that touches nothing but one connection.                         *)
LEMMA OnlyConn ==
  ASSUME Inv, UNCHANGED <<ledger, tables, history>>,
         NEW c \in Conns,
         conns' \in [Conns -> Conn],
         \A d \in Conns \ {c} : conns'[d] = conns[d],
         ConnInv(c)', AnswerOnRecord(c)'
  PROVE  Inv'
<1>1. UNCHANGED <<accepted, refused, held, value, parents, landed, rewritten>>
  BY DEF ledger, tables, history
<1>2. (\A d \in Conns : ConnInv(d)') /\ AnswersAreOnRecord'
  BY <1>1, OthersKept
<1>3. TypeOK' /\ ReceiptMeansHeld' /\ NoOrphans'
  BY <1>1 DEF Inv, TypeOK, ReceiptMeansHeld, NoOrphans
<1>4. QED
  BY <1>2, <1>3 DEF Inv

(* Answering an item without touching the tables; an acceptance needs its  *)
(* receipt and its record.                                                 *)
LEMMA AnswerKeeps ==
  ASSUME Inv, NEW c \in Conns, conns[c].phase \in Underway,
         NEW v \in Verdicts, Answer(c, v),
         held' = held, accepted \subseteq accepted',
         v = "accepted" => /\ Current(c).key \in accepted'
                           /\ Current(c).key.entity \in held
  PROVE  ConnInv(c)' /\ AnswerOnRecord(c)'
<1>1. TypeOK /\ ConnInv(c) /\ AnswerOnRecord(c)
  BY DEF Inv, AnswersAreOnRecord, AnswerOnRecord
<1>2. conns[c] \in Conn /\ conns[c].results \in Seq(Verdicts) /\ conns[c].at \in Nat
      /\ conns[c].items \in Seq(Item)
  BY <1>1 DEF TypeOK, Conn
<1>3. /\ conns'[c].items = conns[c].items
      /\ conns'[c].results = Append(conns[c].results, v)
      /\ conns'[c].at = conns[c].at + 1
      /\ conns'[c].acceptedHere =
           IF v = "accepted" THEN conns[c].acceptedHere \union {Current(c).key.entity}
                             ELSE conns[c].acceptedHere
      /\ \/ conns'[c].phase = "answered" /\ conns[c].at = Len(conns[c].items)
         \/ conns'[c].phase = "judging" /\ conns[c].at # Len(conns[c].items)
  BY <1>1, AnswerEffect
<1>4. /\ conns[c].at \in 1 .. Len(conns[c].items)
      /\ Len(conns[c].results) = conns[c].at - 1
  BY <1>1 DEF ConnInv
<1>5. Len(conns'[c].results) = conns[c].at
  BY <1>2, <1>3, <1>4
<1>6. ConnInv(c)'
  <2>1. conns'[c].acceptedHere \subseteq held'
    BY <1>1, <1>3 DEF ConnInv
  <2>2. conns'[c].phase \in Underway => conns'[c].at \in 1 .. Len(conns'[c].items)
    BY <1>2, <1>3, <1>4 DEF Underway
  <2>3. /\ Len(conns'[c].results) <= Len(conns'[c].items)
        /\ Len(conns'[c].results) = conns'[c].at - 1
        /\ conns'[c].phase = "answered" => Len(conns'[c].results) = Len(conns'[c].items)
    BY <1>2, <1>3, <1>4, <1>5
  <2>4. conns'[c].phase \notin {"writing", "storing"}
    BY <1>3
  <2>5. QED
    BY <2>1, <2>2, <2>3, <2>4 DEF ConnInv
<1>7. AnswerOnRecord(c)'
  <2> SUFFICES ASSUME NEW i \in DOMAIN conns'[c].results,
                      conns'[c].results[i] = "accepted"
               PROVE  conns'[c].items[i].key \in accepted'
    BY DEF AnswerOnRecord
  <2>1. i \in 1 .. conns[c].at
    BY <1>2, <1>3, <1>5
  <2>2. CASE i = conns[c].at
    <3>1. conns'[c].items[i] = Current(c)
      BY <1>3, <2>2 DEF Current
    <3>2. conns'[c].results[i] = v
      BY <1>2, <1>3, <1>4, <2>2
    <3>3. QED
      BY <3>1, <3>2
  <2>3. CASE i # conns[c].at
    BY <2>1, <2>3, <1>1, <1>2, <1>3, <1>4, SMTT(30) DEF AnswerOnRecord
  <2>4. QED
    BY <2>2, <2>3
<1>8. QED
  BY <1>6, <1>7

(* Going on to the next round trip of the same item.                       *)
LEMMA PhaseKeeps ==
  ASSUME Inv, NEW c \in Conns, NEW p \in Underway, NEW v \in Verdicts,
         conns[c].phase \in Underway,
         conns' = [conns EXCEPT ![c] = [conns[c] EXCEPT !.phase = p, !.verdict = v]],
         held \subseteq held', accepted' = accepted,
         p = "writing" => Current(c).deps \subseteq held,
         p = "storing" /\ v = "accepted" => Current(c).key.entity \in held'
  PROVE  /\ conns' \in [Conns -> Conn]
         /\ \A d \in Conns \ {c} : conns'[d] = conns[d]
         /\ ConnInv(c)' /\ AnswerOnRecord(c)'
<1>1. TypeOK /\ ConnInv(c) /\ AnswerOnRecord(c)
  BY DEF Inv, AnswersAreOnRecord, AnswerOnRecord
<1>2. conns \in [Conns -> Conn] /\ conns[c] \in Conn
  BY <1>1 DEF TypeOK
<1>3. [conns[c] EXCEPT !.phase = p, !.verdict = v] \in Conn
  BY <1>2 DEF Conn, Phases, Underway
<1>4. /\ conns' \in [Conns -> Conn]
      /\ \A d \in Conns \ {c} : conns'[d] = conns[d]
      /\ conns'[c] = [conns[c] EXCEPT !.phase = p, !.verdict = v]
  BY <1>2, <1>3
<1>5. /\ conns'[c].phase = p /\ conns'[c].verdict = v
      /\ conns'[c].items = conns[c].items /\ conns'[c].at = conns[c].at
      /\ conns'[c].results = conns[c].results
      /\ conns'[c].acceptedHere = conns[c].acceptedHere
  BY <1>2, <1>4 DEF Conn
<1>6. ConnInv(c)'
  BY <1>1, <1>5 DEF ConnInv, Current, Underway
<1>7. AnswerOnRecord(c)'
  BY <1>1, <1>5 DEF AnswerOnRecord
<1>8. QED
  BY <1>4, <1>6, <1>7

(* A connection that carries nothing, or a request nobody has looked at.   *)
LEMMA FreshKeeps ==
  ASSUME Inv, NEW c \in Conns, UNCHANGED <<ledger, tables, history>>,
         NEW k \in Conn, conns' = [conns EXCEPT ![c] = k],
         k.phase \in Underway => k.phase = "travelling" /\ k.at = 1 /\ k.items # <<>>,
         k.phase # "answered",
         k.acceptedHere = {}, k.results = <<>>
  PROVE  Inv'
<1>1. conns \in [Conns -> Conn]
  BY DEF Inv, TypeOK
<1>2. /\ conns' \in [Conns -> Conn]
      /\ \A d \in Conns \ {c} : conns'[d] = conns[d]
      /\ conns'[c] = k
  BY <1>1
<1>3. k.items \in Seq(Item) /\ Len(k.items) \in Nat /\ Len(k.results) = 0
  BY DEF Conn
<1>4. k.items # <<>> => 1 \in 1 .. Len(k.items)
  BY <1>3
<1>5. ConnInv(c)'
  BY <1>2, <1>3, <1>4 DEF ConnInv, Underway
<1>6. AnswerOnRecord(c)'
  BY <1>2 DEF AnswerOnRecord
<1>7. QED
  BY <1>2, <1>5, <1>6, OnlyConn

LEMMA NoConnType == NoConn \in Conn
BY DEF NoConn, Carrying, Conn, Phases, Verdicts

LEMMA InitInv == IngestInit => Inv
<1> SUFFICES ASSUME IngestInit PROVE Inv
  OBVIOUS
<1> USE DEF IngestInit
<1>1. TypeOK
  BY NoConnType DEF TypeOK
<1>2. ReceiptMeansHeld /\ NoOrphans
  BY DEF ReceiptMeansHeld, NoOrphans
<1>3. \A c \in Conns : ConnInv(c)
  BY DEF ConnInv, NoConn, Carrying, Underway
<1>4. AnswersAreOnRecord
  BY DEF AnswersAreOnRecord, NoConn, Carrying
<1>5. QED
  BY <1>1, <1>2, <1>3, <1>4 DEF Inv
-----------------------------------------------------------------------------
(* The steps, one lemma for each round trip.                               *)

LEMMA WireKeeps ==
  ASSUME Inv, NEW c \in Conns, Send(c) \/ Lose(c) \/ Abandon(c)
  PROVE  Inv'
<1>1. CASE Send(c)
  <2>1. PICK items \in Requests : Submit(c, items)
    BY <1>1 DEF Send
  <2> DEFINE k == Carrying("travelling", items, 1)
  <2>2. items \in Seq(Item) /\ items # <<>>
    BY <2>1, RequestsAssumption DEF Submit
  <2>3. /\ k \in Conn /\ k.phase = "travelling" /\ k.items = items /\ k.at = 1
        /\ k.acceptedHere = {} /\ k.results = <<>>
    BY <2>2 DEF Carrying, Conn, Phases, Verdicts
  <2>4. conns' = [conns EXCEPT ![c] = k]
    BY <2>1 DEF Submit
  <2> HIDE DEF k
  <2>5. UNCHANGED <<ledger, tables, history>>
    BY <1>1 DEF Send
  <2>6. QED
    BY <2>2, <2>3, <2>4, <2>5, FreshKeeps
<1>2. CASE Lose(c) \/ Abandon(c)
  <2>1. UNCHANGED <<ledger, tables, history>> /\ conns' = [conns EXCEPT ![c] = NoConn]
    BY <1>2 DEF Lose, Abandon
  <2>2. NoConn.phase \notin Underway /\ NoConn.phase # "answered" /\ NoConn.acceptedHere = {} /\ NoConn.results = <<>>
    BY DEF NoConn, Carrying, Underway
  <2>3. QED
    BY <2>1, <2>2, NoConnType, FreshKeeps
<1>3. QED
  BY <1>1, <1>2

LEMMA JudgeKeeps ==
  ASSUME Inv, NEW c \in Conns, Arrive(c) \/ Judge(c)
  PROVE  Inv'
<1>1. TypeOK /\ ConnInv(c)
  BY DEF Inv
<1>2. conns \in [Conns -> Conn] /\ conns[c] \in Conn /\ conns[c].verdict \in Verdicts
  BY <1>1 DEF TypeOK, Conn
<1>3. conns[c].phase \in Underway /\ UNCHANGED <<ledger, tables, history>>
  BY DEF Arrive, Judge, Replay, RefuseDependent, DeferMissing, PassToHandler, Underway
<1>4. held' = held /\ accepted' = accepted
  BY <1>3 DEF ledger, tables
<1>5. CASE Arrive(c)
  <2>1. conns' = [conns EXCEPT ![c] =
                    [conns[c] EXCEPT !.phase = "judging", !.verdict = conns[c].verdict]]
    BY <1>2, <1>5 DEF Arrive, Conn
  <2>2. "judging" \in Underway
    BY DEF Underway
  <2>3. QED
    BY <2>1, <2>2, <1>2, <1>3, <1>4, PhaseKeeps, OnlyConn
<1>6. CASE Replay(c)
  <2>1. Answer(c, "accepted") /\ Current(c).key \in accepted
    BY <1>6 DEF Replay
  <2>2. Current(c).key.entity \in held
    BY <2>1 DEF Inv, ReceiptMeansHeld
  <2>3. "accepted" \in Verdicts
    BY DEF Verdicts
  <2>4. QED
    BY <2>1, <2>2, <2>3, <1>1, <1>3, <1>4, AnswerKeeps, AnswerEffect, OnlyConn
<1>7. CASE RefuseDependent(c)
  <2>1. conns' = [conns EXCEPT ![c] =
                    [conns[c] EXCEPT !.phase = "storing", !.verdict = "rejected"]]
    BY <1>7 DEF RefuseDependent, Decide
  <2>2. "storing" \in Underway /\ "rejected" \in Verdicts
    BY DEF Underway, Verdicts
  <2>3. QED
    BY <2>1, <2>2, <1>3, <1>4, PhaseKeeps, OnlyConn
<1>8. CASE DeferMissing(c)
  <2>1. Answer(c, "retry") /\ "retry" \in Verdicts
    BY <1>8 DEF DeferMissing, Verdicts
  <2>2. QED
    BY <2>1, <1>1, <1>3, <1>4, AnswerKeeps, AnswerEffect, OnlyConn
<1>9. CASE PassToHandler(c)
  <2>1. conns' = [conns EXCEPT ![c] =
                    [conns[c] EXCEPT !.phase = "writing", !.verdict = conns[c].verdict]]
    BY <1>2, <1>9 DEF PassToHandler, Conn
  <2>2. Current(c).deps \subseteq held
    BY <1>1, <1>9 DEF PassToHandler, Missing, ConnInv
  <2>3. "writing" \in Underway
    BY DEF Underway
  <2>4. QED
    BY <2>1, <2>2, <2>3, <1>2, <1>3, <1>4, PhaseKeeps, OnlyConn
<1>10. QED
  BY <1>5, <1>6, <1>7, <1>8, <1>9 DEF Judge

LEMMA WriteKeeps ==
  ASSUME Inv, NEW c \in Conns, HandlerWrites(c)
  PROVE  Inv'
<1> DEFINE item == Current(c)
           e == item.key.entity
<1>1. TypeOK /\ ConnInv(c) /\ conns[c].phase = "writing" /\ conns[c].phase \in Underway
  BY DEF Inv, HandlerWrites, Underway
<1>2. /\ item.row \in Nat /\ e \in Entities /\ item.key.body \in Bodies
      /\ item.deps \in SUBSET Entities
  BY <1>1, CurrentType
<1>3. item.deps \subseteq held
  BY <1>1 DEF ConnInv
<1>4. /\ held' = held \union {e}
      /\ value' = [value EXCEPT ![e] = item.key.body]
      /\ parents' = IF item.key.op = "create"
                    THEN [parents EXCEPT ![e] = item.deps] ELSE parents
      /\ landed' = landed \union {item.row}
      /\ rewritten' = IF item.row \in landed
                      THEN rewritten \union {item.row} ELSE rewritten
      /\ accepted' = accepted /\ refused' = refused
      /\ Applies(item.key)
  BY DEF HandlerWrites, ledger
<1>5. conns' = [conns EXCEPT ![c] =
                  [conns[c] EXCEPT !.phase = "storing", !.verdict = "accepted"]]
  BY DEF HandlerWrites, Decide
<1>6. /\ conns' \in [Conns -> Conn]
      /\ (\A d \in Conns : ConnInv(d)') /\ AnswersAreOnRecord'
  <2>1. "storing" \in Underway /\ "accepted" \in Verdicts
    BY DEF Underway, Verdicts
  <2>2. held \subseteq held' /\ e \in held'
    BY <1>4
  <2>3. /\ conns' \in [Conns -> Conn]
        /\ \A d \in Conns \ {c} : conns'[d] = conns[d]
        /\ ConnInv(c)' /\ AnswerOnRecord(c)'
    <3> HIDE DEF item, e
    <3>1. /\ "storing" = "writing" => Current(c).deps \subseteq held
          /\ "storing" = "storing" /\ "accepted" = "accepted"
               => Current(c).key.entity \in held'
      BY <2>2 DEF item, e
    <3>2. QED
      BY <2>1, <2>2, <3>1, <1>1, <1>4, <1>5, PhaseKeeps
  <2>4. QED
    BY <2>2, <2>3, <1>4, OthersKept
<1>7. TypeOK'
  <2>1. accepted' \subseteq Key /\ refused' \subseteq Key /\ held' \subseteq Entities
    BY <1>1, <1>2, <1>4 DEF TypeOK
  <2>2. value' \in [Entities -> Bodies \union {None}]
    BY <1>1, <1>2, <1>4 DEF TypeOK
  <2>3. parents' \in [Entities -> SUBSET Entities]
    BY <1>1, <1>2, <1>4 DEF TypeOK
  <2>4. landed' \subseteq Nat /\ rewritten' \subseteq Nat
    BY <1>1, <1>2, <1>4 DEF TypeOK
  <2>5. QED
    BY <2>1, <2>2, <2>3, <2>4, <1>6 DEF TypeOK
<1>8. ReceiptMeansHeld'
  BY <1>4 DEF Inv, ReceiptMeansHeld
<1>9. NoOrphans'
  <2> SUFFICES ASSUME NEW f \in held' PROVE parents'[f] \subseteq held'
    BY DEF NoOrphans
  <2>1. parents \in [Entities -> SUBSET Entities] /\ held \subseteq Entities
    BY <1>1 DEF TypeOK
  <2>2. f \in held => parents[f] \subseteq held
    BY DEF Inv, NoOrphans
  <2>3. CASE item.key.op = "create"
    BY <2>1, <2>2, <2>3, <1>2, <1>3, <1>4
  <2>4. CASE item.key.op # "create"
    <3>1. e \in held
      BY <2>4, <1>4 DEF Applies
    <3>2. QED
      BY <3>1, <2>2, <2>4, <1>4
  <2>5. QED
    BY <2>3, <2>4
<1>10. QED
  BY <1>6, <1>7, <1>8, <1>9 DEF Inv

LEMMA FindsOwnKeeps ==
  ASSUME Inv, NEW c \in Conns, HandlerFindsOwn(c)
  PROVE  Inv'
<1> DEFINE item == Current(c)
           e == item.key.entity
<1>1. TypeOK /\ ConnInv(c) /\ conns[c].phase \in Underway
  BY DEF Inv, HandlerFindsOwn, Underway
<1>2. item.row \in Nat /\ e \in Entities /\ item.key.body \in Bodies
  BY <1>1, CurrentType
<1>3. /\ accepted' = accepted /\ refused' = refused
      /\ held' = held /\ parents' = parents /\ landed' = landed
      /\ \/ /\ value' = [value EXCEPT ![e] = item.key.body]
            /\ rewritten' = rewritten \union {item.row}
         \/ value' = value /\ rewritten' = rewritten
      /\ e \in held
  BY DEF HandlerFindsOwn, ledger
<1>4. conns' = [conns EXCEPT ![c] =
                  [conns[c] EXCEPT !.phase = "storing", !.verdict = "accepted"]]
  BY DEF HandlerFindsOwn, Decide
<1>5. /\ conns' \in [Conns -> Conn]
      /\ \A d \in Conns \ {c} : conns'[d] = conns[d]
      /\ ConnInv(c)' /\ AnswerOnRecord(c)'
  <2>1. "storing" \in Underway /\ "accepted" \in Verdicts
    BY DEF Underway, Verdicts
  <2>2. Current(c).key.entity \in held'
    BY <1>3
  <2>3. QED
    BY <2>1, <2>2, <1>1, <1>3, <1>4, PhaseKeeps
<1>6. (\A d \in Conns : ConnInv(d)') /\ AnswersAreOnRecord'
  BY <1>3, <1>5, OthersKept
<1>7. TypeOK'
  BY <1>1, <1>2, <1>3, <1>5 DEF TypeOK
<1>8. ReceiptMeansHeld' /\ NoOrphans'
  BY <1>3 DEF Inv, ReceiptMeansHeld, NoOrphans
<1>9. QED
  BY <1>6, <1>7, <1>8 DEF Inv

LEMMA DeclineKeeps ==
  ASSUME Inv, NEW c \in Conns, HandlerRefuses(c) \/ HandlerPostpones(c)
  PROVE  Inv'
<1>1. /\ TypeOK /\ ConnInv(c) /\ conns[c].phase \in Underway
      /\ UNCHANGED <<ledger, tables, history>>
  BY DEF Inv, HandlerRefuses, HandlerPostpones, Underway
<1>2. held' = held /\ accepted' = accepted
  BY <1>1 DEF ledger, tables
<1>3. CASE HandlerRefuses(c)
  <2>1. conns' = [conns EXCEPT ![c] =
                    [conns[c] EXCEPT !.phase = "storing", !.verdict = "rejected"]]
    BY <1>3 DEF HandlerRefuses, Decide
  <2>2. "storing" \in Underway /\ "rejected" \in Verdicts
    BY DEF Underway, Verdicts
  <2>3. QED
    BY <2>1, <2>2, <1>1, <1>2, PhaseKeeps, OnlyConn
<1>4. CASE HandlerPostpones(c)
  <2>1. Answer(c, "retry") /\ "retry" \in Verdicts
    BY <1>4 DEF HandlerPostpones, Verdicts
  <2>2. QED
    BY <2>1, <1>1, <1>2, AnswerKeeps, AnswerEffect, OnlyConn
<1>5. QED
  BY <1>3, <1>4

LEMMA ReceiptKeeps ==
  ASSUME Inv, NEW c \in Conns, StoreReceipt(c)
  PROVE  Inv'
<1> DEFINE key == Current(c).key
           v == conns[c].verdict
<1>1. /\ TypeOK /\ ConnInv(c)
      /\ conns[c].phase = "storing" /\ conns[c].phase \in Underway
  BY DEF Inv, StoreReceipt, Underway
<1>2. v \in Verdicts /\ key \in Key
  BY <1>1, CurrentType DEF TypeOK, Conn
<1>3. /\ IF v = "accepted"
         THEN accepted' = accepted \union {key} /\ refused' = refused \ {key}
         ELSE /\ refused' = IF key \in accepted THEN refused ELSE refused \union {key}
              /\ accepted' = accepted
      /\ Answer(c, v)
      /\ UNCHANGED <<held, value, parents, landed, rewritten>>
  BY DEF StoreReceipt, tables, history
<1>4. accepted \subseteq accepted' /\ held' = held
  BY <1>3
<1>5. v = "accepted" => key \in accepted' /\ key.entity \in held
  BY <1>1, <1>3 DEF ConnInv
<1>6. ConnInv(c)' /\ AnswerOnRecord(c)'
  BY <1>1, <1>2, <1>3, <1>4, <1>5, AnswerKeeps
<1>7. /\ conns' \in [Conns -> Conn]
      /\ \A d \in Conns \ {c} : conns'[d] = conns[d]
  BY <1>1, <1>2, <1>3, AnswerEffect
<1>8. (\A d \in Conns : ConnInv(d)') /\ AnswersAreOnRecord'
  BY <1>4, <1>6, <1>7, OthersKept
<1>9. TypeOK'
  BY <1>1, <1>2, <1>3, <1>7 DEF TypeOK
<1>10. ReceiptMeansHeld'
  BY <1>3, <1>5 DEF Inv, ReceiptMeansHeld
<1>11. NoOrphans'
  BY <1>3 DEF Inv, NoOrphans
<1>12. QED
  BY <1>8, <1>9, <1>10, <1>11 DEF Inv
-----------------------------------------------------------------------------
LEMMA StepInv == Inv /\ [Next]_officeVars => Inv'
<1> SUFFICES ASSUME Inv, [Next]_officeVars PROVE Inv'
  OBVIOUS
<1>1. CASE Next
  <2>1. PICK c \in Conns : Send(c) \/ Serve(c) \/ Lose(c) \/ Abandon(c)
    BY <1>1 DEF Next
  <2>2. CASE Send(c) \/ Lose(c) \/ Abandon(c)
    BY <2>2, WireKeeps
  <2>3. CASE Arrive(c) \/ Judge(c)
    BY <2>3, JudgeKeeps
  <2>4. CASE Handle(c)
    BY <2>4, WriteKeeps, FindsOwnKeeps, DeclineKeeps DEF Handle
  <2>5. CASE StoreReceipt(c)
    BY <2>5, ReceiptKeeps
  <2>6. QED
    BY <2>1, <2>2, <2>3, <2>4, <2>5 DEF Serve
<1>2. CASE UNCHANGED officeVars
  BY <1>2 DEF officeVars, ledger, tables, history, Inv, TypeOK, ReceiptMeansHeld,
              NoOrphans, AnswersAreOnRecord, ConnInv, Current
<1>3. QED
  BY <1>1, <1>2

(* The inductive invariant holds throughout.                               *)
THEOREM Invariance == Spec => []Inv
<1>1. QED
  BY InitInv, StepInv, PTL DEF Spec

(* Every variable of the ingest keeps its type.                            *)
THEOREM TypeCorrect == Spec => []TypeOK
<1>1. Inv => TypeOK
  BY DEF Inv
<1>2. QED
  BY <1>1, Invariance, PTL

(* What the receipts ledger accepts, the tables hold: replaying a receipt  *)
(* never tells a handset that the office has a record it has not.          *)
THEOREM ReceiptsAreHonest == Spec => []ReceiptMeansHeld
<1>1. Inv => ReceiptMeansHeld
  BY DEF Inv
<1>2. QED
  BY <1>1, Invariance, PTL

(* No record is ever in the tables without the records it was filed with,  *)
(* whatever requests handsets send and however they overlap.               *)
THEOREM NothingIsOrphaned == Spec => []NoOrphans
<1>1. Inv => NoOrphans
  BY DEF Inv
<1>2. QED
  BY <1>1, Invariance, PTL

(* Whatever an answer calls accepted is on record as accepted, so a resend *)
(* after a lost answer is told the same.                                   *)
THEOREM AnswersAreBacked == Spec => []AnswersAreOnRecord
<1>1. Inv => AnswersAreOnRecord
  BY DEF Inv
<1>2. QED
  BY <1>1, Invariance, PTL

LEMMA StepKeepsReceipts == [Next]_officeVars => accepted \subseteq accepted'
<1> SUFFICES ASSUME [Next]_officeVars PROVE accepted \subseteq accepted'
  OBVIOUS
<1>1. CASE Next
  <2>1. PICK c \in Conns : Send(c) \/ Serve(c) \/ Lose(c) \/ Abandon(c)
    BY <1>1 DEF Next
  <2>2. CASE Send(c) \/ Lose(c) \/ Abandon(c) \/ Arrive(c) \/ Judge(c) \/ Handle(c)
    BY <2>2 DEF Send, Lose, Abandon, Arrive, Judge, Replay, RefuseDependent,
                DeferMissing, PassToHandler, Handle, HandlerWrites, HandlerFindsOwn,
                HandlerRefuses, HandlerPostpones, ledger
  <2>3. CASE StoreReceipt(c)
    BY <2>3 DEF StoreReceipt
  <2>4. QED
    BY <2>1, <2>2, <2>3 DEF Serve
<1>2. CASE UNCHANGED officeVars
  BY <1>2 DEF officeVars, ledger
<1>3. QED
  BY <1>1, <1>2

(* The first accepted answer stands for ever, through every race of two    *)
(* copies of one request.                                                  *)
THEOREM AcceptanceIsForever == Spec => AcceptedStands
<1>1. QED
  BY StepKeepsReceipts, PTL DEF Spec, AcceptedStands
-----------------------------------------------------------------------------
(* What a handset's outbox promises of the rows it sends: whenever a row   *)
(* goes out, it goes out as the same operation on the same record.  Once   *)
(* inserted, only a row's state and schedule are updated (sync/queue.ts).  *)
RowsKeepTheirRecord ==
  \A s, t \in Requests : \A i \in DOMAIN s, j \in DOMAIN t :
    s[i].row = t[j].row => s[i].key.entity = t[j].key.entity /\ s[i].key.op = t[j].key.op

(* What is in hand was sent, and a row that has been applied was one of a  *)
(* record the tables hold.                                                 *)
InHandWasSent == \A c \in Conns : conns[c].phase # "idle" => conns[c].items \in Requests
LandedIsHeld ==
  \A r \in landed : \E s \in Requests : \E i \in DOMAIN s : s[i].row = r /\ s[i].key.entity \in held

MadeInv == Inv /\ InHandWasSent /\ LandedIsHeld

LEMMA InHandIs ==
  ASSUME MadeInv, NEW c \in Conns, conns[c].phase \in Underway
  PROVE  /\ conns[c].items \in Requests /\ conns[c].at \in DOMAIN conns[c].items
         /\ Current(c) = conns[c].items[conns[c].at] /\ Current(c) \in Item
<1>1. conns[c] \in Conn /\ ConnInv(c)
  BY DEF MadeInv, Inv, TypeOK
<1>2. conns[c].items \in Requests
  BY DEF MadeInv, InHandWasSent, Underway
<1>3. conns[c].items \in Seq(Item) /\ conns[c].at \in 1 .. Len(conns[c].items)
  BY <1>1 DEF ConnInv, Conn
<1>4. conns[c].at \in DOMAIN conns[c].items
  BY <1>3
<1>5. QED
  BY <1>2, <1>3, <1>4 DEF Current

(* Nothing a connection does changes what it was sent.                     *)
LEMMA ItemsStand ==
  ASSUME MadeInv, NEW c \in Conns, Send(c) \/ Serve(c) \/ Lose(c) \/ Abandon(c)
  PROVE  InHandWasSent'
<1>1. TypeOK /\ conns \in [Conns -> Conn] /\ conns[c] \in Conn /\ InHandWasSent
  BY DEF MadeInv, Inv, TypeOK
<1>2. ASSUME NEW k, conns' = [conns EXCEPT ![c] = k],
             k.phase = "idle" \/ k.items \in Requests
      PROVE  InHandWasSent'
  BY <1>1, <1>2 DEF InHandWasSent
<1>3. CASE Send(c)
  <2>1. PICK items \in Requests : conns' = [conns EXCEPT ![c] = Carrying("travelling", items, 1)]
    BY <1>3 DEF Send, Submit
  <2>2. QED
    BY <1>2, <2>1 DEF Carrying
<1>4. CASE Lose(c) \/ Abandon(c)
  BY <1>2, <1>4 DEF Lose, Abandon, NoConn, Carrying
<1>5. CASE Arrive(c) \/ PassToHandler(c)
  <2>1. PICK k : k = [conns[c] EXCEPT !.phase = IF Arrive(c) THEN "judging" ELSE "writing"]
    OBVIOUS
  <2>2. k.items = conns[c].items /\ conns[c].phase # "idle"
    BY <1>1, <1>5, <2>1 DEF Conn, Arrive, PassToHandler
  <2>3. conns' = [conns EXCEPT ![c] = k]
    BY <1>1, <1>5, <2>1 DEF Arrive, PassToHandler
  <2>4. QED
    BY <1>1, <1>2, <2>2, <2>3 DEF InHandWasSent
<1>6. ASSUME NEW v, Decide(c, v), conns[c].phase # "idle" PROVE InHandWasSent'
  <2>1. PICK k : k = [conns[c] EXCEPT !.phase = "storing", !.verdict = v]
    OBVIOUS
  <2>2. k.items = conns[c].items
    BY <1>1, <2>1 DEF Conn
  <2>3. QED
    BY <1>1, <1>2, <1>6, <2>1, <2>2 DEF Decide, InHandWasSent
<1>7. ASSUME NEW v, Answer(c, v), conns[c].phase # "idle" PROVE InHandWasSent'
  <2> DEFINE e == Current(c).key.entity
             k == [phase |-> IF conns[c].at = Len(conns[c].items) THEN "answered" ELSE "judging",
                   items |-> conns[c].items, at |-> conns[c].at + 1,
                   acceptedHere |-> IF v = "accepted" THEN conns[c].acceptedHere \union {e}
                                                      ELSE conns[c].acceptedHere,
                   refusedHere |-> IF v = "rejected" THEN conns[c].refusedHere \union {e}
                                                     ELSE conns[c].refusedHere,
                   verdict |-> "retry", results |-> Append(conns[c].results, v)]
  <2>1. conns' = [conns EXCEPT ![c] = k]
    BY <1>7 DEF Answer
  <2>2. k.items = conns[c].items
    OBVIOUS
  <2> HIDE DEF k
  <2>3. QED
    BY <1>1, <1>2, <1>7, <2>1, <2>2 DEF InHandWasSent
<1>8. CASE Replay(c) \/ RefuseDependent(c) \/ DeferMissing(c)
  BY <1>6, <1>7, <1>8 DEF Replay, RefuseDependent, DeferMissing
<1>9. CASE Handle(c) \/ StoreReceipt(c)
  BY <1>6, <1>7, <1>9 DEF Handle, HandlerWrites, HandlerFindsOwn, HandlerRefuses, HandlerPostpones, StoreReceipt
<1>10. QED
  BY <1>3, <1>4, <1>5, <1>8, <1>9 DEF Serve, Judge

(* The tables and their history, at any step but the write of a handler.   *)
LEMMA ElseNothingLands ==
  ASSUME NEW c \in Conns, Send(c) \/ Serve(c) \/ Lose(c) \/ Abandon(c), ~HandlerWrites(c)
  PROVE  landed' = landed /\ held' = held /\ (rewritten' = rewritten \/ HandlerFindsOwn(c))
<1>1. CASE HandlerFindsOwn(c)
  BY <1>1 DEF HandlerFindsOwn
<1>2. CASE ~HandlerFindsOwn(c)
  BY <1>2 DEF Send, Serve, Lose, Abandon, Arrive, Judge, Replay, RefuseDependent, DeferMissing, PassToHandler,
     Handle, HandlerRefuses, HandlerPostpones, StoreReceipt, tables, history
<1>3. QED
  BY <1>1, <1>2

LEMMA MadeStep == MadeInv /\ [Next]_officeVars => MadeInv'
<1> SUFFICES ASSUME MadeInv, [Next]_officeVars PROVE MadeInv'
  OBVIOUS
<1>1. Inv'
  BY StepInv DEF MadeInv
<1>2. CASE UNCHANGED officeVars
  BY <1>1, <1>2 DEF officeVars, tables, history, MadeInv, InHandWasSent, LandedIsHeld
<1>3. ASSUME NEW c \in Conns, Send(c) \/ Serve(c) \/ Lose(c) \/ Abandon(c) PROVE MadeInv'
  <2>1. InHandWasSent'
    BY <1>3, ItemsStand
  <2>2. CASE ~HandlerWrites(c)
    BY <1>1, <1>3, <2>1, <2>2, ElseNothingLands DEF MadeInv, LandedIsHeld
  <2>3. CASE HandlerWrites(c)
    <3>1. conns[c].phase \in Underway
      BY <2>3 DEF HandlerWrites, Underway
    <3>2. /\ landed' = landed \union {Current(c).row}
          /\ held' = held \union {Current(c).key.entity}
      BY <2>3 DEF HandlerWrites
    <3>3. \E s \in Requests : \E i \in DOMAIN s : s[i].row = Current(c).row /\ s[i].key.entity \in held'
      BY <3>1, <3>2, InHandIs
    <3>4. LandedIsHeld'
      BY <3>2, <3>3 DEF MadeInv, LandedIsHeld
    <3>5. QED
      BY <1>1, <2>1, <3>4 DEF MadeInv
  <2>4. QED
    BY <2>2, <2>3
<1>4. QED
  BY <1>2, <1>3 DEF Next

(* A row is applied again only by an update, or as an upsert.              *)
LEMMA AgainIs ==
  ASSUME RowsKeepTheirRecord, MadeInv, [Next]_officeVars, NEW d \in Conns, conns[d].phase = "writing",
         Current(d).row \in rewritten' \ rewritten
  PROVE  Current(d).key.op = "update" \/ Current(d).key.entity \in Upserts
<1>1. PICK c \in Conns : (HandlerWrites(c) \/ HandlerFindsOwn(c)) /\ rewritten' # rewritten
  BY ElseNothingLands DEF Next, officeVars, history
<1>2. conns[c].phase \in Underway /\ conns[d].phase \in Underway
  BY <1>1 DEF HandlerWrites, HandlerFindsOwn, Underway
<1>3. rewritten' \subseteq rewritten \union {Current(c).row}
  BY <1>1 DEF HandlerWrites, HandlerFindsOwn
<1>4. Current(d).row = Current(c).row
  BY <1>3
<1>5. Current(d).key.entity = Current(c).key.entity /\ Current(d).key.op = Current(c).key.op
  <2>1. /\ conns[c].items \in Requests /\ conns[c].at \in DOMAIN conns[c].items
        /\ conns[d].items \in Requests /\ conns[d].at \in DOMAIN conns[d].items
        /\ conns[c].items[conns[c].at].row = conns[d].items[conns[d].at].row
    BY <1>2, <1>4, InHandIs
  <2>2. QED
    BY <2>1 DEF RowsKeepTheirRecord, Current
<1>6. CASE HandlerWrites(c)
  <2>1. Current(c).row \in landed /\ Applies(Current(c).key)
    BY <1>1, <1>6 DEF HandlerWrites, HandlerFindsOwn
  <2>2. PICK s \in Requests : \E i \in DOMAIN s : s[i].row = Current(c).row /\ s[i].key.entity \in held
    BY <2>1 DEF MadeInv, LandedIsHeld
  <2>3. Current(c).key.entity \in held
    BY <1>2, <2>2, InHandIs DEF RowsKeepTheirRecord
  <2>4. Current(c).key.op \in Ops
    BY <1>2, InHandIs DEF Item, Key
  <2>5. QED
    BY <1>5, <2>1, <2>3, <2>4 DEF Applies, Ops
<1>7. CASE HandlerFindsOwn(c)
  <2>1. Current(c).key.entity \in Upserts
    BY <1>1, <1>7 DEF HandlerFindsOwn
  <2>2. QED
    BY <1>5, <2>1
<1>8. QED
  BY <1>1, <1>6, <1>7

(* Where each row is always the same operation on the same record, a       *)
(* record made once is not made again: no create but an upsert's is ever   *)
(* applied twice, however often and over however many connections it is    *)
(* sent (the check of each handler of mbos.ts for the client's id).        *)
THEOREM CreatesAreMadeOnce ==
  ASSUME RowsKeepTheirRecord
  PROVE  Spec => CreatesLandOnce
<1>1. IngestInit => MadeInv
  BY InitInv DEF IngestInit, NoConn, Carrying, MadeInv, InHandWasSent, LandedIsHeld
<1>2. MadeInv /\ [Next]_officeVars =>
        [\A c \in Conns :
           /\ conns[c].phase = "writing"
           /\ Current(c).row \in rewritten' \ rewritten
           => Current(c).key.op = "update" \/ Current(c).key.entity \in Upserts]_officeVars
  BY AgainIs
<1>3. QED
  BY <1>1, <1>2, MadeStep, PTL DEF Spec, CreatesLandOnce
=============================================================================
