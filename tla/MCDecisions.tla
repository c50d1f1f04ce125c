---------------------------- MODULE MCDecisions -----------------------------
(* What the outbox lets go out, what the office takes in from the field,   *)
(* and what two people decide between them: a queue of records, a record,  *)
(* an order, and a page of the website.  subject says which of them a      *)
(* behaviour is of.                                                        *)
EXTENDS MCOpenIngest, MCOrderDesk, WebsiteReview, OutboxOrder

CONSTANT Subjects   \* the parts to be checked
VARIABLE subject

CONSTANTS page, here, there, none, editor, reviewer

ThreeRecords == <<"visit", "order", "payment">>
-----------------------------------------------------------------------------
decisionVars == <<subject, officeVars, deskVars, reviewVars, queueVars>>

(* Only a behaviour of the website chooses how the page stands at first,   *)
(* and only one of the outbox what its queue stands beside.                *)
DecisionInit ==
  /\ subject \in Subjects
  /\ IngestInit /\ DeskInit /\ ReviewInit /\ QueueInit
  /\ subject # "review" => \A i \in Items : row[i].state = "absent"
  /\ subject # "queue" => synced = {} /\ dead = {} /\ limit = 1

DecisionNext ==
  \/ subject = "ingest" /\ Next /\ UNCHANGED <<subject, deskVars, reviewVars, queueVars>>
  \/ subject = "desk" /\ DeskNext /\ UNCHANGED <<subject, officeVars, reviewVars, queueVars>>
  \/ subject = "review" /\ ReviewNext /\ UNCHANGED <<subject, officeVars, deskVars, queueVars>>
  \/ subject = "queue" /\ QueueNext /\ UNCHANGED <<subject, officeVars, deskVars, reviewVars>>

DecisionSpec == DecisionInit /\ [][DecisionNext]_decisionVars

DecisionTypeOK == TypeOK /\ DeskTypeOK /\ ReviewTypeOK /\ (subject = "queue" => QueueTypeOK)
-----------------------------------------------------------------------------
(* How many are doing each thing, which of them does not matter.           *)
Crew(doing) ==
  [work \in {doing[x] : x \in DOMAIN doing} |->
     Cardinality({x \in DOMAIN doing : doing[x] = work})]

(* Connections, clerks and handlers are alike.  A closed request of the    *)
(* website never acts again: only its end is looked at.                    *)
DecisionView ==
  <<subject,
    Crew(conns), accepted, refused, held, value, parents, landed, rewritten,
    order, changes, Crew(clerk), Crew(handler), audit, answered,
    row, holds, editing, today, queueVars,
    [r \in ChangeRequests |->
       IF request[r].status \in OpenStatuses THEN request[r]
       ELSE [NoRequest EXCEPT !.status = request[r].status]]>>
=============================================================================
