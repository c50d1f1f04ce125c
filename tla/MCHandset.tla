----------------------------- MODULE MCHandset ------------------------------
(* Four parts of the handset that share no state here, each on an instance *)
(* of its own: the files, what is pulled, whose handset it is, and the     *)
(* trail.  subject says which of them a behaviour is of.  The pull is      *)
(* looked at three ways, each leaving alone what the others move: "pages"  *)
(* of shops, each changed once and at once, "books" that change hands, and *)
(* "leads" that are edited and put in the trash.  The trail is looked at   *)
(* two ways: sent by the app alone ("trail"), and by the app and its       *)
(* recorder ("recorder").                                                  *)
EXTENDS MediaQueue, FieldPull, FieldSession, TrailFlush

CONSTANT Subjects   \* the parts to be checked
VARIABLE subject

CONSTANTS s1, s2, s3, l1

TwoDays == <<"first", "first", "second", "second">>
-----------------------------------------------------------------------------
handsetVars == <<subject, mediaVars, pullVars, sessionVars, trailVars>>

OfPull == subject \in {"pages", "books", "leads"}
OfTrail == subject \in {"trail", "recorder"}

(* Only where there is a recorder does it say that it sends.               *)
HandsetInit ==
  /\ subject \in Subjects
  /\ MediaInit /\ PullInit /\ SessionInit /\ TrailInit
  /\ subject # "recorder" => ~believes

Untouched(S) == \A r \in S : at'[r] = 0 /\ writing'[r] = NoInstant

OneWay ==
  CASE subject = "pages" ->
         /\ Untouched(Leads) /\ book' = Shops /\ edited' = {} /\ trash' = trash
         /\ ~TakeSnapshot
         /\ \A s \in Shops : writing[s] # NoInstant => clock' = clock
         /\ \A s \in Shops : writing'[s] # NoInstant => at[s] = 0
    [] subject = "books" ->
         /\ Untouched(Leads \cup {s3}) /\ {s2, s3} \subseteq book' /\ edited' = {} /\ trash' = trash
         /\ clock' <= 4
    [] subject = "leads" -> Untouched(Shops) /\ book' = Shops /\ clock' <= 5
    [] subject = "trail" -> buffer' = {} /\ ~believes' /\ silent' = silent
    [] subject = "recorder" -> aged' = 0 /\ tracking' /\ taken' <= 3 /\ known' \subseteq {"second"}

HandsetNext ==
  \/ subject = "media" /\ MediaNext /\ UNCHANGED <<subject, pullVars, sessionVars, trailVars>>
  \/ OfPull /\ PullNext /\ OneWay /\ UNCHANGED <<subject, mediaVars, sessionVars, trailVars>>
  \/ subject = "session" /\ SessionNext /\ UNCHANGED <<subject, mediaVars, pullVars, trailVars>>
  \/ OfTrail /\ TrailNext /\ OneWay /\ UNCHANGED <<subject, mediaVars, pullVars, sessionVars>>

HandsetFair ==
  /\ WF_<<pullVars, trailVars>>(\/ OfPull /\ PassStep /\ UNCHANGED trailVars
                                \/ OfTrail /\ FlushStep /\ UNCHANGED pullVars)
  /\ WF_trailVars(GoSilent)
  /\ MediaFair

HandsetSpec == HandsetInit /\ [][HandsetNext]_handsetVars /\ HandsetFair

HandsetTypeOK ==
  CASE subject = "media" -> MediaTypeOK
    [] subject = "session" -> SessionTypeOK
    [] OfTrail -> TrailTypeOK
    [] OTHER -> PullTypeOK

(* What the loops of the handset must bring about: every file of a saved   *)
(* record goes up or is shown as failed, every fix of a day the office     *)
(* knows leaves for it, and once the office is quiet the handset shows     *)
(* what the office does (media.ts, trail.ts, engine.ts).                   *)
HandsetSettles == FilesSettle /\ TrailArrives /\ HandsetCatchesUp
=============================================================================
