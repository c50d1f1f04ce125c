---------------------------- MODULE FieldSession ----------------------------
(***************************************************************************)
(* Whose handset it is: the token pair in the keychain (sync/api.ts), the  *)
(* session, the person it was last signed in for and the book it holds     *)
(* (data/session.ts), whose it is at the office (mbos_devices), and whose  *)
(* name the outbox goes up under.  A record goes up with the token of the  *)
(* moment, and the office files it under that token's person.  So a        *)
(* colleague may sign in only once what the last person queued has gone    *)
(* (handoverVerdict), and the office has released the handset.             *)
(***************************************************************************)
EXTENDS FiniteSets

CONSTANTS
  People, Nobody,
  Lingers,         \* whether a request outlives the session it was made in
  KilledSigningIn  \* whether the app dies, or its storage fails, once a
                   \* sign-in has stored the book

ASSUME FieldSessionAssumption ==
  /\ Nobody \notin People
  /\ Lingers \in BOOLEAN /\ KilledSigningIn \in BOOLEAN

VARIABLES
  bound,     \* at the office: whose handset it is, Nobody's once released
  pair,      \* whose access and refresh tokens the keychain holds
  session,   \* who is signed in
  last,      \* mbos.lastUser
  offline,   \* whose credential is cached for signing in without signal
  books,     \* whose rows are on the handset
  unsent,    \* people with work in the outbox
  signing,   \* the sign-in under way: who, and how far
  carrying,  \* the request of a pass: under whose token, with whose work,
             \* and whether the office has taken it
  renewing,  \* whose refresh token is out, and whether the office renewed it
  filed      \* what the office filed: by whom, under whom

holderVars == <<session, last, offline, books, unsent>>
requestVars == <<carrying, renewing>>
sessionVars == <<bound, pair, holderVars, signing, requestVars, filed>>

NoSigning == [who |-> Nobody, step |-> "none"]
NoRequest == [as |-> Nobody, work |-> {}, taken |-> FALSE]
NoRenewal == [of |-> Nobody, given |-> FALSE]

SessionInit ==
  /\ bound = Nobody /\ pair = Nobody /\ session = Nobody
  /\ last = Nobody /\ offline = Nobody
  /\ books = {} /\ unsent = {} /\ filed = {}
  /\ signing = NoSigning /\ carrying = NoRequest /\ renewing = NoRenewal
-----------------------------------------------------------------------------
(* handoverVerdict: the same person, the first, or one who finds nothing   *)
(* waiting.                                                                *)
MayTakeOver(same) == same \/ last = Nobody \/ unsent = {}

(* Asked on the handset first, of the number alone.  The last person's     *)
(* address does not read as his, and a colleague's may.                    *)
BeginSignIn(who, same) ==
  /\ session = Nobody /\ signing = NoSigning
  /\ MayTakeOver(same)
  /\ signing' = [who |-> who, step |-> "asked"]
  /\ UNCHANGED <<bound, pair, holderVars, requestVars, filed>>

(* mbosLogin: a handset another person is active on is not his to sign in  *)
(* on.  From here it is his, whatever becomes of the answer.               *)
LetIn ==
  /\ signing.step = "asked"
  /\ bound \in {Nobody, signing.who}
  /\ bound' = signing.who
  /\ signing' = [signing EXCEPT !.step = "named"]
  /\ UNCHANGED <<pair, holderVars, requestVars, filed>>

(* Refused, unanswered or cancelled before anything is written.            *)
TurnedAway ==
  /\ signing.step \in {"asked", "named"}
  /\ signing' = NoSigning
  /\ UNCHANGED <<bound, pair, holderVars, requestVars, filed>>

(* Mutant: the rule is not asked again of the account.                     *)
TakeOverUnchecked ==
  /\ signing.step = "named"
  /\ signing' = [signing EXCEPT !.step = "paired"]
  /\ pair' = signing.who
  /\ UNCHANGED <<bound, holderVars, requestVars, filed>>

(* Mutant: the last person's book stays.                                   *)
TakeOverHisBook ==
  /\ signing.step = "named"
  /\ MayTakeOver(signing.who = last)
  /\ signing' = [signing EXCEPT !.step = "paired"]
  /\ pair' = signing.who
  /\ offline' = IF last = signing.who THEN offline ELSE Nobody
  /\ UNCHANGED <<bound, session, last, books, unsent, requestVars, filed>>

(* The office has named the account, the rule is asked again, and the last *)
(* person's day is taken off the handset before the pair is stored.        *)
TakeOver ==
  /\ signing.step = "named"
  /\ MayTakeOver(signing.who = last)
  /\ signing' = [signing EXCEPT !.step = "paired"]
  /\ pair' = signing.who
  /\ IF last \in {Nobody, signing.who}
     THEN UNCHANGED <<books, unsent, offline>>
     ELSE books' = {} /\ unsent' = {} /\ offline' = Nobody
  /\ UNCHANGED <<bound, session, last, requestVars, filed>>

(* Cancelled: the pair goes again.                                         *)
Cancel ==
  /\ signing.step = "paired"
  /\ signing' = NoSigning /\ pair' = Nobody
  /\ UNCHANGED <<bound, holderVars, requestVars, filed>>

(* The book, the session and the last person are written one after the     *)
(* other.                                                                  *)
TakeBook ==
  /\ signing.step = "paired"
  /\ signing' = [signing EXCEPT !.step = "book"]
  /\ books' = books \union {signing.who}
  /\ UNCHANGED <<bound, pair, session, last, offline, unsent, requestVars, filed>>

Persist ==
  /\ signing.step = "book"
  /\ signing' = [signing EXCEPT !.step = "persisted"]
  /\ session' = signing.who
  /\ UNCHANGED <<bound, pair, last, offline, books, unsent, requestVars, filed>>

RememberHim ==
  /\ signing.step = "persisted"
  /\ signing' = NoSigning
  /\ last' = signing.who
  /\ offline' \in {signing.who, Nobody}
  /\ UNCHANGED <<bound, pair, session, books, unsent, requestVars, filed>>

(* The app is killed, or the keychain or the database says no: what has    *)
(* been written stays written.                                             *)
SignInDies ==
  /\ \/ signing.step = "paired"
     \/ KilledSigningIn /\ signing.step \in {"book", "persisted"}
  /\ signing' = NoSigning
  /\ UNCHANGED <<bound, pair, holderVars, requestVars, filed>>

(* signInOffline: nothing but the session is written.                      *)
SignInOffline ==
  /\ session = Nobody /\ signing = NoSigning /\ offline # Nobody
  /\ session' = offline
  /\ UNCHANGED <<bound, pair, last, offline, books, unsent, signing, requestVars, filed>>

(* signOut: the pair and the session go; the outbox, the book and whose    *)
(* they are stay.                                                          *)
SignOut ==
  /\ session # Nobody /\ signing = NoSigning
  /\ Lingers \/ (carrying = NoRequest /\ renewing = NoRenewal)
  /\ pair' = Nobody /\ session' = Nobody
  /\ UNCHANGED <<bound, last, offline, books, unsent, signing, requestVars, filed>>

(* An admin releases the handset, so that it can be handed on.             *)
Release ==
  /\ bound # Nobody
  /\ bound' = Nobody
  /\ UNCHANGED <<pair, holderVars, signing, requestVars, filed>>
-----------------------------------------------------------------------------
Work ==
  /\ session # Nobody /\ signing = NoSigning
  /\ unsent' = unsent \union {session}
  /\ UNCHANGED <<bound, pair, session, last, offline, books, signing, requestVars, filed>>

(* A pass puts whatever waits into one request, under the token there is.  *)
SendPass ==
  /\ session # Nobody /\ signing = NoSigning /\ carrying = NoRequest /\ pair # Nobody
  /\ carrying' = [as |-> pair, work |-> unsent, taken |-> FALSE]
  /\ UNCHANGED <<bound, pair, holderVars, signing, renewing, filed>>

(* The office takes the request, from the person the handset is bound to,  *)
(* and files the work under him (loadPrincipal).                           *)
OfficeTakes ==
  /\ carrying # NoRequest /\ ~carrying.taken /\ renewing = NoRenewal
  /\ bound = carrying.as
  /\ filed' = filed \union {[by |-> p, under |-> carrying.as] : p \in carrying.work}
  /\ carrying' = [carrying EXCEPT !.taken = TRUE]
  /\ UNCHANGED <<bound, pair, holderVars, signing, renewing>>

(* What comes back is that person's book.                                  *)
PassAnswered ==
  /\ carrying.taken
  /\ unsent' = unsent \ carrying.work
  /\ books' = books \union {carrying.as}
  /\ carrying' = NoRequest
  /\ UNCHANGED <<bound, pair, session, last, offline, signing, renewing, filed>>

(* Refused, or not answered: what waited goes on waiting.                  *)
PassFails ==
  /\ carrying # NoRequest /\ renewing = NoRenewal
  /\ carrying' = NoRequest
  /\ UNCHANGED <<bound, pair, holderVars, signing, renewing, filed>>

(* The token has lapsed: tryRefresh sends the refresh token there is.      *)
Lapsed ==
  /\ carrying # NoRequest /\ ~carrying.taken /\ renewing = NoRenewal /\ pair # Nobody
  /\ renewing' = [of |-> pair, given |-> FALSE]
  /\ UNCHANGED <<bound, pair, holderVars, signing, carrying, filed>>

OfficeRenews ==
  /\ renewing # NoRenewal /\ ~renewing.given /\ bound = renewing.of
  /\ renewing' = [renewing EXCEPT !.given = TRUE]
  /\ UNCHANGED <<bound, pair, holderVars, signing, carrying, filed>>

(* Answered, it stores the new pair whatever has become of the old one,    *)
(* and the request is made again under it.                                 *)
Refreshed ==
  /\ renewing.given
  /\ pair' = renewing.of
  /\ carrying' = [carrying EXCEPT !.as = renewing.of]
  /\ renewing' = NoRenewal
  /\ UNCHANGED <<bound, holderVars, signing, filed>>

(* Refused, or not answered at all.                                        *)
NotRefreshed ==
  /\ renewing # NoRenewal
  /\ renewing' = NoRenewal /\ carrying' = NoRequest
  /\ UNCHANGED <<bound, pair, holderVars, signing, filed>>

SessionNext ==
  \/ \E who \in People, same \in BOOLEAN : BeginSignIn(who, same)
  \/ LetIn \/ TurnedAway \/ TakeOver \/ Cancel \/ TakeBook \/ Persist \/ RememberHim
  \/ SignInDies \/ SignInOffline \/ SignOut \/ Release
  \/ Work \/ SendPass \/ OfficeTakes \/ PassAnswered \/ PassFails
  \/ Lapsed \/ OfficeRenews \/ Refreshed \/ NotRefreshed

SessionSpec == SessionInit /\ [][SessionNext]_sessionVars
-----------------------------------------------------------------------------
SessionTypeOK ==
  /\ {bound, pair, session, last, offline} \subseteq People \union {Nobody}
  /\ books \subseteq People /\ unsent \subseteq People
  /\ signing \in [who : People \union {Nobody},
                  step : {"none", "asked", "named", "paired", "book", "persisted"}]
  /\ carrying \in [as : People \union {Nobody}, work : SUBSET People, taken : BOOLEAN]
  /\ renewing \in [of : People \union {Nobody}, given : BOOLEAN]
  /\ filed \subseteq [by : People, under : People]

(* What a person queued is filed under that person, however often the      *)
(* handset changed hands, with signal or without, before it went           *)
(* (session.ts, signOut: "it can never go up as somebody else's").         *)
FiledUnderItsAuthor == \A f \in filed : f.by = f.under

(* Whoever is signed in finds nobody else's book on the handset.           *)
BookIsHis == session # Nobody => books \subseteq {session}

(* Nothing waits on the handset of anybody but the person it was last      *)
(* signed in for: he is the one who can still send it.                     *)
WaitingIsTheLastPersons == signing = NoSigning => unsent \subseteq {last}

(* A handset is one person's at a time (session.ts, handoverVerdict): his  *)
(* the book, his what waits in the outbox, and his what was filed of it.   *)
OnePersonAtATime == FiledUnderItsAuthor /\ BookIsHis /\ WaitingIsTheLastPersons

(* Once he has signed out, the pair stays gone until somebody signs in      *)
(* (api.ts, clearTokens: "a handset that could still post for somebody who *)
(* has left").                                                             *)
StaysSignedOut ==
  [][session = Nobody /\ pair = Nobody /\ pair' # Nobody => signing.step = "named"]_sessionVars
=============================================================================
