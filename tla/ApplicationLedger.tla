--------------------------- MODULE ApplicationLedger ---------------------------
(***************************************************************************)
(* tools/application-operations.mjs: the ledger of funding applications,   *)
(* the quota counted from it and the preflight that a sender asks before   *)
(* mailing.  Senders, mails and the answers of providers are external.     *)
(* The preflight reserves nothing: between it, the mail and the record     *)
(* another sender, or another spelling of the same application, may come.  *)
(***************************************************************************)
EXTENDS Naturals, Sequences, FiniteSetsExt, SequencesExt

CONSTANTS
  Name, Program, Slug,   \* Slug \in [Name -> Program]: organization, program and cycle
  Category, Sender, None,
  Statuses,              \* the statuses an operator uses, a subset of Status
  MaxEvents              \* bound on what happens to one application

VARIABLES
  migrated,  \* migration.status = "complete" and counting_enabled
  ledger,    \* [Application -> record, or None]
  granted,   \* [Sender -> the application it was authorised to send, or None]
  events,    \* [Identity -> what really happened, in order]
  known      \* history: [Identity -> mails sent when it was first recorded, or None]

vars == <<migrated, ledger, granted, events, known>>

Application == [name : Name, category : Category]
Identity == Program \X Category

QualifyingStatus ==
  {"submitted", "under_review", "approved", "declined", "ineligible", "waitlisted",
   "closed_after_submission"}
Status == QualifyingStatus \cup {"discovered", "sent_provisional", "bounced"}
Receipt == {"portal_receipt", "formal_email_intake_ack"}
Confirming == Receipt \cup {"positive_delivery_ack", "provider_review_ack"}
Reply == Confirming \cup {"hard_bounce", "decision"}

IdentityOf(app) == <<Slug[app.name], app.category>>
Mails(id) == Cardinality({i \in DOMAIN events[id] : events[id][i] = "email_sent"})

-----------------------------------------------------------------------------
(* Mutant of makeIdempotencyKey: the names are not normalised.             *)
KeyAsSpelled(app) == <<app.name, app.category>>

makeIdempotencyKey(app) == <<Slug[app.name], app.category>>

qualifiesForQuota(record) ==
  LET types == Range(record.evidence)
      also == CASE record.status = "under_review" -> {"provider_review_ack"}
                [] record.status = "approved" -> {"approval"}
                [] record.status \in {"declined", "ineligible", "waitlisted"} -> {"decision"}
                [] record.status = "closed_after_submission" -> {"closure"}
                [] OTHER -> {}
  IN  record.status \in QualifyingStatus /\ types \cap Receipt # {} /\ also \subseteq types

inferDeliveryState(evidence) ==
  LET telling == SelectSeq(evidence, LAMBDA e : e \in Confirming \cup {"email_sent", "hard_bounce"})
  IN  IF telling = <<>> THEN "not_sent"
      ELSE CASE Last(telling) = "email_sent" -> "sent_provisional"
             [] Last(telling) = "hard_bounce" -> "bounced"
             [] OTHER -> "confirmed"

(* What of a record does not change with the events is taken as valid.     *)
validateApplicationLedger(book) ==
  LET entries == {app \in Application : book[app] # None}
  IN  /\ \A a, b \in entries : makeIdempotencyKey(a) = makeIdempotencyKey(b) => a = b
      /\ \A a \in entries :
           LET record == book[a]
           IN  /\ record.status \in {"sent_provisional", "bounced"}
                    => inferDeliveryState(record.evidence) = record.status
               /\ record.status \in QualifyingStatus => qualifiesForQuota(record)

summarizeQuota ==
  [c \in Category |->
    Cardinality({app \in Application :
                   app.category = c /\ ledger[app] # None /\ qualifiesForQuota(ledger[app])})]

Record == [status : Statuses, evidence : Seq(Reply \cup {"email_sent"})]

TypeOK ==
  /\ migrated \in BOOLEAN
  /\ ledger \in [Application -> Record \cup {None}] /\ validateApplicationLedger(ledger)
  /\ \A app \in Application : ledger[app] # None =>
       Range(ledger[app].evidence) \subseteq Range(events[IdentityOf(app)])
  /\ granted \in [Sender -> Application \cup {None}]
  /\ events \in [Identity -> Seq(Reply \cup {"email_sent"})]
  /\ known \in [Identity -> Nat \cup {None}]

Init ==
  /\ migrated = FALSE
  /\ ledger = [app \in Application |-> None]
  /\ granted = [s \in Sender |-> None]
  /\ events = [id \in Identity |-> <<>>]
  /\ known = [id \in Identity |-> None]

-----------------------------------------------------------------------------
CompleteMigration ==
  /\ ~migrated /\ migrated' = TRUE
  /\ UNCHANGED <<ledger, granted, events, known>>

(* Mutant of Authorized: the ledger is not searched.                       *)
AuthorizedUnsearched(app, controls) == controls /\ migrated

(* The caller claims a canonical key; `controls` are its six assertions    *)
(* and the plainness of the context.                                       *)
Authorized(app, controls) ==
  /\ controls /\ migrated
  /\ \A entry \in Application :
       ledger[entry] # None => makeIdempotencyKey(entry) # makeIdempotencyKey(app)

authorizeApplicationSend(s, app) ==
  /\ granted[s] = None
  /\ \E controls \in BOOLEAN :
       granted' = [granted EXCEPT ![s] = IF Authorized(app, controls) THEN app ELSE None]
  /\ UNCHANGED <<migrated, ledger, events, known>>

Happens(id, event) ==
  /\ Len(events[id]) < MaxEvents
  /\ events' = [events EXCEPT ![id] = Append(@, event)]

SendMail(s) ==
  /\ granted[s] # None
  /\ Happens(IdentityOf(granted[s]), "email_sent")
  /\ granted' = [granted EXCEPT ![s] = None]
  /\ UNCHANGED <<migrated, ledger, known>>

(* A provider answers a mail in any way, even with a decision right away;  *)
(* a portal takes an application that nobody mailed.                       *)
Answer(id, reply) ==
  /\ reply \notin Range(events[id])
  /\ Mails(id) > 0 \/ reply = "portal_receipt"
  /\ Happens(id, reply)
  /\ UNCHANGED <<migrated, ledger, granted, known>>

(* Some of what happened, each piece once and in order.                    *)
PartsInOrder(seq) ==
  UNION {{[i \in 1..n |-> seq[at[i]]] :
            at \in {f \in [1..n -> DOMAIN seq] : \A i, j \in 1..n : i < j => f[i] < f[j]}} :
          n \in 0..Len(seq)}

(* An operator adds or changes a record; evidence is what really happened  *)
(* to that application, or part of it.                                     *)
EditLedger(app, status) ==
  LET id == IdentityOf(app)
  IN  /\ \E evidence \in PartsInOrder(events[id]) :
           ledger' = [ledger EXCEPT ![app] = [status |-> status, evidence |-> evidence]]
      /\ validateApplicationLedger(ledger')
      /\ known' = [known EXCEPT ![id] = IF @ = None THEN Mails(id) ELSE @]
      /\ UNCHANGED <<migrated, granted, events>>

Next ==
  \/ CompleteMigration
  \/ \E s \in Sender : SendMail(s) \/ \E app \in Application : authorizeApplicationSend(s, app)
  \/ \E id \in Identity, reply \in Reply : Answer(id, reply)
  \/ \E app \in Application, status \in Statuses : EditLedger(app, status)

-----------------------------------------------------------------------------
(* The quota is earned: no category counts more applications than have     *)
(* really been received by a portal or acknowledged by an intake, however  *)
(* often they were mailed and however they were spelled in the ledger.     *)
QuotaIsEarned ==
  migrated => \A c \in Category :
    summarizeQuota[c] <=
      Cardinality({id \in Identity : id[2] = c /\ Range(events[id]) \cap Receipt # {}})

(* Once an application is on record it is mailed at most once more by each *)
(* sender, with an authorisation from before: the preflight reserves       *)
(* nothing, but it grants nothing new either.                              *)
RepeatedMailsAreBounded ==
  \A id \in Identity : known[id] # None => Mails(id) <= known[id] + Cardinality(Sender)
=============================================================================
