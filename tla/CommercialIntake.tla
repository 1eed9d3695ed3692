--------------------------- MODULE CommercialIntake ---------------------------
(***************************************************************************)
(* fiducia_submit_commercial_intake_v1 of the Supabase project: callers    *)
(* submit under one kind and idempotency key (others never meet), each in  *)
(* a transaction, under read committed, that may be lost at any point; an  *)
(* insert waits for an uncommitted one of the same key.  A crash of the    *)
(* database loses every open transaction.  Who never got an answer asks    *)
(* again with the same request.  PostgreSQL and the callers are external.  *)
(***************************************************************************)
EXTENDS Naturals

CONSTANTS Call, Digest, None, MaxTries   \* MaxTries bounds the retries

VARIABLES
  digest, allowed,   \* [Call -> request_sha256], [Call -> whether its checks hold]
  stored,    \* the committed row of the key, or None
  pending,   \* the call whose insert is not committed, or None
  phase, reply, tries   \* [Call -> ...]; a reply is built before the commit

requests == <<digest, allowed>>
vars == <<requests, stored, pending, phase, reply, tries>>

Open == {"inserted", "conflicted", "replaying"}

TypeOK ==
  /\ digest \in [Call -> Digest] /\ allowed \in [Call -> BOOLEAN]
  /\ stored \in [by : Call, digest : Digest] \cup {None}
  /\ pending \in Call \cup {None}
  /\ phase \in [Call -> {"called", "committed", "answered", "refused", "lost"} \cup Open]
  /\ reply \in [Call -> [by : Call, idempotent_replay : BOOLEAN] \cup {None}]
  /\ tries \in [Call -> 0..MaxTries]

Init ==
  /\ digest \in [Call -> Digest] /\ allowed \in [Call -> BOOLEAN]
  /\ stored = None /\ pending = None
  /\ phase = [c \in Call |-> "called"]
  /\ reply = [c \in Call |-> None]
  /\ tries = [c \in Call |-> 0]

-----------------------------------------------------------------------------
Goes(c, where) == phase' = [phase EXCEPT ![c] = where]

(* Mutant of Insert: without the unique constraint nothing is waited for.  *)
InsertUnconstrained(c) ==
  /\ phase[c] = "called" /\ allowed[c]
  /\ IF stored = None
       THEN /\ pending' = c
            /\ reply' = [reply EXCEPT ![c] = [by |-> c, idempotent_replay |-> FALSE]]
            /\ Goes(c, "inserted")
       ELSE Goes(c, "conflicted") /\ UNCHANGED <<pending, reply>>
  /\ UNCHANGED <<requests, stored, tries>>

Insert(c) ==
  /\ phase[c] = "called" /\ allowed[c] /\ pending = None
  /\ IF stored = None
       THEN /\ pending' = c
            /\ reply' = [reply EXCEPT ![c] = [by |-> c, idempotent_replay |-> FALSE]]
            /\ Goes(c, "inserted")
       ELSE Goes(c, "conflicted") /\ UNCHANGED <<pending, reply>>
  /\ UNCHANGED <<requests, stored, tries>>

(* The checks of the table come before the key is looked at.               *)
RejectRow(c) ==
  /\ phase[c] = "called" /\ ~allowed[c]
  /\ Goes(c, "refused")
  /\ UNCHANGED <<requests, stored, pending, reply, tries>>

SelectStored(c) ==
  /\ phase[c] = "conflicted"
  /\ IF stored.digest # digest[c]
       THEN Goes(c, "refused") /\ UNCHANGED reply
       ELSE /\ Goes(c, "replaying")
            /\ reply' = [reply EXCEPT ![c] = [by |-> stored.by, idempotent_replay |-> TRUE]]
  /\ UNCHANGED <<requests, stored, pending, tries>>

Commit(c) ==
  /\ phase[c] \in {"inserted", "replaying"}
  /\ IF phase[c] = "inserted"
       THEN stored' = [by |-> c, digest |-> digest[c]] /\ pending' = None
       ELSE UNCHANGED <<stored, pending>>
  /\ Goes(c, "committed")
  /\ UNCHANGED <<requests, reply, tries>>

Answer(c) ==
  /\ phase[c] = "committed" /\ Goes(c, "answered")
  /\ UNCHANGED <<requests, stored, pending, reply, tries>>

(* The transaction, or only its answer, is lost; the caller cannot tell.   *)
Lose(c) ==
  /\ phase[c] \in Open \cup {"committed"} /\ Goes(c, "lost")
  /\ pending' = IF phase[c] = "inserted" THEN None ELSE pending
  /\ UNCHANGED <<requests, stored, reply, tries>>

Retry(c) ==
  /\ phase[c] = "lost" /\ tries[c] < MaxTries
  /\ Goes(c, "called")
  /\ tries' = [tries EXCEPT ![c] = @ + 1]
  /\ reply' = [reply EXCEPT ![c] = None]
  /\ UNCHANGED <<requests, stored, pending>>

Next == \E c \in Call :
  \/ Insert(c) \/ RejectRow(c) \/ SelectStored(c) \/ Commit(c)
  \/ Answer(c) \/ Lose(c) \/ Retry(c)

Spec == Init /\ [][Next]_vars

-----------------------------------------------------------------------------
(* Whatever is lost and sent again, whoever is answered is answered with   *)
(* the one row that stays stored, for the request it made itself, and only *)
(* who stored it hears that it is no replay; who passed the checks is      *)
(* refused only if another request holds the key.                          *)
RepliesAgree ==
  \A c \in Call :
    /\ phase[c] = "answered" =>
         /\ stored # None /\ stored.digest = digest[c] /\ stored.by = reply[c].by
         /\ reply[c].idempotent_replay \/ stored.by = c
    /\ phase[c] = "refused" /\ allowed[c] => stored # None /\ stored.digest # digest[c]
=============================================================================
