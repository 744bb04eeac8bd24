---------------------------- MODULE Announcements ----------------------------
(***************************************************************************)
(* How a payment's outcome gets out of the engine: the events on Kafka's   *)
(* topic payment-engine.payments, and the merchant's webhooks, the notices *)
(* to the customer and the dashboard's updates, which all go through the   *)
(* client of the communication service (grpc/communication-service.client) *)
(* and its one connection.  One payment; each task is a report of its      *)
(* provider being handled.  What cannot be sent is logged and forgotten.   *)
(***************************************************************************)
EXTENDS Integers, Sequences, SequencesExt

CONSTANTS Tasks,                \* the reports that may be in hand at once
          MaxReconnectAttempts  \* 5 in the code

VARIABLES link,     \* the connection to the communication service
          broker,   \* whether Kafka's producer connected at the start; it does not try again
          task,     \* task[t]: the report it handles and what it has left to say
          outcome,  \* what the report begun last said, the last final one, and the last one whose
                    \* finalization is not cut short
          audience, \* audience[a]: the last word a has heard
          unsure    \* the audiences something failed to reach, or that heard two reports mixed

announceVars == <<link, broker, task, outcome, audience, unsure>>

Audiences == {"topic", "merchant", "customer", "board"}
Reports   == {"paid", "declined", "pending"}
AtRest    == [report |-> "none", left |-> << >>]

Unlinked == [at |-> "first", attempts |-> 0, connected |-> FALSE, failed |-> FALSE]
AnnounceInit ==
  /\ link = Unlinked
  /\ broker \in BOOLEAN
  /\ task = [t \in Tasks |-> AtRest]
  /\ outcome = [last |-> "none", final |-> "none", finalized |-> "none"]
  /\ audience = [a \in Audiences |-> "nothing"]
  /\ unsure = {}

----------------------------------------------------------------------------
\* initializeConnection: a health check, at the start and after each delay.
Testing == link.at \in {"first", "testing"}
TestPasses ==
  /\ Testing
  /\ link' = [link EXCEPT !.at = "ended", !.attempts = 0, !.connected = TRUE]
  /\ UNCHANGED <<broker, task, outcome, audience, unsure>>
\* handleConnectionFailure gives up for good after the last attempt.
TestFails ==
  /\ Testing
  /\ link' = IF link.attempts >= MaxReconnectAttempts THEN [link EXCEPT !.at = "ended", !.failed = TRUE]
             ELSE [link EXCEPT !.at = "waiting", !.attempts = @ + 1, !.failed = TRUE]
  /\ UNCHANGED <<broker, task, outcome, audience, unsure>>
RetryDue ==
  /\ link.at = "waiting"
  /\ link' = [link EXCEPT !.at = "testing"]
  /\ UNCHANGED <<broker, task, outcome, audience, unsure>>

----------------------------------------------------------------------------
\* shouldUpdatePaymentIntent; a decline that may be retried is treated like one that may not.
FinalStatus(report) == IF report = "paid" THEN "succeeded" ELSE "canceled"

\* updateTransactionStatus publishes by the type of the code,
StatusEvent(report) == IF report = "paid" THEN "payment.succeeded" ELSE "payment.failed"
\* finalizePaymentIntentFromTransaction by the intent's new status, which is never "failed".
\* Variant: what has not failed has succeeded.
FinalEventUnlessFailed(status) == IF status = "failed" THEN "payment.failed" ELSE "payment.succeeded"
FinalEvent(status) ==
  CASE status = "succeeded" -> "payment.succeeded"
    [] status = "failed"    -> "payment.failed"
    [] OTHER                -> "payment.processing"

\* sendPaymentCompletionNotifications, in its order.  Customers hear payment_success of a decline too.
MailType(status)   == IF status = "failed" THEN "payment_failure" ELSE "payment_success"
BoardEvent(status) ==
  CASE status = "failed" -> "payment_failed" [] status = "succeeded" -> "payment_completed"
    [] OTHER -> "payment_updated"
CompletionNotices(status) ==
  (IF status = "succeeded" THEN << <<"merchant", "payment.success">> >> ELSE << >>)
    \o << <<"customer", MailType(status)>>, <<"board", BoardEvent(status)>> >>

\* deliverMerchantWebhook, last, under the name the communication service has for the event.
MerchantNotice(report) ==
  <<"merchant", CASE report = "paid" -> "payment.succeeded" [] report = "declined" -> "payment.failed"
                  [] OTHER -> "payment.pending">>

\* finalizePaymentIntentFromTransaction catches what it throws: when the intent cannot be read or updated, or the
\* wallet refuses the credit, it is cut short before its own event and every notice, and only the merchant's last
\* one follows.
ToSay(report, cut) ==
  (IF report = "pending" THEN << >>
   ELSE << <<"topic", StatusEvent(report)>> >>
          \o (IF cut THEN << >>
              ELSE << <<"topic", FinalEvent(FinalStatus(report))>> >> \o CompletionNotices(FinalStatus(report))))
    \o <<MerchantNotice(report)>>

----------------------------------------------------------------------------
\* Whether the finalization will be cut short is settled at the start: nothing that is said before it depends on it.
Begin(t, report, cut) ==
  /\ task[t] = AtRest
  /\ cut => report # "pending"
  /\ task' = [task EXCEPT ![t] = [report |-> report, left |-> ToSay(report, cut)]]
  /\ outcome' = [last      |-> report,
                 final     |-> IF report = "pending" THEN outcome.final ELSE report,
                 finalized |-> IF report = "pending" \/ cut THEN outcome.finalized ELSE report]
  /\ unsure' = IF \E u \in Tasks : task[u] # AtRest THEN Audiences
               ELSE unsure \ {ToSay(report, cut)[i][1] : i \in DOMAIN ToSay(report, cut)}
  /\ UNCHANGED <<link, broker, audience>>
\* Nothing is served before the first health check has been answered: onModuleInit awaits it.
\* Variant: it does not.
ReportComesEarly(t) == \E report \in Reports, cut \in BOOLEAN : Begin(t, report, cut)
ReportComes(t)      == link.at # "first" /\ \E report \in Reports, cut \in BOOLEAN : Begin(t, report, cut)

Heard(a, word) == audience' = [audience EXCEPT ![a] = word] /\ UNCHANGED unsure
Missed(a)      == unsure' = unsure \cup {a} /\ UNCHANGED audience
\* One call: skipped without a connection; else it may fail, and the word be heard all the same.
Call(t, a, connected) ==
  /\ task[t].left # << >> /\ Head(task[t].left)[1] = a
  /\ LET word == Head(task[t].left)[2]
     IN \/ connected /\ Heard(a, word)
        \/ Missed(a)
        \/ connected /\ audience' = [audience EXCEPT ![a] = word] /\ unsure' = unsure \cup {a}
  /\ task' = [task EXCEPT ![t] = IF Len(@.left) = 1 THEN AtRest ELSE [report |-> @.report, left |-> Tail(@.left)]]
  /\ UNCHANGED <<link, broker, outcome>>
Publish(t)        == Call(t, "topic", broker)
DeliverWebhook(t) == Call(t, "merchant", link.connected)
Notify(t)         == Call(t, "customer", link.connected)
Broadcast(t)      == Call(t, "board", link.connected)

\* The process starts again; whatever was still to be said is lost.
Restart ==
  /\ link' = Unlinked
  /\ broker' \in BOOLEAN
  /\ task' = [t \in Tasks |-> AtRest]
  /\ unsure' = IF \A t \in Tasks : task[t] = AtRest THEN unsure ELSE Audiences
  /\ UNCHANGED <<outcome, audience>>

AnnounceNext ==
  \/ TestPasses \/ TestFails \/ RetryDue \/ Restart
  \/ \E t \in Tasks : ReportComes(t) \/ Publish(t) \/ DeliverWebhook(t) \/ Notify(t) \/ Broadcast(t)

AnnounceSpec == AnnounceInit /\ [][AnnounceNext]_announceVars
----------------------------------------------------------------------------
\* Once every report is dealt with, each of three audiences that nothing failed to reach, and that heard no two
\* reports mixed, knows what the engine got to tell it: the last word on the topic says success exactly when the
\* last final report did, the merchant's when the last report did, and the dashboard's when the last final report
\* that was finalized to the end did (three services derive the word from three different values: code type,
\* webhook event, intent status).  So topic and dashboard say opposite things after a decline and then a payment
\* whose credit fails.  Customers are not compared: their mail calls a decline a success.
AudiencesAgree ==
  (\A t \in Tasks : task[t] = AtRest) =>
    /\ outcome.final # "none" /\ "topic" \notin unsure =>
         (audience.topic = "payment.succeeded") = (outcome.final = "paid")
    /\ outcome.finalized # "none" /\ "board" \notin unsure =>
         (audience.board = "payment_completed") = (outcome.finalized = "paid")
    /\ outcome.last # "none" /\ "merchant" \notin unsure =>
         (audience.merchant = "payment.succeeded") = (outcome.last = "paid")

\* Whatever is still to be said through the communication service goes out, unless a health check has
\* failed since the process started: the application serves nothing before the first one is answered.
SilentForCause ==
  (\E t \in Tasks : \E i \in DOMAIN task[t].left : task[t].left[i][1] # "topic") =>
    link.connected \/ link.failed

\* Topic, merchant and dashboard know the end of a payment as far as its handling got, and only a failed test of
\* the link silences the communication service.
AudiencesHear == AudiencesAgree /\ SilentForCause
=============================================================================
