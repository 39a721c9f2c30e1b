------------------------------ MODULE Delivery ------------------------------
(***************************************************************************)
(* E-mails and WeCom notifications: the tools send_email and               *)
(* send_wecom_notification (cayz_agent/tools.py), EmailSender and          *)
(* WeChatNotifier (cayz_agent/integrations) and the decorator              *)
(* retry_on_error (cayz_agent/retry.py) between them and the network.      *)
(*                                                                         *)
(* The network loses requests and answers.  A request whose answer is lost *)
(* may have been carried out, may be carried out later, or never.          *)
(***************************************************************************)
EXTENDS Naturals

CONSTANTS
  Call,         \* the tools' calls
  To,           \* mailboxes; one of them also stands for a WeCom group
  Group,        \* that one
  MaxAttempts   \* max_attempts of retry_on_error

ASSUME DeliveryAssumption == Group \in To /\ MaxAttempts \in Nat \ {0}

VARIABLES
  job,      \* job[c]: how far call c has come
  got,      \* got[c][r]: the copies of its message that reached r
  flying,   \* flying[c][r]: the copies still on their way to r
  retries   \* the metric retry_attempts

vars == <<job, got, flying, retries>>
-----------------------------------------------------------------------------
Job ==
  [kind : {"email", "wecom"},
   at : {"idle", "trying", "waiting", "over"},
   to : SUBSET To,
   tried : 0..MaxAttempts,                      \* attempts that have ended
   said : {"nothing", "ok", "failed", "dead"}]  \* what the tool answered

Idle == [kind |-> "email", at |-> "idle", to |-> {}, tried |-> 0, said |-> "nothing"]

Nowhere == [r \in To |-> 0]

Init ==
  /\ job = [c \in Call |-> Idle]
  /\ got = [c \in Call |-> Nowhere]
  /\ flying = [c \in Call |-> Nowhere]
  /\ retries = 0

Plus(count, S) == [r \in To |-> IF r \in S THEN count[r] + 1 ELSE count[r]]
-----------------------------------------------------------------------------
\* send_wecom_notification with a webhook configured.
StartNotify(c) ==
  /\ job[c].at = "idle"
  /\ job' = [job EXCEPT ![c] = [Idle EXCEPT !.kind = "wecom", !.at = "trying", !.to = {Group}]]
  /\ UNCHANGED <<got, flying, retries>>

\* send_email to addresses that are well-formed and in allowed domains.
StartEmail(c, S) ==
  /\ job[c].at = "idle"
  /\ S # {}
  /\ job' = [job EXCEPT ![c] = [Idle EXCEPT !.kind = "email", !.at = "trying", !.to = S]]
  /\ UNCHANGED <<got, flying, retries>>

\* Nothing is configured, nobody to send to, or an address or the subject does
\* not do: the tool says so without an attempt.
Reject(c, kind) ==
  /\ job[c].at = "idle"
  /\ job' = [job EXCEPT ![c] = [Idle EXCEPT !.kind = kind, !.at = "over", !.said = "failed"]]
  /\ UNCHANGED <<got, flying, retries>>

\* The call c has its answer.
Over(c, word) == [job[c] EXCEPT !.at = "over", !.tried = @ + 1, !.said = word]

Mut_IgnoresTheError(c) ==
  /\ job[c].at = "trying"
  /\ got' = got
  /\ job' = [job EXCEPT ![c] = Over(c, "ok")]
  /\ UNCHANGED <<flying, retries>>

\* The server took the message: for sendmail, for at least one of the
\* addresses (it returns those refused, and _send_via_smtp does not look); for
\* the webhook, errcode 0.
Accepted(c) ==
  /\ job[c].at = "trying"
  /\ \E S \in (SUBSET job[c].to) \ {{}} : got' = [got EXCEPT ![c] = Plus(@, S)]
  /\ job' = [job EXCEPT ![c] = Over(c, "ok")]
  /\ UNCHANGED <<flying, retries>>

\* The server would not have it, or it was not reached in a way a retry does
\* not mend: a permanent SMTP error, an OSError that is none of a connection's,
\* an errcode, an answer that is no object.  Some of these follow a delivery.
Refused(c) ==
  /\ job[c].at = "trying"
  /\ \E S \in SUBSET job[c].to : flying' = [flying EXCEPT ![c] = Plus(@, S)]
  /\ job' = [job EXCEPT ![c] = Over(c, "failed")]
  /\ UNCHANGED <<got, retries>>

Mut_OneTooMany(c) ==
  IF job[c].tried + 1 <= MaxAttempts THEN [job[c] EXCEPT !.at = "waiting", !.tried = @ + 1]
  ELSE Over(c, "failed")

Mut_NotCounted(c) ==
  IF job[c].tried + 1 < MaxAttempts THEN [job[c] EXCEPT !.at = "waiting"]
  ELSE Over(c, "failed")

Mut_NoReraise(c) ==
  IF job[c].tried + 1 < MaxAttempts THEN [job[c] EXCEPT !.at = "waiting", !.tried = @ + 1]
  ELSE [Over(c, "nothing") EXCEPT !.at = "idle"]

\* stop_after_attempt(max_attempts), then reraise; otherwise another attempt
\* after a pause.
AfterFailure(c) ==
  IF job[c].tried + 1 < MaxAttempts THEN [job[c] EXCEPT !.at = "waiting", !.tried = @ + 1]
  ELSE Over(c, "failed")

\* An error worth a retry: a lost connection, a timeout, a transient SMTP error,
\* an answer that is no JSON.  The server may have got the message for some of
\* the addresses, now or later.  _on_retry counts from the second attempt on.
Fails(c) ==
  /\ job[c].at = "trying"
  /\ \E S \in SUBSET job[c].to : flying' = [flying EXCEPT ![c] = Plus(@, S)]
  /\ job' = [job EXCEPT ![c] = AfterFailure(c)]
  /\ retries' = IF job[c].tried > 0 THEN retries + 1 ELSE retries
  /\ UNCHANGED got

\* wait_exponential is over.
TryAgain(c) ==
  /\ job[c].at = "waiting"
  /\ job' = [job EXCEPT ![c].at = "trying"]
  /\ UNCHANGED <<got, flying, retries>>
-----------------------------------------------------------------------------
\* A copy on its way arrives, or does not.
Land(c, r) ==
  /\ flying[c][r] > 0
  /\ flying' = [flying EXCEPT ![c][r] = @ - 1]
  /\ got' = [got EXCEPT ![c] = Plus(@, {r})]
  /\ UNCHANGED <<job, retries>>

Lose(c, r) ==
  /\ flying[c][r] > 0
  /\ flying' = [flying EXCEPT ![c][r] = @ - 1]
  /\ UNCHANGED <<job, got, retries>>

Busy(c) == job[c].at \in {"trying", "waiting"}

\* The process restarts in the middle of what it was sending: no send is taken
\* up again, the metrics begin anew.
Restart ==
  /\ \E c \in Call : Busy(c)
  /\ \E sent \in [Call -> SUBSET To] :
       /\ \A c \in Call : sent[c] \subseteq (IF job[c].at = "trying" THEN job[c].to ELSE {})
       /\ flying' = [c \in Call |-> Plus(flying[c], sent[c])]
  /\ job' = [c \in Call |->
       IF job[c].at = "trying" THEN Over(c, "dead")
       ELSE IF Busy(c) THEN [job[c] EXCEPT !.at = "over", !.said = "dead"]
       ELSE job[c]]
  /\ retries' = 0
  /\ UNCHANGED got

Attempt(c) == Accepted(c) \/ Refused(c) \/ Fails(c)

Next ==
  \/ \E c \in Call :
       \/ StartNotify(c)
       \/ \E S \in SUBSET To : StartEmail(c, S)
       \/ \E kind \in {"email", "wecom"} : Reject(c, kind)
       \/ Attempt(c)
       \/ TryAgain(c)
       \/ \E r \in To : Land(c, r) \/ Lose(c, r)
  \/ Restart

\* Attempts end, by their timeouts if need be (10 and 15 seconds), and pauses do.
Fairness == \A c \in Call : WF_vars(Attempt(c)) /\ WF_vars(TryAgain(c))

Spec == Init /\ [][Next]_vars /\ Fairness
-----------------------------------------------------------------------------
\* The shapes of the variables; only calls under way pause or try.
TypeOK ==
  /\ job \in [Call -> Job]
  /\ got \in [Call -> [To -> Nat]] /\ flying \in [Call -> [To -> Nat]]
  /\ retries \in Nat
  /\ \A c \in Call : job[c].at = "over" <=> job[c].said # "nothing"

\* Nobody gets more copies of a message than attempts were made, late ones
\* included, and nobody it was not for gets any (retry_on_error around
\* WeChatNotifier.send_* and EmailSender._send_via_smtp).
CopiesAreBounded ==
  \A c \in Call, r \in To :
    IF r \in job[c].to THEN got[c][r] + flying[c][r] <= job[c].tried
    ELSE got[c][r] + flying[c][r] = 0

\* What the tools call sent has reached somebody, whatever earlier attempts
\* came to.
SentReachedSomebody ==
  \A c \in Call : job[c].said = "ok" => \E r \in job[c].to : got[c][r] > 0

\* Every send is answered in the end, or dies with its process.
SendsEnd == \A c \in Call : Busy(c) ~> job[c].at = "over"

\* The abstract view of this module, and that it is implemented.
Promise == INSTANCE DeliveryPromise WITH said <- [c \in Call |-> job[c].said]
KeepsPromise == Promise!Spec

=============================================================================
