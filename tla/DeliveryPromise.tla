--------------------------- MODULE DeliveryPromise --------------------------
(***************************************************************************)
(* What cayz_agent/integrations promises of a message an agent sends by    *)
(* e-mail or to a WeCom group: nobody gets more copies than there may be   *)
(* attempts, "sent" is said of nothing that reached nobody, and what was   *)
(* said is not taken back.  Copies may arrive late, even after the answer. *)
(***************************************************************************)
EXTENDS Naturals

CONSTANTS
  Call,         \* the sends
  To,           \* the mailboxes and groups
  MaxAttempts   \* attempts per send

VARIABLES
  got,  \* got[c][r]: the copies of c's message that reached r
  said  \* said[c]: "nothing", "ok", "failed", or "dead" with its process

vars == <<got, said>>

Init ==
  /\ got = [c \in Call |-> [r \in To |-> 0]]
  /\ said = [c \in Call |-> "nothing"]

\* Copies reach some mailboxes.
Arrive(c) ==
  /\ \E S \in SUBSET {r \in To : got[c][r] < MaxAttempts} :
       got' = [got EXCEPT ![c] = [r \in To |-> IF r \in S THEN got[c][r] + 1 ELSE got[c][r]]]
  /\ UNCHANGED said

\* The send is answered, "ok" when some mailbox has it, and copies may arrive
\* at the same time.
Answer(c, word) ==
  /\ said[c] = "nothing"
  /\ \E S \in SUBSET {r \in To : got[c][r] < MaxAttempts} :
       got' = [got EXCEPT ![c] = [r \in To |-> IF r \in S THEN got[c][r] + 1 ELSE got[c][r]]]
  /\ word = "ok" => \E r \in To : got'[c][r] > 0
  /\ said' = [said EXCEPT ![c] = word]

\* The process dies with the sends it was busy with.
Die ==
  /\ \E S \in SUBSET {c \in Call : said[c] = "nothing"} :
       said' = [c \in Call |-> IF c \in S THEN "dead" ELSE said[c]]
  /\ UNCHANGED got

Next ==
  \/ \E c \in Call : Arrive(c) \/ Answer(c, "ok") \/ Answer(c, "failed")
  \/ Die

Spec == Init /\ [][Next]_vars
=============================================================================
