---------------------------- MODULE TokenPromise ----------------------------
(***************************************************************************)
(* What a caller of dns_token_assemble is promised, without the way the    *)
(* answers are scanned: fragments 1, 2, 3, ... are chained, one record for *)
(* each number, until no answer carries the next number.  A chain without  *)
(* a single octet of payload is no token.  Which of two records with the   *)
(* same number is taken is not promised; memory may run out at any point.  *)
(***************************************************************************)
EXTENDS TxtRecords

CONSTANT Answers   \* the lists of answers a response may hold

VARIABLES
  answers,   \* the records of the response, in the order of the message
  chain,     \* the positions in answers of the fragments taken so far
  outcome    \* "pending", or how the call ended

vars == <<answers, chain, outcome>>

Init == /\ answers \in Answers
        /\ chain = <<>>
        /\ outcome = "pending"

HasPayload == \E k \in 1 .. Len(chain) : PayloadSize(answers[chain[k]]) > 0

Complete == \A i \in 1 .. Len(answers) : ~Carries(answers[i], Len(chain) + 1)

Extend == /\ outcome = "pending"
          /\ \E i \in 1 .. Len(answers) :
                /\ Carries(answers[i], Len(chain) + 1)
                /\ chain' = Append(chain, i)
          /\ UNCHANGED <<answers, outcome>>

Deliver == /\ outcome = "pending"
           /\ Complete
           /\ outcome' = IF HasPayload THEN "token" ELSE "absent"
           /\ UNCHANGED <<answers, chain>>

Reject == /\ outcome = "pending"
          /\ chain = <<>>
          /\ outcome' = "invalid"
          /\ UNCHANGED <<answers, chain>>

GiveUp == /\ outcome = "pending"
          /\ outcome' = "oom"
          /\ UNCHANGED <<answers, chain>>

Next == Extend \/ Deliver \/ Reject \/ GiveUp

Spec == Init /\ [][Next]_vars

(* The call also returns. *)
FairSpec == Spec /\ WF_vars(Next)
=============================================================================
