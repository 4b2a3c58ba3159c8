--------------------------- MODULE TokenAssemble ---------------------------
(***************************************************************************)
(* dns_token_assemble and append_frag (dns_txt.c): the answers are scanned *)
(* again and again, each scan appending every record that carries the next *)
(* fragment number, until a whole scan appends nothing.  One step is one   *)
(* record, one test of the outer loop, or one of the function's exits.     *)
(***************************************************************************)
EXTENDS TxtRecords

CONSTANT Answers   \* the lists of answers a response may hold

ASSUME AnswersAssumption == Answers \subseteq Seq(Records)

VARIABLES
  answers,     \* resp->answers, the linked list as a sequence
  pc,          \* where the function is
  rr,          \* the position of the record under rr; past the end when NULL
  fragment,    \* the number of the last fragment appended
  last_frag,   \* its value when the current scan began
  t,           \* the token under construction: ttl, len, and the positions of
               \* the records whose payloads t.buf holds, in order
  buf,         \* who owns t.buf: none | local | freed | caller
  token,       \* *token: untouched | null | set
  ret          \* the code returned, "none" before that

vars == <<answers, pc, rr, fragment, last_frag, t, buf, token, ret>>

Init == /\ answers \in Answers
        /\ pc = "enter"
        /\ rr = 1
        /\ fragment = 0
        /\ last_frag = -1
        /\ t = [ttl |-> UINT32_MAX, len |-> 0, parts |-> <<>>]
        /\ buf = "none"
        /\ token = "untouched"
        /\ ret = "none"

-----------------------------------------------------------------------------
Return(code) == pc' = "done" /\ ret' = code

(* The label ERROR: the buffer goes before the function returns. *)
Error_leaks(code) == Return(code) /\ UNCHANGED buf
Error(code) == /\ Return(code)
               /\ buf' = IF buf = "local" THEN "freed" ELSE buf

(* resp or token is NULL. *)
RejectArguments == /\ pc = "enter"
                   /\ Return("XA_INVALID_INPUT")
                   /\ UNCHANGED <<answers, rr, fragment, last_frag, t, buf, token>>

AcceptArguments == /\ pc = "enter"
                   /\ pc' = "loop"
                   /\ UNCHANGED <<answers, rr, fragment, last_frag, t, buf, token, ret>>

-----------------------------------------------------------------------------
(* The outer loop: while (last_frag < fragment). *)
AnotherScan_once == last_frag = -1
AnotherScan_always == last_frag <= fragment
AnotherScan == last_frag < fragment

FirstRecord_second == 2
FirstRecord == 1

StartScan == /\ pc = "loop"
             /\ AnotherScan
             /\ pc' = "scan"
             /\ last_frag' = fragment
             /\ rr' = FirstRecord
             /\ UNCHANGED <<answers, fragment, t, buf, token, ret>>

LeaveLoop == /\ pc = "loop"
             /\ ~AnotherScan
             /\ pc' = "finish"
             /\ UNCHANGED <<answers, rr, fragment, last_frag, t, buf, token, ret>>

-----------------------------------------------------------------------------
(* append_frag on the record under rr.  memappend may fail on any call. *)
InScan == pc = "scan" /\ rr <= Len(answers)

Wanted_gaps(r) == IsFragment(r) /\ Atoi(r.tag) > fragment
Wanted(r) == Carries(r, fragment + 1)

MinTtl_last(r) == r.ttl
MinTtl(r) == IF r.ttl < t.ttl THEN r.ttl ELSE t.ttl

SkipRecord == /\ InScan
              /\ ~Wanted(answers[rr])
              /\ rr' = rr + 1
              /\ UNCHANGED <<answers, pc, fragment, last_frag, t, buf, token, ret>>

AppendRecord == /\ InScan
                /\ Wanted(answers[rr])
                /\ t' = [ttl   |-> MinTtl(answers[rr]),
                         len   |-> t.len + PayloadSize(answers[rr]),
                         parts |-> Append(t.parts, rr)]
                /\ buf' = "local"
                /\ fragment' = Atoi(answers[rr].tag)
                /\ rr' = rr + 1
                /\ UNCHANGED <<answers, pc, last_frag, token, ret>>

AppendFails == /\ InScan
               /\ Wanted(answers[rr])
               /\ Error("XA_OUT_OF_MEMORY")
               /\ UNCHANGED <<answers, rr, fragment, last_frag, t, token>>

EndScan == /\ pc = "scan"
           /\ rr > Len(answers)
           /\ pc' = "loop"
           /\ UNCHANGED <<answers, rr, fragment, last_frag, t, buf, token, ret>>

-----------------------------------------------------------------------------
(* After the loop.  An empty token is returned without touching t.buf. *)
Empty_never == FALSE
Empty == t.len = 0

NotPresent == /\ pc = "finish"
              /\ Empty
              /\ Return("XA_DNS_TOKEN_NOT_PRESENT")
              /\ UNCHANGED <<answers, rr, fragment, last_frag, t, buf, token>>

HandOver == /\ pc = "finish"
            /\ ~Empty
            /\ token' = "set"
            /\ buf' = "caller"
            /\ Return("XA_OK")
            /\ UNCHANGED <<answers, rr, fragment, last_frag, t>>

HandOverFails == /\ pc = "finish"
                 /\ ~Empty
                 /\ token' = "null"
                 /\ Error("XA_OUT_OF_MEMORY")
                 /\ UNCHANGED <<answers, rr, fragment, last_frag, t>>

Next == \/ RejectArguments \/ AcceptArguments
        \/ StartScan \/ LeaveLoop
        \/ SkipRecord \/ AppendRecord \/ AppendFails \/ EndScan
        \/ NotPresent \/ HandOver \/ HandOverFails

Spec == Init /\ [][Next]_vars

(* The function runs to its end: nothing in it waits. *)
FairSpec == Spec /\ WF_vars(Next)

-----------------------------------------------------------------------------
Parts == 1 .. Len(t.parts)
Part(k) == answers[t.parts[k]]

(* Every variable stays in its type; a fragment number has two digits. *)
TypeOK ==
  /\ answers \in Seq(Records)
  /\ pc \in {"enter", "loop", "scan", "finish", "done"}
  /\ rr \in 1 .. Len(answers) + 1
  /\ fragment \in 0 .. 99
  /\ last_frag \in -1 .. 99
  /\ t \in [ttl : 0 .. UINT32_MAX, len : Nat, parts : Seq(1 .. Len(answers))]
  /\ buf \in {"none", "local", "freed", "caller"}
  /\ token \in {"untouched", "null", "set"}
  /\ ret \in {"none", "XA_OK", "XA_INVALID_INPUT", "XA_OUT_OF_MEMORY",
              "XA_DNS_TOKEN_NOT_PRESENT"}

(* The k-th payload of the buffer is that of a fragment numbered k: whatever  *)
(* the order of the answers and the copies among them, nothing is appended    *)
(* twice, out of order or past a gap (append_frag's comparison with the next  *)
(* number, which spans scans).                                                *)
ChainInOrder == /\ fragment = Len(t.parts)
                /\ \A k \in Parts : Carries(Part(k), k)

(* A call that ends by choice, not by lack of memory, left out no fragment it *)
(* could have chained: one more scan would have found nothing.                *)
ChainIsMaximal ==
  ret \in {"XA_OK", "XA_DNS_TOKEN_NOT_PRESENT"} =>
    \A i \in 1 .. Len(answers) : ~Carries(answers[i], fragment + 1)

(* Which copy of a duplicated fragment wins: the first one met when the list  *)
(* is read on from the previous fragment and then from its head.              *)
PreviousPart(k) == IF k = 1 THEN 0 ELSE t.parts[k - 1]
FirstCopyAfterPrevious ==
  \A k \in Parts : LET prev == PreviousPart(k)
                       here == t.parts[k]
                   IN  \A i \in 1 .. Len(answers) :
                         Carries(answers[i], k) =>
                           IF here > prev THEN i \notin prev + 1 .. here - 1
                                          ELSE i \notin (prev + 1 .. Len(answers))
                                                        \union (1 .. here - 1)

(* A token expires with the first of its fragments to expire, and with one of *)
(* them (dns_txt.h: "the closest expiration time of all the records").        *)
ExpiresWithItsFragments ==
  /\ \A k \in Parts : t.ttl <= Part(k).ttl
  /\ Len(t.parts) > 0 => \E k \in Parts : t.ttl = Part(k).ttl

(* On return the buffer belongs to the caller exactly when *token does; on an *)
(* error it has been freed, except that empty fragments alone leave it behind *)
(* (the early return before the label ERROR).                                 *)
BufferHasOneOwner ==
  ret # "none" =>
    /\ (buf = "caller") <=> (ret = "XA_OK")
    /\ (buf = "caller") <=> (token = "set")
    /\ buf = "local" => /\ ret = "XA_DNS_TOKEN_NOT_PRESENT"
                        /\ Len(t.parts) > 0
                        /\ \A k \in Parts : PayloadSize(Part(k)) = 0

(* Every call returns: a scan that appends nothing is the last one. *)
Terminates == <>(pc = "done")

(* A comment of the source: a fragment's tag matches '[0-9][0-9]:'. *)
TagMatchesPattern == \A k \in Parts : LET s == Part(k).tag
                                      IN  IsDigit(s[1]) /\ IsDigit(s[2])

-----------------------------------------------------------------------------
(* The scan implements the promise made to the caller. *)
Outcome == CASE ret = "none"                     -> "pending"
             [] ret = "XA_OK"                    -> "token"
             [] ret = "XA_DNS_TOKEN_NOT_PRESENT" -> "absent"
             [] ret = "XA_OUT_OF_MEMORY"         -> "oom"
             [] ret = "XA_INVALID_INPUT"         -> "invalid"

Promise == INSTANCE TokenPromise WITH chain <- t.parts, outcome <- Outcome

ImplementsPromise == Promise!FairSpec
=============================================================================
