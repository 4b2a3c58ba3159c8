------------------------ MODULE TokenAssembleProofs ------------------------
(***************************************************************************)
(* Theorems about dns_token_assemble for every list of answers and every   *)
(* largest ttl.                                                            *)
(***************************************************************************)
EXTENDS TokenAssemble, TLAPS

(* Two characters give a number of at most two digits. *)
LEMMA AtoiRange ==
  ASSUME NEW s \in Tags
  PROVE  Atoi(s) \in -9 .. 99
<1>1. s[1] \in Octet /\ s[2] \in Octet
  BY DEF Tags
<1>2. CASE IsDigit(s[1]) /\ IsDigit(s[2])
  BY <1>1, <1>2 DEF Atoi, IsDigit, Octet
<1>3. CASE IsDigit(s[1]) /\ ~IsDigit(s[2])
  BY <1>1, <1>3 DEF Atoi, IsDigit, Octet
<1>4. CASE ~IsDigit(s[1])
  BY <1>1, <1>4 DEF Atoi, IsDigit, Octet, IsSpace, PLUS, MINUS
<1>5. QED
  BY <1>2, <1>3, <1>4

(* A fragment's number and its payload's size are bounded by its record. *)
LEMMA CarriesRange ==
  ASSUME NEW r \in Records, NEW n \in Int, Carries(r, n)
  PROVE  /\ Atoi(r.tag) = n /\ n <= 99
         /\ PayloadSize(r) \in Nat
         /\ r.ttl \in 0 .. UINT32_MAX
<1>1. Atoi(r.tag) \in -9 .. 99
  BY AtoiRange DEF Records
<1>2. r.rdlength \in U16 /\ r.ttl \in 0 .. UINT32_MAX
  BY DEF Records
<1>3. QED
  BY <1>1, <1>2 DEF Carries, IsFragment, PayloadSize, U16

-----------------------------------------------------------------------------
(* No step leaves the types. *)
LEMMA TypeInductive == TypeOK /\ [Next]_vars => TypeOK'
<1> SUFFICES ASSUME TypeOK, [Next]_vars
             PROVE  TypeOK'
  OBVIOUS
<1> USE DEF TypeOK
<1>1. CASE RejectArguments
  BY <1>1 DEF RejectArguments, Return
<1>2. CASE AcceptArguments
  BY <1>2 DEF AcceptArguments
<1>3. CASE StartScan
  BY <1>3 DEF StartScan, FirstRecord
<1>4. CASE LeaveLoop
  BY <1>4 DEF LeaveLoop
<1>5. CASE SkipRecord
  BY <1>5 DEF SkipRecord, InScan
<1>6. CASE AppendRecord
  <2> DEFINE r == answers[rr]
  <2>1. rr \in 1 .. Len(answers) /\ r \in Records
    BY <1>6 DEF AppendRecord, InScan
  <2>2. Carries(r, fragment + 1)
    BY <1>6 DEF AppendRecord, Wanted
  <2>3. fragment' = fragment + 1 /\ fragment + 1 <= 99
    BY <1>6, <2>1, <2>2, CarriesRange DEF AppendRecord
  <2>4. t.len + PayloadSize(r) \in Nat
    BY <2>1, <2>2, CarriesRange
  <2>5. MinTtl(r) \in 0 .. UINT32_MAX
    BY <2>1, <2>2, CarriesRange DEF MinTtl
  <2>6. Append(t.parts, rr) \in Seq(1 .. Len(answers))
    BY <2>1
  <2>7. t' = [ttl |-> MinTtl(r), len |-> t.len + PayloadSize(r),
              parts |-> Append(t.parts, rr)]
    BY <1>6 DEF AppendRecord
  <2>8. QED
    BY <1>6, <2>1, <2>3, <2>4, <2>5, <2>6, <2>7 DEF AppendRecord, InScan
<1>7. CASE AppendFails
  BY <1>7 DEF AppendFails, Error, Return
<1>8. CASE EndScan
  BY <1>8 DEF EndScan
<1>9. CASE NotPresent
  BY <1>9 DEF NotPresent, Return
<1>10. CASE HandOver
  BY <1>10 DEF HandOver, Return
<1>11. CASE HandOverFails
  BY <1>11 DEF HandOverFails, Error, Return
<1>12. CASE UNCHANGED vars
  BY <1>12 DEF vars
<1>13. QED
  BY <1>1, <1>2, <1>3, <1>4, <1>5, <1>6, <1>7, <1>8, <1>9, <1>10, <1>11, <1>12
     DEF Next

(* The variables keep their types: the number of the last fragment never     *)
(* leaves 0 .. 99, and no scan looks past the end of the answers.            *)
THEOREM TypeCorrect == Spec => []TypeOK
<1>1. Init => TypeOK
  BY AnswersAssumption, TtlAssumption DEF Init, TypeOK
<1>2. QED
  BY <1>1, TypeInductive, PTL DEF Spec

-----------------------------------------------------------------------------
(* No answer at a position below i carries the next number. *)
NoneBelow(i) == \A j \in 1 .. i - 1 : ~Carries(answers[j], fragment + 1)

(* What the scan knows at each point: a scan that has appended nothing so far *)
(* has passed over no usable record, and the loop is left only after a scan   *)
(* that appended nothing.                                                     *)
ScanInv ==
  /\ pc = "enter" => fragment = 0 /\ last_frag = -1
  /\ pc \in {"scan", "loop"} => last_frag <= fragment
  /\ pc = "scan" /\ last_frag = fragment => NoneBelow(rr)
  /\ pc = "loop" /\ last_frag = fragment => NoneBelow(Len(answers) + 1)
  /\ pc = "finish" => NoneBelow(Len(answers) + 1)
  /\ pc = "done" <=> ret # "none"

ChainInv == ChainInOrder /\ ChainIsMaximal /\ ScanInv

(* An appended record extends the chain by one. *)
LEMMA AppendExtends ==
  ASSUME TypeOK, AppendRecord
  PROVE  /\ rr \in 1 .. Len(answers) /\ answers[rr] \in Records
         /\ Carries(answers[rr], fragment + 1)
         /\ fragment' = fragment + 1
         /\ t'.parts = Append(t.parts, rr)
         /\ Len(t'.parts) = Len(t.parts) + 1
         /\ t'.parts[Len(t.parts) + 1] = rr
         /\ \A k \in Parts : t'.parts[k] = t.parts[k]
<1>1. rr \in 1 .. Len(answers) /\ answers[rr] \in Records
  BY DEF TypeOK, AppendRecord, InScan
<1>2. Carries(answers[rr], fragment + 1)
  BY DEF AppendRecord, Wanted
<1>3. fragment' = fragment + 1
  BY <1>1, <1>2, CarriesRange DEF AppendRecord, TypeOK
<1>4. t'.parts = Append(t.parts, rr)
  BY DEF AppendRecord
<1>5. t.parts \in Seq(1 .. Len(answers))
  BY DEF TypeOK
<1>6. QED
  BY <1>1, <1>2, <1>3, <1>4, <1>5 DEF Parts

LEMMA PartsAreRecords == TypeOK => \A k \in Parts : Part(k) \in Records
<1> SUFFICES ASSUME TypeOK, NEW k \in Parts PROVE Part(k) \in Records
  OBVIOUS
<1>1. t.parts \in Seq(1 .. Len(answers)) /\ answers \in Seq(Records)
  BY DEF TypeOK
<1>2. t.parts[k] \in 1 .. Len(answers)
  BY <1>1 DEF Parts
<1>3. QED
  BY <1>1, <1>2 DEF Part

LEMMA ChainInductive == TypeOK /\ ChainInv /\ [Next]_vars => ChainInv'
<1> SUFFICES ASSUME TypeOK, ChainInv, [Next]_vars
             PROVE  ChainInv'
  OBVIOUS
<1> USE DEF ChainInv, ChainInOrder, ChainIsMaximal, ScanInv, NoneBelow, Parts, Part
<1>1. CASE RejectArguments
  BY <1>1 DEF RejectArguments, Return
<1>2. CASE AcceptArguments
  BY <1>2 DEF AcceptArguments
<1>3. CASE StartScan
  BY <1>3 DEF StartScan, FirstRecord, TypeOK
<1>4. CASE LeaveLoop
  BY <1>4 DEF LeaveLoop, AnotherScan, TypeOK
<1>5. CASE SkipRecord
  BY <1>5 DEF SkipRecord, InScan, Wanted, TypeOK
<1>6. CASE AppendRecord
  <2>1. UNCHANGED <<answers, pc, last_frag, ret>> /\ pc = "scan"
    BY <1>6 DEF AppendRecord, InScan
  <2>2. ChainInOrder'
    <3>1. Len(t.parts) \in Nat
      BY DEF TypeOK
    <3>2. fragment' = Len(t'.parts)
      BY <1>6, AppendExtends
    <3>3. ASSUME NEW k \in 1 .. Len(t'.parts)
          PROVE  Carries(answers[t'.parts[k]], k)
      <4>1. CASE k = Len(t.parts) + 1
        BY <1>6, <4>1, AppendExtends
      <4>2. CASE k \in Parts
        BY <1>6, <4>2, AppendExtends
      <4>3. QED
        BY <1>6, <3>1, <4>1, <4>2, AppendExtends
    <3>4. QED
      BY <2>1, <3>2, <3>3
  <2>3. last_frag' < fragment'
    BY <1>6, <2>1, AppendExtends DEF TypeOK
  <2>4. ret' = "none"
    BY <2>1
  <2>5. QED
    BY <2>1, <2>2, <2>3, <2>4 DEF TypeOK
<1>7. CASE AppendFails
  BY <1>7 DEF AppendFails, Error, Return
<1>8. CASE EndScan
  BY <1>8 DEF EndScan, TypeOK
<1>9. CASE NotPresent
  BY <1>9 DEF NotPresent, Return, TypeOK
<1>10. CASE HandOver
  BY <1>10 DEF HandOver, Return, TypeOK
<1>11. CASE HandOverFails
  BY <1>11 DEF HandOverFails, Error, Return
<1>12. CASE UNCHANGED vars
  BY <1>12 DEF vars
<1>13. QED
  BY <1>1, <1>2, <1>3, <1>4, <1>5, <1>6, <1>7, <1>8, <1>9, <1>10, <1>11, <1>12
     DEF Next

LEMMA ChainInvariant == Spec => []ChainInv
<1>1. Init => ChainInv
  BY DEF Init, ChainInv, ChainInOrder, ChainIsMaximal, ScanInv, Parts
<1>2. QED
  BY <1>1, TypeCorrect, ChainInductive, PTL DEF Spec

(* The buffer holds the payloads of fragments 1, 2, 3, ... in that order. *)
THEOREM ChainAlwaysInOrder == Spec => []ChainInOrder
<1>1. ChainInv => ChainInOrder
  BY DEF ChainInv
<1>2. QED
  BY <1>1, ChainInvariant, PTL

(* A call that does not run out of memory leaves no usable fragment behind. *)
THEOREM ChainAlwaysMaximal == Spec => []ChainIsMaximal
<1>1. ChainInv => ChainIsMaximal
  BY DEF ChainInv
<1>2. QED
  BY <1>1, ChainInvariant, PTL

-----------------------------------------------------------------------------
(* Before the return the buffer is the function's own, and exists once a      *)
(* fragment has been appended; its length is zero exactly when every fragment *)
(* was empty.                                                                 *)
BufferInv ==
  /\ ret = "none" => /\ buf = IF Len(t.parts) = 0 THEN "none" ELSE "local"
                     /\ token = "untouched"
  /\ t.len = 0 <=> \A k \in Parts : PayloadSize(Part(k)) = 0
  /\ BufferHasOneOwner

LEMMA BufferInductive ==
  TypeOK /\ ChainInv /\ BufferInv /\ [Next]_vars => BufferInv'
<1> SUFFICES ASSUME TypeOK, ChainInv, BufferInv, [Next]_vars
             PROVE  BufferInv'
  OBVIOUS
<1> USE DEF BufferInv, BufferHasOneOwner, Parts, Part
<1>0. pc # "done" => ret = "none"
  BY DEF ChainInv, ScanInv
<1>1. CASE RejectArguments
  BY <1>0, <1>1 DEF RejectArguments, Return, ChainInv, ScanInv, ChainInOrder
<1>2. CASE AcceptArguments
  BY <1>2 DEF AcceptArguments
<1>3. CASE StartScan
  BY <1>3 DEF StartScan
<1>4. CASE LeaveLoop
  BY <1>4 DEF LeaveLoop
<1>5. CASE SkipRecord
  BY <1>5 DEF SkipRecord
<1>6. CASE AppendRecord
  <2> DEFINE r == answers[rr]
  <2>1. UNCHANGED <<answers, token, ret>> /\ buf' = "local" /\ ret = "none"
    BY <1>0, <1>6 DEF AppendRecord, InScan
  <2>2. t'.len = t.len + PayloadSize(r)
    BY <1>6 DEF AppendRecord
  <2>3. PayloadSize(r) \in Nat /\ t.len \in Nat /\ Len(t.parts) \in Nat
    BY <1>6, AppendExtends, CarriesRange DEF TypeOK
  <2>4. (\A k \in Parts' : PayloadSize(Part(k)') = 0)
          <=> /\ \A k \in Parts : PayloadSize(Part(k)) = 0
              /\ PayloadSize(r) = 0
    <3>1. Parts' = Parts \union {Len(t.parts) + 1}
      BY <1>6, <2>3, AppendExtends
    <3>2. /\ \A k \in Parts : Part(k)' = Part(k)
          /\ answers'[t'.parts[Len(t.parts) + 1]] = r
      BY <1>6, <2>1, AppendExtends
    <3>3. QED
      BY <3>1, <3>2
  <2>5. Len(t'.parts) > 0
    BY <1>6, <2>3, AppendExtends
  <2>6. t'.len = 0 <=> t.len = 0 /\ PayloadSize(r) = 0
    BY <2>2, <2>3
  <2>7. QED
    BY <2>1, <2>4, <2>5, <2>6
<1>7. CASE AppendFails
  BY <1>0, <1>7 DEF AppendFails, InScan, Error, Return
<1>8. CASE EndScan
  BY <1>8 DEF EndScan
<1>9. CASE NotPresent
  BY <1>0, <1>9 DEF NotPresent, Return, Empty, TypeOK
<1>10. CASE HandOver
  BY <1>10 DEF HandOver, Return
<1>11. CASE HandOverFails
  BY <1>0, <1>11 DEF HandOverFails, Error, Return
<1>12. CASE UNCHANGED vars
  BY <1>12 DEF vars
<1>13. QED
  BY <1>1, <1>2, <1>3, <1>4, <1>5, <1>6, <1>7, <1>8, <1>9, <1>10, <1>11, <1>12
     DEF Next

LEMMA BufferInvariant == Spec => []BufferInv
<1>1. Init => BufferInv
  BY DEF Init, BufferInv, BufferHasOneOwner, Parts
<1>2. QED
  BY <1>1, TypeCorrect, ChainInvariant, BufferInductive, PTL DEF Spec

(* On return the buffer is the caller's with the token, or freed, or left     *)
(* behind by a chain of empty fragments only.                                 *)
THEOREM BufferAlwaysOwned == Spec => []BufferHasOneOwner
<1>1. BufferInv => BufferHasOneOwner
  BY DEF BufferInv
<1>2. QED
  BY <1>1, BufferInvariant, PTL

-----------------------------------------------------------------------------
(* The token's ttl is the least of its fragments' ttls. *)
THEOREM ExpiryIsLeast == Spec => []ExpiresWithItsFragments
<1> USE DEF ExpiresWithItsFragments, Parts, Part
<1> DEFINE Inv == /\ ExpiresWithItsFragments
                  /\ Len(t.parts) = 0 => t.ttl = UINT32_MAX
<1>1. Init => Inv
  BY DEF Init
<1>2. TypeOK /\ Inv /\ [Next]_vars => Inv'
  <2> SUFFICES ASSUME TypeOK, Inv, [Next]_vars
               PROVE  Inv'
    OBVIOUS
  <2>1. CASE AppendRecord
    <3> DEFINE r == answers[rr]
               n == Len(t.parts)
    <3>1. answers' = answers /\ t'.ttl = MinTtl(r)
      BY <2>1 DEF AppendRecord
    <3>2. /\ n \in Nat /\ Len(t'.parts) = n + 1 /\ Parts' = Parts \union {n + 1}
          /\ answers'[t'.parts[n + 1]] = r
          /\ \A k \in Parts : Part(k)' = Part(k)
      <4>1. n \in Nat
        BY DEF TypeOK
      <4>2. Len(t'.parts) = n + 1 /\ answers'[t'.parts[n + 1]] = r
        BY <2>1, <3>1, AppendExtends
      <4>3. \A k \in Parts : Part(k)' = Part(k)
        BY <2>1, <3>1, AppendExtends
      <4>4. QED
        BY <4>1, <4>2, <4>3
    <3>3. /\ r.ttl \in Int /\ r.ttl <= UINT32_MAX
          /\ t.ttl \in Int /\ UINT32_MAX \in Int
      <4>1. r \in Records
        BY <2>1, AppendExtends
      <4>2. r.ttl \in 0 .. UINT32_MAX
        BY <4>1 DEF Records
      <4>3. t.ttl \in 0 .. UINT32_MAX
        BY DEF TypeOK
      <4>4. QED
        BY <4>2, <4>3, TtlAssumption
    <3>4. \A k \in Parts : Part(k).ttl \in Int
      BY PartsAreRecords DEF Records
    <3>5. t'.ttl <= r.ttl /\ t'.ttl <= t.ttl /\ t'.ttl \in {r.ttl, t.ttl}
      BY <3>1, <3>3 DEF MinTtl
    <3>6. \A k \in Parts' : t'.ttl <= Part(k)'.ttl
      <4>1. \A k \in Parts : t'.ttl <= Part(k).ttl
        BY <3>3, <3>4, <3>5
      <4>2. QED
        BY <3>2, <3>5, <4>1
    <3>7. \E k \in Parts' : t'.ttl = Part(k)'.ttl
      <4>1. CASE t'.ttl = r.ttl
        BY <3>2, <4>1
      <4>2. CASE t'.ttl # r.ttl
        <5>1. t'.ttl = t.ttl /\ t.ttl < r.ttl
          BY <3>3, <3>5, <4>2
        <5>2. n > 0
          BY <3>2, <3>3, <5>1
        <5>3. PICK k \in Parts : t.ttl = Part(k).ttl
          BY <5>2
        <5>4. QED
          BY <3>2, <5>1, <5>3
      <4>3. QED
        BY <4>1, <4>2
    <3>8. QED
      BY <3>2, <3>6, <3>7
  <2>2. CASE UNCHANGED <<answers, t>>
    BY <2>2
  <2>3. QED
    BY <2>1, <2>2 DEF Next, vars, RejectArguments, AcceptArguments, StartScan,
       LeaveLoop, SkipRecord, AppendFails, EndScan, NotPresent, HandOver, HandOverFails
<1>3. QED
  BY <1>1, <1>2, TypeCorrect, PTL DEF Spec

-----------------------------------------------------------------------------
(* Where the last fragment was found, and the records without the next number.*)
Last == PreviousPart(Len(t.parts) + 1)
NoneIn(S) == \A j \in S : ~Carries(answers[j], fragment + 1)

(* Since the last fragment was appended, no record with the next number has   *)
(* been passed: on the way to rr in the same scan, and on the rest of the list*)
(* in the scan before.                                                        *)
CopyInv ==
  /\ FirstCopyAfterPrevious
  /\ pc = "scan" => last_frag >= 0
  /\ pc = "scan" /\ last_frag < fragment => Last < rr /\ NoneIn(Last + 1 .. rr - 1)
  /\ pc = "scan" /\ last_frag = fragment /\ fragment > 0 => NoneIn(Last + 1 .. Len(answers))
  /\ pc = "loop" /\ fragment > 0 => NoneIn(Last + 1 .. Len(answers))

LEMMA LastInList ==
  ASSUME TypeOK, ChainInv
  PROVE  Last \in Nat /\ (fragment = 0 => Last = 0)
<1>1. fragment = Len(t.parts) /\ t.parts \in Seq(1 .. Len(answers)) /\ fragment \in Nat
  BY DEF ChainInv, ChainInOrder, TypeOK
<1>2. QED
  BY <1>1 DEF Last, PreviousPart

(* The record under rr is the first copy of its number behind the last        *)
(* fragment, if it stands there, and else the first one of the list, with no  *)
(* copy behind the last fragment.                                             *)
LEMMA AppendsFirstCopy ==
  ASSUME TypeOK, ChainInv, CopyInv, AppendRecord
  PROVE  \A j \in 1 .. Len(answers) :
           Carries(answers[j], fragment + 1) =>
             IF rr > Last THEN j \notin Last + 1 .. rr - 1
                          ELSE j \notin (Last + 1 .. Len(answers)) \union (1 .. rr - 1)
<1>1. /\ pc = "scan" /\ rr \in Nat /\ fragment \in Nat /\ last_frag \in Int
      /\ last_frag >= 0 /\ last_frag <= fragment /\ Len(answers) \in Nat
  BY DEF TypeOK, ChainInv, ScanInv, CopyInv, AppendRecord, InScan
<1>2. Last \in Nat /\ (fragment = 0 => Last = 0)
  BY LastInList
<1>3. CASE last_frag < fragment
  BY <1>1, <1>2, <1>3 DEF CopyInv, NoneIn
<1>4. CASE last_frag = fragment
  <2>1. \A j \in 1 .. rr - 1 : ~Carries(answers[j], fragment + 1)
    BY <1>1, <1>4 DEF ChainInv, ScanInv, NoneBelow
  <2>2. fragment > 0 => \A j \in Last + 1 .. Len(answers) : ~Carries(answers[j], fragment + 1)
    BY <1>1, <1>4 DEF CopyInv, NoneIn
  <2>3. fragment = 0 => rr > Last
    BY <1>2 DEF TypeOK
  <2>4. QED
    BY <1>1, <1>2, <2>1, <2>2, <2>3
<1>5. QED
  BY <1>1, <1>3, <1>4

LEMMA CopyInductive == TypeOK /\ ChainInv /\ CopyInv /\ [Next]_vars => CopyInv'
<1> SUFFICES ASSUME TypeOK, ChainInv, CopyInv, [Next]_vars
             PROVE  CopyInv'
  OBVIOUS
<1> USE DEF CopyInv, FirstCopyAfterPrevious, Last, PreviousPart, NoneIn, Parts
<1>0. /\ fragment \in Nat /\ last_frag \in Int /\ rr \in Nat \ {0} /\ Len(answers) \in Nat
      /\ Len(t.parts) \in Nat
  BY DEF TypeOK
<1>1. CASE RejectArguments \/ AcceptArguments
  BY <1>1, <1>0 DEF RejectArguments, AcceptArguments, Return, ChainInv, ScanInv
<1>2. CASE StartScan
  BY <1>2, <1>0 DEF StartScan
<1>3. CASE LeaveLoop
  BY <1>3 DEF LeaveLoop
<1>4. CASE SkipRecord
  <2>1. /\ rr' = rr + 1 /\ pc = "scan" /\ ~Carries(answers[rr], fragment + 1)
        /\ UNCHANGED <<answers, pc, fragment, last_frag, t>>
    BY <1>4 DEF SkipRecord, InScan, Wanted
  <2>2. Last \in Nat /\ Last' = Last /\ FirstCopyAfterPrevious'
    BY <2>1, LastInList
  <2> HIDE DEF Last, FirstCopyAfterPrevious
  <2>3. QED
    BY <1>0, <2>1, <2>2
<1>5. CASE AppendRecord
  <2> DEFINE n == Len(t.parts)
  <2>1. /\ pc' = "scan" /\ UNCHANGED <<answers, last_frag>> /\ rr' = rr + 1
        /\ fragment' = fragment + 1 /\ fragment = n /\ last_frag <= fragment
    BY <1>5, AppendExtends DEF AppendRecord, InScan, ChainInv, ChainInOrder, ScanInv
  <2>2. /\ Len(t'.parts) = n + 1 /\ t'.parts[n + 1] = rr
        /\ \A k \in 1 .. n : t'.parts[k] = t.parts[k]
    BY <1>5, AppendExtends
  <2>3. FirstCopyAfterPrevious'
    <3>1. ASSUME NEW k \in 1 .. n + 1, NEW j \in 1 .. Len(answers), Carries(answers[j], k)
          PROVE  IF t'.parts[k] > PreviousPart(k)'
                   THEN j \notin PreviousPart(k)' + 1 .. t'.parts[k] - 1
                   ELSE j \notin (PreviousPart(k)' + 1 .. Len(answers))
                                   \union (1 .. t'.parts[k] - 1)
      <4>1. PreviousPart(k)' = PreviousPart(k)
        <5>1. k = 1 \/ k - 1 \in 1 .. n
          BY <1>0
        <5>2. QED
          BY <2>2, <5>1
      <4>2. CASE k = n + 1
        <5>1. t'.parts[k] = rr /\ PreviousPart(k) = Last /\ k = fragment + 1
          BY <2>1, <2>2, <4>2
        <5> HIDE DEF CopyInv, Last, PreviousPart
        <5>2. QED
          BY <1>5, <3>1, <4>1, <5>1, AppendsFirstCopy
      <4>3. CASE k \in 1 .. n
        BY <2>2, <3>1, <4>1, <4>3
      <4>4. QED
        BY <1>0, <4>2, <4>3
    <3>2. QED
      BY <2>1, <2>2, <3>1
  <2>4. Last' = rr
    BY <1>0, <2>2
  <2>5. last_frag >= 0
    BY <1>5 DEF AppendRecord, InScan
  <2> HIDE DEF Last, FirstCopyAfterPrevious
  <2>6. QED
    BY <1>0, <2>1, <2>3, <2>4, <2>5
<1>6. CASE AppendFails
  BY <1>6 DEF AppendFails, Error, Return
<1>7. CASE EndScan
  <2>1. /\ pc = "scan" /\ pc' = "loop" /\ rr > Len(answers) /\ last_frag <= fragment
        /\ UNCHANGED <<answers, fragment, last_frag, t>>
    BY <1>7 DEF EndScan, ChainInv, ScanInv
  <2>2. Last \in Nat /\ Last' = Last /\ FirstCopyAfterPrevious'
    BY <2>1, LastInList
  <2> HIDE DEF Last, FirstCopyAfterPrevious
  <2>3. QED
    BY <1>0, <2>1, <2>2
<1>8. CASE NotPresent \/ HandOver \/ HandOverFails
  BY <1>8 DEF NotPresent, HandOver, HandOverFails, Error, Return
<1>9. CASE UNCHANGED vars
  BY <1>9 DEF vars
<1>10. QED
  BY <1>1, <1>2, <1>3, <1>4, <1>5, <1>6, <1>7, <1>8, <1>9 DEF Next

LEMMA CopyInvariant == Spec => []CopyInv
<1>1. Init => CopyInv
  BY DEF Init, CopyInv, FirstCopyAfterPrevious, Parts
<1>2. QED
  BY <1>1, TypeCorrect, ChainInvariant, CopyInductive, PTL DEF Spec

(* Among several copies of a fragment the token holds the first one behind    *)
(* the fragment before it, going around the list at most once.                *)
THEOREM FirstCopyAlwaysWins == Spec => []FirstCopyAfterPrevious
<1>1. CopyInv => FirstCopyAfterPrevious
  BY DEF CopyInv
<1>2. QED
  BY <1>1, CopyInvariant, PTL

-----------------------------------------------------------------------------
(* The promise reads a record as the code does. *)
LEMMA SameReading ==
  /\ \A r, n : Promise!Carries(r, n) <=> Carries(r, n)
  /\ \A r : Promise!PayloadSize(r) = PayloadSize(r)
BY DEF Promise!Carries, Carries, Promise!IsFragment, IsFragment, Promise!Atoi, Atoi,
       Promise!IsDigit, IsDigit, Promise!IsSpace, IsSpace, Promise!PLUS, PLUS,
       Promise!MINUS, MINUS, Promise!TXT, TXT, Promise!COLON, COLON,
       Promise!PayloadSize, PayloadSize

(* Every run of the scan is a run of the promise made to the caller: each    *)
(* step extends the promised chain, ends the call as promised, or is unseen. *)
THEOREM Refinement == Spec => Promise!Spec
<1>1. Init => Promise!Init
  BY DEF Init, Promise!Init, Outcome
<1>2. TypeOK /\ ChainInv /\ BufferInv /\ [Next]_vars => [Promise!Next]_Promise!vars
  <2> SUFFICES ASSUME TypeOK, ChainInv, BufferInv, [Next]_vars
               PROVE  [Promise!Next]_Promise!vars
    OBVIOUS
  <2> USE DEF Promise!Next, Promise!vars
  <2>0. pc # "done" => Outcome = "pending"
    BY DEF ChainInv, ScanInv, Outcome
  <2>1. CASE RejectArguments
    <3>1. t.parts = <<>>
      BY <2>1 DEF RejectArguments, ChainInv, ChainInOrder, ScanInv, TypeOK
    <3>2. Promise!Reject
      BY <2>0, <2>1, <3>1 DEF RejectArguments, Return, Promise!Reject, Outcome
    <3>3. QED
      BY <3>2
  <2>2. CASE AppendRecord
    <3>1. Promise!Extend
      <4>1. Outcome = "pending" /\ UNCHANGED <<answers, Outcome>>
        BY <2>0, <2>2 DEF AppendRecord, InScan, Outcome
      <4>2. Carries(answers[rr], Len(t.parts) + 1)
        BY <2>2, AppendExtends DEF ChainInv, ChainInOrder
      <4>3. rr \in 1 .. Len(answers) /\ t'.parts = Append(t.parts, rr)
        BY <2>2, AppendExtends
      <4>4. QED
        BY <4>1, <4>2, <4>3, SameReading DEF Promise!Extend
    <3>2. QED
      BY <3>1
  <2>3. CASE AppendFails \/ HandOverFails
    <3>1. Promise!GiveUp
      BY <2>0, <2>3
         DEF AppendFails, HandOverFails, InScan, Error, Return, Promise!GiveUp, Outcome
    <3>2. QED
      BY <3>1
  <2>4. CASE NotPresent \/ HandOver
    <3>1. pc = "finish" /\ UNCHANGED <<answers, t>>
      BY <2>4 DEF NotPresent, HandOver
    <3>2. Promise!Complete
      <4>1. NoneBelow(Len(answers) + 1) /\ fragment = Len(t.parts)
        BY <3>1 DEF ChainInv, ChainInOrder, ScanInv
      <4>2. Len(answers) \in Nat
        BY DEF TypeOK
      <4>3. QED
        BY <4>1, <4>2, SameReading DEF NoneBelow, Promise!Complete
    <3>3. Promise!HasPayload <=> ~Empty
      <4>1. \A k \in Parts : PayloadSize(Part(k)) \in Nat
        BY PartsAreRecords, CarriesRange DEF ChainInv, ChainInOrder, Parts
      <4>2. QED
        BY <4>1, SameReading DEF BufferInv, Empty, Parts, Part, Promise!HasPayload
    <3>4. Outcome' = IF Empty THEN "absent" ELSE "token"
      BY <2>4 DEF NotPresent, HandOver, Return, Outcome
    <3>5. Promise!Deliver
      BY <2>0, <3>1, <3>2, <3>3, <3>4 DEF Promise!Deliver
    <3>6. QED
      BY <3>5
  <2>5. CASE UNCHANGED <<answers, t, ret>>
    BY <2>5 DEF Outcome
  <2>6. QED
    BY <2>1, <2>2, <2>3, <2>4, <2>5
       DEF Next, vars, AcceptArguments, StartScan, LeaveLoop, SkipRecord, EndScan
<1>3. QED
  BY <1>1, <1>2, TypeCorrect, ChainInvariant, BufferInvariant, PTL
     DEF Spec, Promise!Spec
-----------------------------------------------------------------------------
(* How much is left to do.  Appends counts the changes fragment and last_frag *)
(* can still make: two for each number up to 99, an append and the scan it    *)
(* makes necessary.  Between two of them at most every record is looked at.   *)
Stage == CASE pc = "enter"            -> 3
           [] pc \in {"loop", "scan"} -> 2
           [] OTHER                   -> 1
Appends == 2 * (99 - fragment) + IF last_frag < fragment THEN 2 ELSE 1
Ahead   == IF pc = "scan" THEN Len(answers) + 2 - rr ELSE 0
Left    == IF pc = "done" THEN 0 ELSE Stage + Appends * (Len(answers) + 3) + Ahead

LEMMA OneFewer ==
  ASSUME NEW a \in Nat, NEW b \in Nat, NEW k \in Nat, a < b
  PROVE  a * k \in Nat /\ b * k \in Nat /\ a * k + k <= b * k
<1>1. a * k \in Nat /\ b * k \in Nat /\ (b - a - 1) * k \in Nat
  OBVIOUS
<1>2. b * k = a * k + k + (b - a - 1) * k
  OBVIOUS
<1>3. QED
  BY <1>1, <1>2

LEMMA LeftIsNumber ==
  ASSUME TypeOK
  PROVE  /\ Len(answers) \in Nat /\ Appends \in Nat
         /\ Appends * (Len(answers) + 3) \in Nat
         /\ Ahead \in 0 .. Len(answers) + 1 /\ Stage \in 1 .. 3 /\ Left \in Nat
<1>1. /\ Len(answers) \in Nat /\ fragment \in 0 .. 99 /\ last_frag \in -1 .. 99
      /\ rr \in 1 .. Len(answers) + 1
  BY DEF TypeOK
<1>2. Appends \in Nat /\ Ahead \in 0 .. Len(answers) + 1 /\ Stage \in 1 .. 3
  <2>1. Appends \in Nat
    BY <1>1 DEF Appends
  <2>2. Ahead \in 0 .. Len(answers) + 1
    BY <1>1 DEF Ahead
  <2>3. Stage \in 1 .. 3
    BY DEF Stage
  <2>4. QED
    BY <2>1, <2>2, <2>3
<1>3. \A a \in Nat, k \in Nat : a * k \in Nat
  OBVIOUS
<1>4. Appends * (Len(answers) + 3) \in Nat
  BY <1>1, <1>2, <1>3
<1>5. QED
  BY <1>1, <1>2, <1>4 DEF Left

LEMMA StepCounts ==
  ASSUME TypeOK, TypeOK', Next
  PROVE  Left' < Left
<1> PICK L : L = Len(answers)
  OBVIOUS
<1>1. /\ L \in Nat /\ Appends \in Nat /\ Appends * (L + 3) \in Nat
      /\ Ahead \in 0 .. L + 1 /\ Stage \in 1 .. 3
      /\ fragment \in 0 .. 99 /\ last_frag \in -1 .. 99 /\ rr \in 1 .. L + 1
  BY LeftIsNumber DEF TypeOK
<1>2. answers' = answers
  BY DEF Next, RejectArguments, AcceptArguments, StartScan, LeaveLoop, SkipRecord,
         AppendRecord, AppendFails, EndScan, NotPresent, HandOver, HandOverFails
<1>3. pc # "done" => Left = Stage + Appends * (L + 3) + Ahead
  BY DEF Left
<1>4. pc' # "done" => Left' = Stage' + Appends' * (L + 3) + Ahead'
  BY <1>2 DEF Left
<1>5. CASE \/ RejectArguments \/ AppendFails \/ NotPresent \/ HandOver \/ HandOverFails
  <2>1. pc # "done" /\ pc' = "done"
    BY <1>5 DEF RejectArguments, AppendFails, InScan, NotPresent, HandOver, HandOverFails,
                Return, Error
  <2>2. Left' = 0
    BY <2>1 DEF Left
  <2>3. QED
    BY <1>1, <1>3, <2>1, <2>2
<1>6. CASE AcceptArguments \/ LeaveLoop \/ EndScan \/ SkipRecord
  <2>1. fragment' = fragment /\ last_frag' = last_frag
    BY <1>6 DEF AcceptArguments, LeaveLoop, EndScan, SkipRecord
  <2>2. Appends' = Appends
    BY <2>1 DEF Appends
  <2>3. /\ pc # "done" /\ pc' # "done"
        /\ Stage' + Ahead' < Stage + Ahead /\ Stage' + Ahead' \in Int
    <3>1. CASE AcceptArguments
      BY <3>1 DEF AcceptArguments, Stage, Ahead
    <3>2. CASE LeaveLoop
      BY <3>2 DEF LeaveLoop, Stage, Ahead
    <3>3. CASE EndScan
      <4>1. rr = L + 1
        BY <1>1, <3>3 DEF EndScan
      <4>2. QED
        BY <1>1, <3>3, <4>1 DEF EndScan, Stage, Ahead
    <3>4. CASE SkipRecord
      BY <1>1, <1>2, <3>4 DEF SkipRecord, InScan, Stage, Ahead
    <3>5. QED
      BY <1>6, <3>1, <3>2, <3>3, <3>4
  <2>4. Stage' \in Int /\ Ahead' \in Int
    <3>1. Stage' \in Int
      BY DEF Stage
    <3>2. Len(answers') \in Nat /\ rr' \in Int
      BY <1>1, <1>2, <1>6 DEF AcceptArguments, LeaveLoop, EndScan, SkipRecord
    <3>3. Ahead' \in Int
      BY <3>2 DEF Ahead
    <3>4. QED
      BY <3>1, <3>3
  <2>5. PICK product \in Nat : product = Appends * (L + 3)
    BY <1>1
  <2>6. Left = Stage + product + Ahead /\ Left' = Stage' + product + Ahead'
    BY <1>3, <1>4, <2>2, <2>3, <2>5
  <2>7. Stage \in Int /\ Ahead \in Int
    BY <1>1
  <2>8. Stage' + Ahead' < Stage + Ahead
    BY <2>3
  <2>9. Stage' + product + Ahead' < Stage + product + Ahead
    <3>1. PICK s \in Int, a \in Int, s2 \in Int, a2 \in Int :
            s = Stage /\ a = Ahead /\ s2 = Stage' /\ a2 = Ahead'
      BY <2>4, <2>7
    <3>2. s2 + a2 < s + a
      BY <2>8, <3>1
    <3>3. s2 + product + a2 < s + product + a
      BY <3>2
    <3>4. QED
      BY <3>1, <3>3
  <2>10. QED
    BY <2>6, <2>9
<1>7. CASE StartScan \/ AppendRecord
  <2>1. /\ pc \in {"loop", "scan"} /\ pc' = "scan" /\ rr' \in 1 .. L + 1
        /\ Appends' < Appends /\ Appends' \in Nat
    <3>1. CASE StartScan
      BY <1>1, <3>1 DEF StartScan, AnotherScan, FirstRecord, Appends
    <3>2. CASE AppendRecord
      <4>1. fragment' = fragment + 1 /\ fragment' \in 0 .. 99 /\ last_frag' = last_frag
        BY <3>2 DEF AppendRecord, Wanted, Carries, TypeOK
      <4>2. rr' \in 1 .. L + 1
        BY <1>1, <3>2 DEF AppendRecord, InScan
      <4>3. Appends' < Appends /\ Appends' \in Nat
        BY <1>1, <4>1 DEF Appends
      <4>4. QED
        BY <3>2, <4>2, <4>3 DEF AppendRecord, InScan
    <3>3. QED
      BY <1>7, <3>1, <3>2
  <2>2. Stage = 2 /\ Stage' = 2 /\ Ahead' \in 0 .. L + 1
    BY <1>1, <1>2, <2>1 DEF Stage, Ahead
  <2>3. PICK more \in Nat, fewer \in Nat : /\ more = Appends * (L + 3)
                                           /\ fewer = Appends' * (L + 3)
                                           /\ fewer + (L + 3) <= more
    <3>1. L + 3 \in Nat
      BY <1>1
    <3>2. QED
      BY <1>1, <2>1, <3>1, OneFewer
  <2>4. Left = 2 + more + Ahead /\ Left' = 2 + fewer + Ahead'
    BY <1>3, <1>4, <2>1, <2>2, <2>3
  <2>5. Ahead \in Nat /\ L \in Nat /\ Ahead' \in Nat /\ Ahead' <= L + 1
    BY <1>1, <2>2
  <2>6. 2 + fewer + Ahead' < 2 + more + Ahead
    BY <2>3, <2>5
  <2>7. QED
    BY <2>4, <2>6
<1>8. QED
  BY <1>5, <1>6, <1>7 DEF Next

(* Every step brings the return nearer, whatever the answers are: the loops   *)
(* of dns_token_assemble end for every list, after at most a hundred scans.   *)
THEOREM EveryStepCounts == Spec => [](Left \in Nat) /\ [][Left' < Left]_vars
<1>1. TypeOK => Left \in Nat
  BY LeftIsNumber
<1>2. TypeOK /\ TypeOK' /\ [Next]_vars => [Left' < Left]_vars
  BY StepCounts
<1>3. QED
  BY <1>1, <1>2, TypeCorrect, PTL DEF Spec
=============================================================================
