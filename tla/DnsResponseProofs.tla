------------------------- MODULE DnsResponseProofs -------------------------
(***************************************************************************)
(* Theorems about dns_txt_fetch for every message: the sets of lengths,    *)
(* octets and counts are the constants', and may be the widest.            *)
(***************************************************************************)
EXTENDS DnsResponse, TLAPS

(* What the constants hold are numbers. *)
LEMMA Numbers ==
  /\ UINT16_MAX \in Nat
  /\ \A l \in Lengths : l \in Int
  /\ \A b \in Octets : b \in Nat
  /\ \A n \in RdLengths : n \in 0 .. UINT16_MAX
  /\ \A n \in Counts : n \in Nat
<1>1. UINT16_MAX \in Nat
  BY DEF UINT16_MAX
<1>2. QED
  BY <1>1, MessageAssumption

(* The list loses its first record; the others keep their order. *)
LEMMA TailOfList ==
  ASSUME answers \in Seq(Recs), answers # <<>>
  PROVE  /\ Tail(answers) \in Seq(Recs)
         /\ Len(Tail(answers)) = Len(answers) - 1 /\ Len(answers) \in Nat \ {0}
         /\ \A k \in 1 .. Len(answers) - 1 : Tail(answers)[k] = answers[k + 1]
OBVIOUS

-----------------------------------------------------------------------------
(* No step leaves the types. *)
LEMMA TypeInductive == TypeOK /\ [Next]_vars => TypeOK'
<1> SUFFICES ASSUME TypeOK, [Next]_vars
             PROVE  TypeOK'
  OBVIOUS
<1> USE DEF TypeOK
<1> USE DEF parser, Return, Fail, Go, Kept
<1>1. CASE RejectArguments \/ InitResolver \/ Allocate \/ Copy
  BY <1>1 DEF RejectArguments, InitResolver, Allocate, Copy, Codes
<1>2. CASE Query
  BY <1>2, MessageAssumption DEF Query, Codes
<1>3. CASE HeaderTooShort \/ NameTooShort \/ DataTooShort
  BY <1>3 DEF HeaderTooShort, NameTooShort, DataTooShort, Codes
<1>4. CASE ReadHeader
  <2>1. PICK h \in Headers : header' = h /\
           IF GoodHeader(h) THEN Go("name") /\ i' = HEADER
                            ELSE Fail(HeaderError(h)) /\ UNCHANGED i
    BY <1>4 DEF ReadHeader
  <2>2. HeaderError(h) \in Codes
    BY DEF HeaderError, RcodeError, Codes
  <2>3. header' \in [flags : Flags, rcode : Rcodes, qdcount : Counts, ancount : Counts]
    BY <2>1 DEF Headers
  <2>4. i' \in Nat /\ hi' \in Nat
    BY <1>4, <2>1 DEF ReadHeader, HEADER
  <2>5. QED
    BY <1>4, <2>1, <2>2, <2>3, <2>4 DEF ReadHeader
<1>5. CASE SkipLabel
  <2>1. PICK b \in Octets :
           IF Fits(1 + b)
             THEN i' = i + 1 + b /\ Go(IF b = 0 THEN "fixed" ELSE "name")
             ELSE Fail("XA_DNS_RECORD_TOO_SHORT") /\ UNCHANGED i
    BY <1>5 DEF SkipLabel
  <2>2. i' \in Nat /\ hi' \in Nat
    BY <1>5, <2>1, Numbers DEF SkipLabel, Reads
  <2>3. QED
    BY <1>5, <2>1, <2>2 DEF SkipLabel, Codes
<1>6. CASE SkipPointer
  BY <1>6 DEF SkipPointer, Reads, AfterPointer, Codes
<1>7. CASE BadLabel
  BY <1>7 DEF BadLabel, Reads, Codes
<1>8. CASE SkipQuestion
  BY <1>8 DEF SkipQuestion, Codes
<1>9. CASE ReadRecord
  BY <1>9, Numbers DEF ReadRecord, Reads, Codes
<1>10. CASE AppendRecord
  <2>1. [rdata |-> i, rdlength |-> rdlength] \in Recs
    BY DEF Recs
  <2>2. answers' \in Seq(Recs)
    BY <1>10, <2>1 DEF AppendRecord
  <2>3. i' \in Nat
    BY <1>10, Numbers DEF AppendRecord, Past
  <2>4. QED
    BY <1>10, <2>2, <2>3 DEF AppendRecord, Codes
<1>11. CASE FreeRecord
  BY <1>11, TailOfList DEF FreeRecord
<1>12. CASE FreeResponse
  BY <1>12 DEF FreeResponse, FreeMessage
<1>13. CASE Succeed
  BY <1>13 DEF Succeed, Codes
<1>14. CASE UNCHANGED vars
  BY <1>14 DEF vars
<1>15. QED
  BY <1>1, <1>2, <1>3, <1>4, <1>5, <1>6, <1>7, <1>8, <1>9, <1>10, <1>11, <1>12,
     <1>13, <1>14 DEF Next

(* The variables keep their types: the index never turns negative and no      *)
(* record is longer than rdlength can say.                                    *)
THEOREM TypeCorrect == Spec => []TypeOK
<1>1. Init => TypeOK
  BY Numbers DEF TypeOK, Init, Codes
<1>2. QED
  BY <1>1, TypeInductive, PTL DEF Spec

-----------------------------------------------------------------------------
Parsing == pc \in {"name", "fixed", "rdata"}

(* Where the parser is and who owns what.  While it parses, both blocks are   *)
(* its own and records are still wanted.                                      *)
StageInv ==
  /\ pc = "done" <=> ret # "none"
  /\ pc \in {"enter", "query", "allocate"} => p = "none" /\ full = "none" /\ answers = <<>>
  /\ pc = "copy" => p = "local" /\ full = "none" /\ answers = <<>>
  /\ pc \in {"header", "success", "destroy"} \/ Parsing => p = "local" /\ full = "live"
  /\ pc = "header" \/ (Parsing /\ section = "question") => answers = <<>>
  /\ pc \in {"enter", "query", "allocate", "copy", "header"} =>
        section = "question" /\ i = 0 /\ hi = 0
  /\ pc = "rdata" => section = "answer"
  /\ Parsing => /\ header.ancount \in Nat
                /\ Len(answers) < header.ancount
  /\ pc = "success" => Len(answers) = header.ancount
  /\ pc = "destroy" => e # "XA_OK"
  /\ AllOrNothing

LEMMA StageInductive == TypeOK /\ StageInv /\ [Next]_vars => StageInv'
<1> SUFFICES ASSUME TypeOK, StageInv, [Next]_vars
             PROVE  StageInv'
  OBVIOUS
<1> USE DEF StageInv, AllOrNothing, Parsing
<1> USE DEF TypeOK, parser, Return, Fail, Go, Kept
<1>1. CASE RejectArguments \/ InitResolver \/ Query \/ Allocate \/ Copy
  <2>1. CASE RejectArguments \/ InitResolver
    BY <2>1 DEF RejectArguments, InitResolver
  <2>2. CASE Query
    BY <2>2 DEF Query
  <2>3. CASE Allocate
    BY <2>3 DEF Allocate
  <2>4. CASE Copy
    BY <2>4 DEF Copy
  <2>5. QED
    BY <1>1, <2>1, <2>2, <2>3, <2>4
<1>2. CASE HeaderTooShort \/ NameTooShort \/ DataTooShort
  BY <1>2 DEF HeaderTooShort, NameTooShort, DataTooShort
<1>3. CASE ReadHeader
  <2>1. PICK h \in Headers : header' = h /\
           IF GoodHeader(h) THEN Go("name") /\ i' = HEADER
                            ELSE Fail(HeaderError(h)) /\ UNCHANGED i
    BY <1>3 DEF ReadHeader
  <2>2. HeaderError(h) # "XA_OK"
    BY DEF HeaderError, RcodeError
  <2>3. GoodHeader(h) => h.ancount \in Nat /\ h.ancount > 0
    BY Numbers DEF Headers, GoodHeader
  <2>4. QED
    BY <1>3, <2>1, <2>2, <2>3 DEF ReadHeader
<1>4. CASE SkipLabel
  <2>1. \/ pc' \in {"name", "fixed"} /\ e' = e
        \/ pc' = "destroy" /\ e' # "XA_OK"
    BY <1>4 DEF SkipLabel
  <2>2. QED
    BY <1>4, <2>1 DEF SkipLabel, InName
<1>5. CASE SkipPointer \/ BadLabel
  BY <1>5 DEF SkipPointer, BadLabel, InName, AfterPointer
<1>6. CASE SkipQuestion
  BY <1>6 DEF SkipQuestion
<1>7. CASE ReadRecord
  BY <1>7 DEF ReadRecord
<1>8. CASE AppendRecord
  <2>1. CASE Fail("XA_OUT_OF_MEMORY") /\ UNCHANGED <<answers, i>>
    BY <1>8, <2>1 DEF AppendRecord
  <2>2. CASE /\ answers' = Append(answers, [rdata |-> i, rdlength |-> rdlength])
             /\ Go(IF MoreAnswers THEN "name" ELSE "success")
    <3>1. Len(answers') = Len(answers) + 1 /\ Len(answers) \in Nat
      BY <2>2
    <3>2. header' = header /\ pc = "rdata"
      BY <1>8 DEF AppendRecord
    <3>3. IF Len(answers') < header.ancount THEN pc' = "name" ELSE pc' = "success"
      BY <2>2, <3>1 DEF MoreAnswers
    <3>4. pc' = "success" => Len(answers') = header'.ancount
      BY <3>1, <3>2, <3>3
    <3>5. QED
      BY <1>8, <3>1, <3>2, <3>3, <3>4 DEF AppendRecord
  <2>3. QED
    BY <1>8, <2>1, <2>2 DEF AppendRecord
<1>9. CASE FreeRecord
  BY <1>9 DEF FreeRecord
<1>10. CASE FreeResponse
  BY <1>10 DEF FreeResponse, FreeMessage, Codes
<1>11. CASE Succeed
  BY <1>11 DEF Succeed
<1>12. CASE UNCHANGED vars
  BY <1>12 DEF vars
<1>13. QED
  BY <1>1, <1>2, <1>3, <1>4, <1>5, <1>6, <1>7, <1>8, <1>9, <1>10, <1>11, <1>12
     DEF Next

LEMMA StageInvariant == Spec => []StageInv
<1>1. Init => StageInv
  BY DEF Init, StageInv, AllOrNothing, Parsing
<1>2. QED
  BY <1>1, TypeCorrect, StageInductive, PTL DEF Spec

(* A response is complete, or nothing of it is left. *)
THEOREM AlwaysAllOrNothing == Spec => []AllOrNothing
<1>1. StageInv => AllOrNothing
  BY DEF StageInv
<1>2. QED
  BY <1>1, StageInvariant, PTL

-----------------------------------------------------------------------------
(* How far the index has come: behind the header, the question, and for each  *)
(* record in the list its data and the eleven octets of its name and header.  *)
Behind(n) == /\ i >= HEADER + 5 + n + 11 * Len(answers)
             /\ \A k \in 1 .. Len(answers) : EndOf(answers[k]) + n <= i

BoundsInv ==
  /\ pc \in {"allocate", "copy"} => len >= 1
  /\ full = "live" => hi <= len
  /\ Parsing => i <= len
  /\ Parsing /\ section = "question" =>
        i >= IF pc = "name" THEN HEADER ELSE HEADER + 1
  /\ pc = "name" /\ section = "answer" => Behind(0)
  /\ pc = "fixed" /\ section = "answer" => Behind(1)
  /\ pc = "rdata" => Behind(11)
  /\ RecordsDisjoint
  /\ ListFitsMessage

(* Within a name the index moves forward, and past the root label or a        *)
(* pointer by at least one octet.                                             *)
LEMMA NameAdvances ==
  ASSUME TypeOK, SkipLabel \/ SkipPointer \/ BadLabel
  PROVE  /\ hi' <= len /\ pc = "name" /\ i' \in Nat
         /\ UNCHANGED <<len, answers, section, full>>
         /\ \/ pc' = "destroy"
            \/ /\ pc' \in {"name", "fixed"}
               /\ i' >= i + 1 /\ i' <= len
<1> USE DEF TypeOK, InName, Fits, Reads, Fail, Go, Kept
<1>1. CASE SkipLabel
  <2>1. PICK b \in Octets :
           IF Fits(1 + b)
             THEN i' = i + 1 + b /\ Go(IF b = 0 THEN "fixed" ELSE "name")
             ELSE Fail("XA_DNS_RECORD_TOO_SHORT") /\ UNCHANGED i
    BY <1>1 DEF SkipLabel
  <2>2. b \in Nat /\ len \in Int
    BY Numbers
  <2>3. QED
    BY <1>1, <2>1, <2>2 DEF SkipLabel
<1>2. CASE SkipPointer
  BY <1>2, Numbers DEF SkipPointer, AfterPointer
<1>3. CASE BadLabel
  BY <1>3, Numbers DEF BadLabel
<1>4. QED
  BY <1>1, <1>2, <1>3

LEMMA BoundsInductive == TypeOK /\ StageInv /\ BoundsInv /\ [Next]_vars => BoundsInv'
<1> SUFFICES ASSUME TypeOK, StageInv, BoundsInv, [Next]_vars
             PROVE  BoundsInv'
  OBVIOUS
<1> USE DEF BoundsInv, Behind, RecordsDisjoint, ListFitsMessage, Parsing, HEADER,
            parser, Return, Fail, Go, Kept
<1>0. /\ len \in Int /\ i \in Nat /\ hi \in Nat /\ rdlength \in Nat
      /\ answers \in Seq(Recs) /\ Len(answers) \in Nat
      /\ \A k \in 1 .. Len(answers) :
            answers[k].rdata \in Nat /\ EndOf(answers[k]) \in Nat
  <2>1. answers \in Seq(Recs)
    BY DEF TypeOK
  <2>2. \A k \in 1 .. Len(answers) : answers[k] \in Recs
    BY <2>1
  <2>3. QED
    BY <2>1, <2>2, Numbers DEF TypeOK, Recs, EndOf
<1>1. CASE RejectArguments \/ InitResolver \/ Query \/ Allocate \/ Copy
  <2>1. CASE RejectArguments \/ InitResolver
    BY <2>1 DEF RejectArguments, InitResolver
  <2>2. CASE Query
    BY <2>2, <1>0, Numbers DEF Query, StageInv
  <2>3. CASE Allocate \/ Copy
    BY <2>3, <1>0 DEF Allocate, Copy, StageInv
  <2>4. QED
    BY <1>1, <2>1, <2>2, <2>3
<1>2. CASE HeaderTooShort \/ NameTooShort \/ DataTooShort
  BY <1>2 DEF HeaderTooShort, NameTooShort, DataTooShort
<1>3. CASE ReadHeader
  BY <1>3, <1>0 DEF ReadHeader, StageInv
<1>4. CASE SkipLabel \/ SkipPointer \/ BadLabel
  <2>1. /\ hi' <= len /\ pc = "name" /\ i' \in Nat
        /\ UNCHANGED <<len, answers, section, full>>
        /\ \/ pc' = "destroy"
           \/ pc' \in {"name", "fixed"} /\ i' >= i + 1 /\ i' <= len
    BY <1>4, <1>0, NameAdvances
  <2>2. CASE pc' = "destroy"
    BY <2>1, <2>2
  <2>3. CASE pc' \in {"name", "fixed"} /\ section = "question"
    BY <1>0, <2>1, <2>3
  <2>4. CASE pc' \in {"name", "fixed"} /\ section = "answer"
    <3>1. i' >= i + 1 /\ i' <= len /\ Behind(0)
      BY <2>1, <2>4
    <3>2. i' >= HEADER + 5 + 1 + 11 * Len(answers)
      BY <1>0, <2>1, <3>1
    <3>3. \A k \in 1 .. Len(answers) : EndOf(answers[k]) + 1 <= i'
      BY <1>0, <2>1, <3>1
    <3>4. Behind(1)' /\ Behind(0)'
      BY <1>0, <2>1, <3>2, <3>3
    <3>5. QED
      BY <2>1, <2>4, <3>1, <3>4
  <2>5. QED
    BY <2>1, <2>2, <2>3, <2>4 DEF TypeOK
<1>5. CASE SkipQuestion
  BY <1>5, <1>0 DEF SkipQuestion, Fits, StageInv
<1>6. CASE ReadRecord
  BY <1>6, <1>0 DEF ReadRecord, Fits, Reads, RecordHeader
<1>7. CASE AppendRecord
  <2>1. CASE Fail("XA_OUT_OF_MEMORY") /\ UNCHANGED <<answers, i>>
    BY <1>7, <2>1 DEF AppendRecord
  <2>2. CASE /\ answers' = Append(answers, [rdata |-> i, rdlength |-> rdlength])
             /\ i' = Past
             /\ Go(IF MoreAnswers THEN "name" ELSE "success")
    <3> DEFINE n == Len(answers)
    <3>1. /\ pc = "rdata" /\ section = "answer" /\ i' = i + rdlength /\ i' <= len
          /\ UNCHANGED <<len, hi, full, section>>
      BY <1>7, <2>2 DEF AppendRecord, Fits, Past, StageInv
    <3>2. /\ Len(answers') = n + 1
          /\ answers'[n + 1].rdata = i /\ EndOf(answers'[n + 1]) = i'
          /\ \A k \in 1 .. n : answers'[k] = answers[k]
      BY <1>0, <2>2, <3>1 DEF EndOf
    <3>3. Behind(11)
      BY <3>1
    <3>4. \A k \in 1 .. n + 1 : EndOf(answers'[k]) <= i'
      BY <1>0, <3>1, <3>2, <3>3
    <3>5. RecordsDisjoint'
      <4>1. \A k \in 1 .. n + 1 : EndOf(answers'[k]) <= len
        BY <1>0, <3>1, <3>2, <3>4
      <4>2. ASSUME NEW k \in 1 .. n + 1, k > 1
            PROVE  EndOf(answers'[k - 1]) + 11 <= answers'[k].rdata
        <5>1. CASE k = n + 1
          BY <1>0, <3>2, <3>3, <4>2, <5>1
        <5>2. CASE k \in 1 .. n
          <6>1. k - 1 \in 1 .. n /\ k \in 1 .. n
            BY <1>0, <4>2, <5>2
          <6>2. EndOf(answers[k - 1]) + 11 <= answers[k].rdata
            BY <4>2, <6>1
          <6>3. QED
            BY <3>2, <6>1, <6>2
        <5>3. QED
          BY <1>0, <5>1, <5>2
      <4>3. QED
        BY <3>1, <3>2, <4>1, <4>2
    <3>6. i' >= HEADER + 5 + 11 * Len(answers')
      BY <1>0, <3>1, <3>2, <3>3
    <3>7. Behind(0)' /\ ListFitsMessage'
      BY <1>0, <3>1, <3>2, <3>4, <3>6
    <3>8. QED
      BY <2>2, <3>1, <3>5, <3>7
  <2>3. QED
    BY <1>7, <2>1, <2>2 DEF AppendRecord
<1>8. CASE FreeRecord
  <2>1. /\ pc = "destroy" /\ UNCHANGED <<pc, len, hi, full>>
        /\ answers' = Tail(answers) /\ answers # <<>>
    BY <1>8 DEF FreeRecord
  <2>2. /\ Len(answers') = Len(answers) - 1 /\ Len(answers) \in Nat \ {0}
        /\ \A k \in 1 .. Len(answers) - 1 : answers'[k] = answers[k + 1]
    BY <1>0, <2>1, TailOfList
  <2>3. RecordsDisjoint'
    <3>1. ASSUME NEW k \in 1 .. Len(answers')
          PROVE  /\ EndOf(answers'[k]) <= len
                 /\ k > 1 => EndOf(answers'[k - 1]) + 11 <= answers'[k].rdata
      <4>1. k + 1 \in 1 .. Len(answers) /\ answers'[k] = answers[k + 1]
        BY <2>2
      <4>2. EndOf(answers'[k]) <= len
        BY <4>1
      <4>3. CASE k > 1
        <5>1. k - 1 \in 1 .. Len(answers) - 1 /\ (k - 1) + 1 = k /\ (k + 1) - 1 = k
          BY <2>2, <4>3
        <5>2. answers'[k - 1] = answers[k]
          BY <2>2, <5>1
        <5>3. EndOf(answers[(k + 1) - 1]) + 11 <= answers[k + 1].rdata
          BY <4>1, <4>3
        <5>4. QED
          BY <4>1, <4>2, <5>1, <5>2, <5>3
      <4>4. QED
        BY <4>2, <4>3
    <3>2. QED
      BY <2>1, <3>1
  <2>4. ListFitsMessage'
    BY <1>0, <2>1, <2>2
  <2>5. QED
    BY <2>1, <2>3, <2>4
<1>9. CASE FreeResponse
  BY <1>9 DEF FreeResponse, FreeMessage
<1>10. CASE Succeed
  BY <1>10 DEF Succeed
<1>11. CASE UNCHANGED vars
  BY <1>11 DEF vars
<1>12. QED
  BY <1>1, <1>2, <1>3, <1>4, <1>5, <1>6, <1>7, <1>8, <1>9, <1>10, <1>11 DEF Next

LEMMA BoundsInvariant == Spec => []BoundsInv
<1>1. Init => BoundsInv
  BY DEF Init, BoundsInv, Parsing, RecordsDisjoint, ListFitsMessage
<1>2. QED
  BY <1>1, TypeCorrect, StageInvariant, BoundsInductive, PTL DEF Spec

(* The parser reads no octet beyond the message. *)
THEOREM ReadsAlwaysInBounds == Spec => []ReadsInBounds
<1>1. BoundsInv => ReadsInBounds
  BY DEF BoundsInv, ReadsInBounds
<1>2. QED
  BY <1>1, BoundsInvariant, PTL

(* The records' data lie in the message, one behind the other. *)
THEOREM RecordsAlwaysDisjoint == Spec => []RecordsDisjoint
<1>1. BoundsInv => RecordsDisjoint
  BY DEF BoundsInv
<1>2. QED
  BY <1>1, BoundsInvariant, PTL

(* The list is no longer than the message has room for. *)
THEOREM ListAlwaysFits == Spec => []ListFitsMessage
<1>1. BoundsInv => ListFitsMessage
  BY DEF BoundsInv
<1>2. QED
  BY <1>1, BoundsInvariant, PTL
-----------------------------------------------------------------------------
(* How much is left to do: three steps at most for each octet in front of the *)
(* index, and each record of the list may still have to be freed.             *)
WIDEST == UINT16_MAX
Left == CASE pc = "enter"    -> 3 * WIDEST + 9
          [] pc = "query"    -> 3 * WIDEST + 8
          [] pc = "allocate" -> 3 * len + 7
          [] pc = "copy"     -> 3 * len + 6
          [] pc = "header"   -> 3 * len + 5
          [] pc \in {"name", "fixed"} -> 3 * (len - i) + 4 + Len(answers)
          [] pc = "rdata"    -> 3 * (len - i) + 6 + Len(answers)
          [] pc = "success"  -> 1
          [] pc = "destroy"  -> 1 + Len(answers)
          [] OTHER           -> 0

LEMMA LeftAt ==
  /\ pc = "enter"    => Left = 3 * WIDEST + 9
  /\ pc = "query"    => Left = 3 * WIDEST + 8
  /\ pc = "allocate" => Left = 3 * len + 7
  /\ pc = "copy"     => Left = 3 * len + 6
  /\ pc = "header"   => Left = 3 * len + 5
  /\ pc \in {"name", "fixed"} => Left = 3 * (len - i) + 4 + Len(answers)
  /\ pc = "rdata"    => Left = 3 * (len - i) + 6 + Len(answers)
  /\ pc = "success"  => Left = 1
  /\ pc = "destroy"  => Left = 1 + Len(answers)
  /\ pc = "done"     => Left = 0
BY DEF Left

LEMMA LeftAtNext ==
  /\ pc' = "query"    => Left' = 3 * WIDEST + 8
  /\ pc' = "allocate" => Left' = 3 * len' + 7
  /\ pc' = "copy"     => Left' = 3 * len' + 6
  /\ pc' = "header"   => Left' = 3 * len' + 5
  /\ pc' \in {"name", "fixed"} => Left' = 3 * (len' - i') + 4 + Len(answers')
  /\ pc' = "rdata"    => Left' = 3 * (len' - i') + 6 + Len(answers')
  /\ pc' = "success"  => Left' = 1
  /\ pc' = "destroy"  => Left' = 1 + Len(answers')
  /\ pc' = "done"     => Left' = 0
BY DEF Left

LEMMA LeftNumbers ==
  ASSUME TypeOK, BoundsInv
  PROVE  /\ WIDEST \in Nat /\ len \in -1 .. WIDEST /\ i \in Nat /\ rdlength \in Nat
         /\ Len(answers) \in Nat
         /\ pc \in {"allocate", "copy"} => len >= 1
         /\ Parsing => i <= len
<1>1. WIDEST \in Nat /\ UINT16_MAX = WIDEST
  BY DEF WIDEST, UINT16_MAX
<1>2. QED
  BY <1>1 DEF TypeOK, BoundsInv

LEMMA LeftIsNumber == TypeOK /\ BoundsInv => Left \in Nat
<1> SUFFICES ASSUME TypeOK, BoundsInv PROVE Left \in Nat
  OBVIOUS
<1>1. pc = "header" => len >= -1
  BY LeftNumbers
<1>2. QED
  BY <1>1, LeftAt, LeftNumbers DEF TypeOK, Parsing

LEMMA StepCounts ==
  ASSUME TypeOK, StageInv, BoundsInv, TypeOK', BoundsInv', Next
  PROVE  Left' < Left
<1>a. PICK n \in Nat, l \in Int, j \in Nat, d \in Nat :
         n = Len(answers) /\ l = len /\ j = i /\ d = rdlength
  BY LeftNumbers
<1>1. /\ WIDEST \in Nat /\ l <= WIDEST /\ l >= -1
      /\ pc \in {"allocate", "copy"} => l >= 1
      /\ Parsing => j <= l
      /\ Parsing' => i' <= len'
      /\ len' \in Int /\ i' \in Nat
  BY <1>a, LeftNumbers DEF TypeOK, BoundsInv
<1> USE DEF parser, Return, Fail, Go, Kept
<1>2. CASE RejectArguments \/ InitResolver
  BY <1>1, <1>2, LeftAt, LeftAtNext DEF RejectArguments, InitResolver
<1>3. CASE Query
  <2>1. len' \in -1 .. WIDEST
    BY DEF TypeOK, WIDEST
  <2>2. QED
    BY <1>1, <1>3, <2>1, LeftAt, LeftAtNext DEF Query
<1>4. CASE Allocate \/ Copy
  BY <1>a, <1>1, <1>4, LeftAt, LeftAtNext DEF Allocate, Copy
<1>5. CASE HeaderTooShort \/ ReadHeader
  <2>1. /\ pc = "header" /\ answers' = answers /\ n = 0 /\ len' = len
        /\ pc' = "destroy" \/ (pc' = "name" /\ i' = 12 /\ len >= 12)
    <3>1. answers = <<>>
      BY <1>5 DEF HeaderTooShort, ReadHeader, StageInv
    <3>2. QED
      BY <1>a, <1>5, <3>1 DEF HeaderTooShort, ReadHeader, HEADER
  <2>2. Len(answers') = 0
    BY <1>a, <2>1
  <2>3. QED
    BY <1>a, <1>1, <2>1, <2>2, LeftAt, LeftAtNext
<1>6. CASE \/ NameTooShort \/ SkipLabel \/ SkipPointer \/ BadLabel \/ SkipQuestion
           \/ ReadRecord \/ DataTooShort
  <2>1. /\ answers' = answers /\ len' = len /\ Parsing
        /\ \/ pc' = "destroy"
           \/ pc = "name" /\ pc' \in {"name", "fixed"} /\ i' >= i + 1 /\ i' <= len
           \/ pc = "fixed" /\ pc' = "name" /\ i' = i + 4
           \/ pc = "fixed" /\ pc' = "rdata" /\ i' = i + 10
    <3>1. CASE SkipLabel \/ SkipPointer \/ BadLabel
      BY <3>1, NameAdvances DEF Parsing
    <3>2. CASE NameTooShort \/ SkipQuestion \/ ReadRecord \/ DataTooShort
      BY <3>2 DEF NameTooShort, SkipQuestion, ReadRecord, DataTooShort, Parsing
    <3>3. QED
      BY <1>6, <3>1, <3>2
  <2>2. PICK j2 \in Nat : j2 = i'
    BY <1>1
  <2>3. Len(answers') = n /\ len' = l
    BY <1>a, <2>1
  <2>4. /\ j <= l
        /\ pc # "rdata" => Left = 3 * (l - j) + 4 + n
        /\ pc = "rdata" => Left = 3 * (l - j) + 6 + n
    BY <1>a, <1>1, <2>1, LeftAt DEF Parsing
  <2>5. CASE pc' = "destroy"
    BY <2>3, <2>4, <2>5, LeftAtNext
  <2>6. CASE pc' \in {"name", "fixed"}
    <3>1. pc # "rdata" /\ j2 >= j + 1
      BY <1>a, <2>1, <2>2, <2>6
    <3>2. Left' = 3 * (l - j2) + 4 + n
      BY <2>2, <2>3, <2>6, LeftAtNext
    <3>3. QED
      BY <2>4, <3>1, <3>2
  <2>7. CASE pc' = "rdata"
    <3>1. pc # "rdata" /\ j2 = j + 10
      BY <1>a, <2>1, <2>2, <2>7
    <3>2. Left' = 3 * (l - j2) + 6 + n
      BY <2>2, <2>3, <2>7, LeftAtNext
    <3>3. QED
      BY <2>4, <3>1, <3>2
  <2>8. QED
    BY <2>1, <2>5, <2>6, <2>7
<1>7. CASE AppendRecord
  <2>1. /\ pc = "rdata" /\ len' = len
        /\ \/ pc' = "destroy" /\ answers' = answers
           \/ /\ pc' \in {"name", "success"} /\ i' = i + rdlength
              /\ answers' = Append(answers, [rdata |-> i, rdlength |-> rdlength])
    BY <1>7 DEF AppendRecord, Past
  <2>2. Left = 3 * (l - j) + 6 + n /\ j <= l
    BY <1>a, <1>1, <2>1, LeftAt DEF Parsing
  <2>3. CASE pc' = "destroy"
    BY <1>a, <2>1, <2>2, <2>3, LeftAtNext
  <2>4. CASE pc' = "success"
    BY <2>2, <2>4, LeftAtNext
  <2>5. CASE pc' = "name"
    <3>1. Len(answers') = n + 1
      BY <1>a, <2>1, <2>5 DEF TypeOK
    <3>2. Left' = 3 * (l - (j + d)) + 4 + (n + 1)
      BY <1>a, <2>1, <2>5, <3>1, LeftAtNext
    <3>3. QED
      BY <2>2, <3>2
  <2>6. QED
    BY <2>1, <2>3, <2>4, <2>5
<1>8. CASE FreeRecord
  <2>1. pc = "destroy" /\ pc' = "destroy" /\ answers # <<>> /\ answers' = Tail(answers)
    BY <1>8 DEF FreeRecord
  <2>2. Len(answers') = n - 1
    BY <1>a, <2>1, TailOfList DEF TypeOK
  <2>3. QED
    BY <1>a, <2>1, <2>2, LeftAt, LeftAtNext
<1>9. CASE FreeResponse \/ Succeed
  <2>1. pc' = "done" /\ pc \in {"destroy", "success"}
    BY <1>9 DEF FreeResponse, Succeed
  <2>2. QED
    BY <1>a, <2>1, LeftAt, LeftAtNext
<1>10. QED
  BY <1>2, <1>3, <1>4, <1>5, <1>6, <1>7, <1>8, <1>9 DEF Next

(* Every step brings the return nearer, whatever the octets are: no name and  *)
(* no count keeps the parser in a loop, and the time it takes is bounded by   *)
(* the length of the message.                                                 *)
THEOREM EveryStepCounts == Spec => [](Left \in Nat) /\ [][Left' < Left]_vars
<1>1. TypeOK /\ BoundsInv => Left \in Nat
  BY LeftIsNumber
<1>2. TypeOK /\ StageInv /\ BoundsInv /\ TypeOK' /\ BoundsInv' /\ [Next]_vars
        => [Left' < Left]_vars
  BY StepCounts
<1>3. QED
  BY <1>1, <1>2, TypeCorrect, StageInvariant, BoundsInvariant, PTL DEF Spec
=============================================================================
