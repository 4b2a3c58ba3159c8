------------------------- MODULE DnsTokenCliProofs -------------------------
(***************************************************************************)
(* Theorems about dns-token-cli for every message: what the program reads  *)
(* is there when it reads it, and is released on each way out.             *)
(***************************************************************************)
EXTENDS DnsTokenCli, WellFoundedInduction, TLAPS

(* An int has a positive number of values, and a remainder is one of them.    *)
LEMMA RangePositive == INT_RANGE \in Nat /\ INT_RANGE > 0
<1>1. OCTET * OCTET \in Nat /\ OCTET * OCTET > 0
  BY OctetAssumption
<1>2. OCTET * OCTET * OCTET \in Nat /\ OCTET * OCTET * OCTET > 0
  BY <1>1, OctetAssumption
<1>3. QED
  BY <1>2, OctetAssumption DEF INT_RANGE

LEMMA GetU32Range ==
  ASSUME NEW o \in [1 .. 4 -> 0 .. OCTET - 1]
  PROVE  GetU32(o) \in 0 .. INT_RANGE - 1
<1>1. OCTET \in Int /\ \A k \in 1 .. 4 : o[k] \in Int
  BY OctetAssumption
<1> DEFINE high == o[1] * OCTET * OCTET * OCTET
<1>2. high \in Int
  BY <1>1
<1>3. Signed(high) \in Int
  BY <1>2, RangePositive DEF Signed
<1> HIDE DEF high
<1> DEFINE sum == Signed(high) + o[2] * OCTET * OCTET + o[3] * OCTET + o[4]
<1>4. sum \in Int
  BY <1>1, <1>3
<1>5. GetU32(o) = sum % INT_RANGE
  BY DEF GetU32, high
<1> HIDE DEF sum
<1>6. QED
  BY <1>4, <1>5, RangePositive

(* A digit more in base K. *)
LEMMA OneDigitMore ==
  ASSUME NEW K \in Nat, NEW M \in Nat, NEW a \in 0 .. M - 1, NEW b \in 0 .. K - 1
  PROVE  a * K + b \in 0 .. M * K - 1
<1>1. a * K \in Nat /\ M * K \in Nat /\ (M - 1 - a) * K \in Nat
  OBVIOUS
<1>2. M * K = a * K + K + (M - 1 - a) * K
  OBVIOUS
<1>3. QED
  BY <1>1, <1>2

(* get_u32 is the number in network order: the sign that the first octet may  *)
(* give the sum is undone by the conversion.                                  *)
LEMMA GetU32IsBigEndian ==
  ASSUME NEW o \in [1 .. 4 -> 0 .. OCTET - 1]
  PROVE  GetU32(o) = BigEndian(o) /\ BigEndian(o) \in 0 .. INT_RANGE - 1
<1> DEFINE K2 == OCTET * OCTET
           K3 == OCTET * OCTET * OCTET
           y2 == o[1] * OCTET + o[2]
           y3 == y2 * OCTET + o[3]
           y4 == y3 * OCTET + o[4]
           high == o[1] * OCTET * OCTET * OCTET
           low  == o[2] * OCTET * OCTET + o[3] * OCTET + o[4]
<1>1. OCTET \in Nat /\ \A k \in 1 .. 4 : o[k] \in 0 .. OCTET - 1
  BY OctetAssumption
<1>2. K2 \in Nat /\ K3 \in Nat
  BY <1>1
<1>3. y2 \in 0 .. K2 - 1
  BY <1>1, OneDigitMore
<1> HIDE DEF y2
<1>4. y3 \in 0 .. K2 * OCTET - 1
  <2> HIDE DEF K2
  <2>1. QED
    BY <1>1, <1>2, <1>3, OneDigitMore
<1>5. y3 \in 0 .. K3 - 1
  BY <1>4
<1> HIDE DEF y3
<1>6. y4 \in 0 .. K3 * OCTET - 1
  <2> HIDE DEF K3
  <2>1. QED
    BY <1>1, <1>2, <1>5, OneDigitMore
<1>7. y4 \in 0 .. INT_RANGE - 1
  BY <1>6 DEF INT_RANGE
<1>8. high + low = y4
  BY <1>1 DEF y2, y3
<1>9. high \in Int /\ low \in Int
  BY <1>1
<1>10. GetU32(o) = (Signed(high) + low) % INT_RANGE
  <2>1. Signed(high) \in Int
    BY <1>9, RangePositive DEF Signed
  <2>2. o[2] * OCTET * OCTET \in Int /\ o[3] * OCTET \in Int /\ o[4] \in Int
    BY <1>1
  <2> HIDE DEF high
  <2>3. Signed(high) + o[2] * OCTET * OCTET + o[3] * OCTET + o[4] = Signed(high) + low
    BY <2>1, <2>2
  <2>4. QED
    BY <2>3 DEF GetU32, high
<1>11. BigEndian(o) = y4
  BY DEF BigEndian, y2, y3
<1> HIDE DEF high, low, y4
<1>12. Signed(high) = high \/ Signed(high) = high - INT_RANGE
  BY DEF Signed
<1>13. Signed(high) + low = y4 \/ Signed(high) + low = y4 - INT_RANGE
  BY <1>8, <1>9, <1>12, RangePositive
<1>14. y4 % INT_RANGE = y4 /\ (y4 - INT_RANGE) % INT_RANGE = y4
  BY <1>7, RangePositive
<1>15. QED
  BY <1>7, <1>10, <1>11, <1>13, <1>14

-----------------------------------------------------------------------------
Listed == [rdata : Int, rdlength : Int]

(* The list, what its records hold, and who owns the response at each place   *)
(* of dns_txt_fetch.                                                          *)
ListInv ==
  /\ rrs \in Seq(Listed) /\ i \in Int /\ rdlength \in Int
  /\ content \in Seq(Contents)
  /\ Len(rrs) <= Len(content)
  /\ \A k \in 1 .. Len(rrs) : rrs[k].rdata + rrs[k].rdlength <= len

FetchStage ==
  /\ fetch_pc \in {"enter", "query", "allocate"} => p = "none" /\ full = "none" /\ rrs = <<>>
  /\ fetch_pc = "copy" => p = "local" /\ full = "none" /\ rrs = <<>>
  /\ fetch_pc \in {"header", "name", "fixed", "rdata", "success", "destroy"} =>
        p = "local" /\ full = "live"
  /\ fetch_pc = "destroy" => e # "XA_OK"
  /\ fetch_pc \notin {"destroy", "done"} => Len(rrs) = Len(content)
  /\ fetch_pc = "done" =>
        IF fetch_ret = "XA_OK" THEN p = "caller" /\ full = "live" /\ Len(rrs) = Len(content)
                               ELSE p \in {"none", "freed"} /\ full # "live" /\ rrs = <<>>

(* A step that leaves the list alone leaves what its records hold alone.      *)
LEMMA SameList ==
  ASSUME ListInv, Fetch, rrs' = rrs
  PROVE  content' = content
BY DEF ListInv, Fetch

(* No step of the parser but AppendRecord, FreeRecord and Query touches the   *)
(* list or the length; its index stays a number.                              *)
LEMMA FetchKeepsList == ListInv /\ FetchStage /\ Fetch => ListInv' /\ FetchStage'
<1> SUFFICES ASSUME ListInv, FetchStage, Fetch
             PROVE  ListInv' /\ FetchStage'
  OBVIOUS
<1> USE DEF F!parser, F!Return, F!Fail, F!Go, F!Kept
<1>1. CASE F!RejectArguments
  BY <1>1, SameList DEF F!RejectArguments, ListInv, FetchStage
<1>2. CASE F!InitResolver
  BY <1>2, SameList DEF F!InitResolver, ListInv, FetchStage
<1>3. CASE F!Query
  <2>1. rrs = <<>> /\ rrs' = rrs /\ UNCHANGED <<i, rdlength, p, full>>
    BY <1>3 DEF F!Query, FetchStage
  <2>2. content' = content /\ Len(rrs') = 0
    BY <2>1, SameList
  <2>3. ListInv'
    BY <2>1, <2>2 DEF ListInv
  <2>4. FetchStage'
    BY <1>3, <2>1, <2>2 DEF F!Query, FetchStage
  <2>5. QED
    BY <2>3, <2>4
<1>4. CASE F!Allocate
  BY <1>4, SameList DEF F!Allocate, ListInv, FetchStage
<1>5. CASE F!Copy
  BY <1>5, SameList DEF F!Copy, ListInv, FetchStage
<1>6. CASE F!HeaderTooShort \/ F!NameTooShort \/ F!DataTooShort
  BY <1>6, SameList DEF F!HeaderTooShort, F!NameTooShort, F!DataTooShort, ListInv, FetchStage
<1>7. CASE F!ReadHeader
  <2>1. PICK h \in F!Headers :
           IF F!GoodHeader(h) THEN F!Go("name") /\ i' = F!HEADER
                              ELSE F!Fail(F!HeaderError(h)) /\ UNCHANGED i
    BY <1>7 DEF F!ReadHeader
  <2>2. F!HeaderError(h) # "XA_OK"
    BY DEF F!HeaderError, F!RcodeError
  <2>3. /\ fetch_pc = "header" /\ rrs' = rrs /\ i' \in Int
        /\ UNCHANGED <<len, p, full, fetch_ret, rdlength>>
    BY <1>7, <2>1 DEF F!ReadHeader, F!HEADER, ListInv
  <2>4. fetch_pc' = "name" \/ (fetch_pc' = "destroy" /\ e' # "XA_OK")
    BY <2>1, <2>2
  <2>5. QED
    BY <2>3, <2>4, SameList DEF ListInv, FetchStage
<1>8. CASE F!SkipLabel
  <2>1. /\ fetch_pc = "name" /\ rrs' = rrs
        /\ UNCHANGED <<len, p, full, fetch_ret, rdlength>>
    BY <1>8 DEF F!SkipLabel, F!InName
  <2>2. /\ fetch_pc' \in {"name", "fixed"} \/ (fetch_pc' = "destroy" /\ e' # "XA_OK")
        /\ i' \in Int
    BY <1>8, ParserAssumption DEF F!SkipLabel, ListInv
  <2>3. QED
    BY <2>1, <2>2, SameList DEF ListInv, FetchStage
<1>9. CASE F!SkipPointer \/ F!BadLabel
  BY <1>9, SameList DEF F!SkipPointer, F!BadLabel, F!InName, F!AfterPointer, ListInv, FetchStage
<1>10. CASE F!SkipQuestion
  BY <1>10, SameList DEF F!SkipQuestion, ListInv, FetchStage
<1>11. CASE F!ReadRecord
  <2>1. /\ fetch_pc = "fixed" /\ rrs' = rrs /\ UNCHANGED <<len, p, full, fetch_ret>>
        /\ i' \in {i, i + 10} /\ rdlength' \in RdLengths \union {rdlength}
    BY <1>11 DEF F!ReadRecord
  <2>2. fetch_pc' = "rdata" \/ (fetch_pc' = "destroy" /\ e' # "XA_OK")
    BY <1>11 DEF F!ReadRecord
  <2>3. i' \in Int /\ rdlength' \in Int
    BY <2>1, ParserAssumption DEF ListInv
  <2>4. QED
    BY <2>1, <2>2, <2>3, SameList DEF ListInv, FetchStage
<1>12. CASE F!AppendRecord
  <2>1. CASE F!Fail("XA_OUT_OF_MEMORY") /\ UNCHANGED <<rrs, i>>
    BY <1>12, <2>1, SameList DEF F!AppendRecord, ListInv, FetchStage
  <2>2. CASE /\ rrs' = Append(rrs, [rdata |-> i, rdlength |-> rdlength])
             /\ i' = F!Past
             /\ F!Go(IF F!MoreAnswers THEN "name" ELSE "success")
    <3>1. [rdata |-> i, rdlength |-> rdlength] \in Listed
      BY DEF ListInv, Listed
    <3>2. /\ rrs' \in Seq(Listed) /\ Len(rrs') = Len(rrs) + 1 /\ Len(rrs) \in Nat
          /\ rrs'[Len(rrs) + 1] = [rdata |-> i, rdlength |-> rdlength]
          /\ \A k \in 1 .. Len(rrs) : rrs'[k] = rrs[k]
      BY <2>2, <3>1 DEF ListInv
    <3>3. /\ i + rdlength <= len /\ UNCHANGED <<len, p, full, fetch_ret, rdlength>>
          /\ fetch_pc = "rdata" /\ fetch_pc' \in {"name", "success"}
      BY <1>12, <2>2 DEF F!AppendRecord, F!Fits
    <3>4. PICK c \in Contents : content' = Append(content, c)
      BY <3>2 DEF Fetch
    <3>5. /\ content' \in Seq(Contents) /\ Len(content') = Len(content) + 1
          /\ Len(content) \in Nat
      BY <3>4 DEF ListInv
    <3>6. i' \in Int
      BY <2>2 DEF F!Past, ListInv
    <3>7. \A k \in 1 .. Len(rrs') : rrs'[k].rdata + rrs'[k].rdlength <= len'
      <4>1. ASSUME NEW k \in 1 .. Len(rrs) + 1
            PROVE  rrs'[k].rdata + rrs'[k].rdlength <= len
        <5>1. CASE k = Len(rrs) + 1
          BY <3>2, <3>3, <5>1
        <5>2. CASE k \in 1 .. Len(rrs)
          BY <3>2, <5>2 DEF ListInv
        <5>3. QED
          BY <3>2, <5>1, <5>2
      <4>2. QED
        BY <3>2, <3>3, <4>1
    <3>8. ListInv'
      BY <3>2, <3>3, <3>5, <3>6, <3>7 DEF ListInv
    <3>9. FetchStage'
      BY <3>2, <3>3, <3>5 DEF FetchStage
    <3>10. QED
      BY <3>8, <3>9
  <2>3. QED
    BY <1>12, <2>1, <2>2 DEF F!AppendRecord
<1>13. CASE F!FreeRecord
  <2>1. /\ fetch_pc = "destroy" /\ rrs # <<>> /\ rrs' = Tail(rrs)
        /\ UNCHANGED <<fetch_pc, len, i, rdlength, p, full, e, fetch_ret>>
    BY <1>13 DEF F!FreeRecord
  <2>2. /\ rrs' \in Seq(Listed) /\ Len(rrs') = Len(rrs) - 1 /\ Len(rrs) \in Nat \ {0}
        /\ \A k \in 1 .. Len(rrs) - 1 : rrs'[k] = rrs[k + 1]
    BY <2>1 DEF ListInv
  <2>3. content' = content
    BY <2>2 DEF Fetch
  <2>4. \A k \in 1 .. Len(rrs') : rrs'[k].rdata + rrs'[k].rdlength <= len'
    BY <2>1, <2>2 DEF ListInv
  <2>5. Len(content) \in Nat
    BY DEF ListInv
  <2>6. QED
    BY <2>1, <2>2, <2>3, <2>4, <2>5 DEF ListInv, FetchStage
<1>14. CASE F!FreeResponse
  BY <1>14, SameList DEF F!FreeResponse, F!FreeMessage, ListInv, FetchStage
<1>15. CASE F!Succeed
  BY <1>15, SameList DEF F!Succeed, ListInv, FetchStage
<1>16. QED
  BY <1>1, <1>2, <1>3, <1>4, <1>5, <1>6, <1>7, <1>8, <1>9, <1>10, <1>11, <1>12,
     <1>13, <1>14, <1>15 DEF Fetch, F!Next

-----------------------------------------------------------------------------
(* The ttl that the k-th record has in the message.                           *)
TtlOf(k) == BigEndian(content[k].ttl)

(* The token against its fragments, and the buffer against the code.          *)
TokenInv ==
  /\ rr \in Nat \ {0}
  /\ t.ttl \in 0 .. INT_RANGE - 1
  /\ t.parts \in Seq(1 .. Len(content))
  /\ \A k \in 1 .. Len(t.parts) : t.ttl <= TtlOf(t.parts[k])
  /\ t.parts = <<>> => t.len = 0 /\ t.ttl = INT_RANGE - 1
  /\ t.parts # <<>> => \E k \in 1 .. Len(t.parts) : t.ttl = TtlOf(t.parts[k])
  /\ asm_ret = "XA_OK" => t.parts # <<>>

BufferStage ==
  /\ asm_pc # "done" => buf \in {"none", "local"} /\ asm_ret = "none"
  /\ buf = "caller" => asm_ret = "XA_OK"
  /\ buf = "local"  => asm_pc # "done" \/ asm_ret = "XA_DNS_TOKEN_NOT_PRESENT"

(* What the assembler sees of the list.                                       *)
LEMMA RecordsOfList ==
  ASSUME ListInv, Len(rrs) = Len(content)
  PROVE  /\ Len(Records) = Len(content)
         /\ \A k \in 1 .. Len(content) : /\ Records[k].ttl = TtlOf(k)
                                         /\ TtlOf(k) \in 0 .. INT_RANGE - 1
<1>1. DOMAIN rrs = 1 .. Len(content) /\ Len(content) \in Nat
  BY DEF ListInv
<1>2. Len(Records) = Len(content)
  BY <1>1 DEF Records
<1>3. ASSUME NEW k \in 1 .. Len(content)
      PROVE  Records[k].ttl = TtlOf(k) /\ TtlOf(k) \in 0 .. INT_RANGE - 1
  <2>1. content[k] \in Contents
    BY DEF ListInv
  <2>2. content[k].ttl \in [1 .. 4 -> 0 .. OCTET - 1]
    BY <2>1, ContentsAssumption
  <2>3. Records[k] = Record(k)
    BY <1>1 DEF Records
  <2>4. QED
    BY <2>2, <2>3, GetU32IsBigEndian DEF Record, TtlOf
<1>4. QED
  BY <1>2, <1>3

(* An appended fragment whose ttl is smaller gives its own to the token.      *)
LEMMA AppendKeepsToken ==
  ASSUME ListInv, TokenInv, Len(rrs) = Len(content), UNCHANGED content, A!AppendRecord
  PROVE  TokenInv'
<1> DEFINE n == Len(t.parts)
           r == Records[rr]
<1>1. rr \in 1 .. Len(content) /\ Len(content) \in Nat
  BY RecordsOfList DEF A!AppendRecord, A!InScan, TokenInv, ListInv
<1>2. r.ttl = TtlOf(rr) /\ TtlOf(rr) \in 0 .. INT_RANGE - 1
  BY <1>1, RecordsOfList
<1>3. /\ t'.ttl = IF TtlOf(rr) < t.ttl THEN TtlOf(rr) ELSE t.ttl
      /\ t'.parts = Append(t.parts, rr)
      /\ rr' = rr + 1 /\ asm_ret' = asm_ret
  BY <1>2 DEF A!AppendRecord, A!MinTtl
<1>4. /\ t.ttl \in 0 .. INT_RANGE - 1 /\ INT_RANGE \in Nat
      /\ t.parts \in Seq(1 .. Len(content)) /\ n \in Nat
  BY RangePositive DEF TokenInv
<1>5. /\ t'.parts \in Seq(1 .. Len(content)) /\ t'.parts # <<>> /\ Len(t'.parts) = n + 1
      /\ t'.parts[n + 1] = rr
      /\ \A k \in 1 .. n : t'.parts[k] = t.parts[k]
  BY <1>1, <1>3, <1>4
<1>6. \A k : TtlOf(k)' = TtlOf(k)
  BY DEF TtlOf
<1>7. \A k \in 1 .. n : TtlOf(t.parts[k]) \in Int
  <2>1. \A k \in 1 .. n : t.parts[k] \in 1 .. Len(content)
    BY <1>4
  <2>2. QED
    BY <2>1, RecordsOfList, <1>4
<1>8. t'.ttl \in 0 .. INT_RANGE - 1 /\ t'.ttl <= TtlOf(rr) /\ t'.ttl <= t.ttl
  BY <1>2, <1>3, <1>4
<1>9. \A k \in 1 .. n + 1 : t'.ttl <= TtlOf(t'.parts[k])
  <2>1. ASSUME NEW k \in 1 .. n
        PROVE  t'.ttl <= TtlOf(t'.parts[k])
    <3>1. t.ttl <= TtlOf(t.parts[k])
      BY DEF TokenInv
    <3>2. t'.parts[k] = t.parts[k] /\ TtlOf(t.parts[k]) \in Int
      BY <1>5, <1>7
    <3>3. t.ttl \in Int /\ t'.ttl \in Int
      BY <1>4, <1>8
    <3>4. QED
      BY <1>8, <3>1, <3>2, <3>3
  <2>2. t'.ttl <= TtlOf(t'.parts[n + 1])
    BY <1>5, <1>8
  <2>3. QED
    BY <1>4, <2>1, <2>2
<1>10. \E k \in 1 .. n + 1 : t'.ttl = TtlOf(t'.parts[k])
  <2>1. CASE t'.ttl = TtlOf(rr)
    BY <1>4, <1>5, <2>1
  <2>2. CASE t'.ttl # TtlOf(rr)
    <3>1. t'.ttl = t.ttl /\ t.ttl <= TtlOf(rr) /\ t.ttl # TtlOf(rr)
      BY <1>2, <1>3, <1>4, <2>2
    <3>2. t.parts # <<>>
      BY <1>2, <1>4, <3>1 DEF TokenInv
    <3>3. PICK k \in 1 .. n : t.ttl = TtlOf(t.parts[k])
      BY <3>2 DEF TokenInv
    <3>4. k \in 1 .. n + 1 /\ t'.ttl = TtlOf(t'.parts[k])
      BY <1>4, <1>5, <3>1, <3>3
    <3>5. QED
      BY <3>4
  <2>3. QED
    BY <2>1, <2>2
<1>11. rr' \in Nat \ {0}
  BY <1>1, <1>3
<1>12. QED
  BY <1>5, <1>6, <1>8, <1>9, <1>10, <1>11 DEF TokenInv

LEMMA AssembleKeepsToken ==
  ASSUME ListInv, TokenInv, BufferStage, Len(rrs) = Len(content), Assemble
  PROVE  TokenInv' /\ BufferStage'
<1> USE DEF A!Return, A!Error
<1>0. content' = content /\ A!Next
  BY DEF Assemble
<1>1. CASE A!RejectArguments
  BY <1>0, <1>1 DEF A!RejectArguments, Assemble
<1>2. CASE A!AcceptArguments
  BY <1>0, <1>2 DEF A!AcceptArguments, TokenInv, BufferStage, TtlOf
<1>3. CASE A!StartScan
  BY <1>0, <1>3 DEF A!StartScan, A!FirstRecord, TokenInv, BufferStage, TtlOf
<1>4. CASE A!LeaveLoop
  BY <1>0, <1>4 DEF A!LeaveLoop, TokenInv, BufferStage, TtlOf
<1>5. CASE A!SkipRecord
  BY <1>0, <1>5 DEF A!SkipRecord, A!InScan, TokenInv, BufferStage, TtlOf
<1>6. CASE A!AppendRecord
  <2>1. BufferStage'
    BY <1>6 DEF A!AppendRecord, A!InScan, BufferStage
  <2>2. QED
    BY <1>0, <1>6, <2>1, AppendKeepsToken
<1>7. CASE A!AppendFails
  BY <1>0, <1>7 DEF A!AppendFails, A!InScan, TokenInv, BufferStage, TtlOf
<1>8. CASE A!EndScan
  BY <1>0, <1>8 DEF A!EndScan, TokenInv, BufferStage, TtlOf
<1>9. CASE A!NotPresent
  BY <1>0, <1>9 DEF A!NotPresent, TokenInv, BufferStage, TtlOf
<1>10. CASE A!HandOver
  BY <1>0, <1>10 DEF A!HandOver, A!Empty, TokenInv, BufferStage, TtlOf
<1>11. CASE A!HandOverFails
  BY <1>0, <1>11 DEF A!HandOverFails, TokenInv, BufferStage, TtlOf
<1>12. QED
  BY <1>0, <1>1, <1>2, <1>3, <1>4, <1>5, <1>6, <1>7, <1>8, <1>9, <1>10, <1>11
     DEF A!Next

-----------------------------------------------------------------------------
(* main itself: what both functions have left at each of its places.          *)
MainStage ==
  /\ at \in {"args", "key"} => fetch_pc = "enter"
  /\ at \in {"args", "key", "fetch"} =>
        /\ FetchStage
        /\ asm_pc = "enter" /\ asm_ret = "none" /\ buf = "none" /\ t.parts = <<>>
  /\ Reading => p = "caller" /\ full = "live" /\ Len(rrs) = Len(content)
  /\ at \in {"decode", "print"} => asm_pc = "done" /\ asm_ret = "XA_OK"
  /\ jwt = "held" => at = "print"
  /\ ReleasedAtExit

IInv == TypeOK /\ ListInv /\ TokenInv /\ BufferStage /\ MainStage

LEMMA InitHolds == Init => IInv
<1> SUFFICES ASSUME Init PROVE IInv
  OBVIOUS
<1>1. /\ rrs = <<>> /\ content = <<>> /\ i = 0 /\ rdlength = 0 /\ p = "none" /\ full = "none"
      /\ fetch_pc = "enter" /\ fetch_ret = "none"
  BY DEF Init, F!Init
<1>2. /\ asm_pc = "enter" /\ rr = 1 /\ buf = "none" /\ token = "untouched" /\ asm_ret = "none"
      /\ t = [ttl |-> INT_RANGE - 1, len |-> 0, parts |-> <<>>]
  BY DEF Init, A!Init
<1>3. INT_RANGE - 1 \in 0 .. INT_RANGE - 1
  BY RangePositive
<1>4. ListInv
  BY <1>1 DEF ListInv
<1>5. TokenInv
  BY <1>1, <1>2, <1>3 DEF TokenInv
<1>6. BufferStage
  BY <1>2 DEF BufferStage
<1>7. MainStage
  BY <1>1, <1>2 DEF Init, MainStage, FetchStage, Reading, ReleasedAtExit
<1>8. TypeOK
  BY <1>1, <1>2, <1>3 DEF Init, TypeOK
<1>9. QED
  BY <1>4, <1>5, <1>6, <1>7, <1>8 DEF IInv

(* The two calls. *)
LEMMA FetchKeeps == IInv /\ Fetch => IInv'
<1> SUFFICES ASSUME IInv, Fetch PROVE IInv'
  BY DEF IInv
<1>1. at = "fetch" /\ F!Next /\ UNCHANGED <<client, scanning, assembled>>
  BY DEF Fetch
<1>2. ListInv /\ FetchStage /\ t.parts = <<>>
  BY <1>1 DEF IInv, MainStage
<1>3. ListInv' /\ FetchStage'
  BY <1>2, FetchKeepsList
<1>4. t' = t /\ rr' = rr /\ asm_ret' = asm_ret /\ asm_pc' = asm_pc /\ buf' = buf
      /\ token' = token /\ at' = at /\ jwt' = jwt /\ fqdn' = fqdn /\ pub_key' = pub_key
      /\ code' = code
  BY <1>1 DEF client, scanning, assembled
<1>5. TokenInv' /\ BufferStage'
  <2>1. t'.parts = <<>> /\ Len(t'.parts) = 0
    BY <1>2, <1>4
  <2>2. t'.parts \in Seq(1 .. Len(content'))
    BY <2>1
  <2>3. \A k \in 1 .. Len(t'.parts) : FALSE
    BY <2>1
  <2>4. TokenInv'
    BY <1>4, <2>1, <2>2, <2>3 DEF IInv, TokenInv
  <2>5. BufferStage'
    BY <1>4 DEF IInv, BufferStage
  <2>6. QED
    BY <2>4, <2>5
<1>6. MainStage'
  BY <1>1, <1>3, <1>4 DEF IInv, MainStage, Reading, ReleasedAtExit
<1>7. p' \in {"none", "local", "caller", "freed"} /\ full' \in {"none", "live", "freed"}
  BY <1>1 DEF IInv, TypeOK, F!Next, F!RejectArguments, F!InitResolver, F!Query, F!Allocate,
       F!Copy, F!HeaderTooShort, F!ReadHeader, F!NameTooShort, F!SkipLabel, F!SkipPointer,
       F!BadLabel, F!SkipQuestion, F!ReadRecord, F!DataTooShort, F!AppendRecord, F!FreeRecord,
       F!FreeResponse, F!FreeMessage, F!Succeed, F!Kept
<1>8. TypeOK'
  <2>1. content' \in Seq(Contents) /\ Len(rrs') <= Len(content')
    BY <1>3 DEF ListInv
  <2>2. t'.ttl \in 0 .. INT_RANGE - 1 /\ t'.parts \in Seq(DOMAIN content')
    <3>1. t'.parts = <<>> /\ t'.ttl = t.ttl
      BY <1>2, <1>4
    <3>2. QED
      BY <3>1 DEF IInv, TypeOK
  <2>3. QED
    BY <1>4, <1>7, <2>1, <2>2 DEF IInv, TypeOK
<1>9. QED
  BY <1>3, <1>5, <1>6, <1>8 DEF IInv

LEMMA AssembleKeeps == IInv /\ Assemble => IInv'
<1> SUFFICES ASSUME IInv, Assemble PROVE IInv'
  BY DEF IInv
<1>1. at = "assemble" /\ A!Next /\ UNCHANGED <<client, content, fetching, response>>
  BY DEF Assemble
<1>2. /\ at' = at /\ jwt' = jwt /\ fqdn' = fqdn /\ pub_key' = pub_key /\ code' = code
      /\ content' = content /\ rrs' = rrs /\ p' = p /\ full' = full /\ len' = len
      /\ i' = i /\ rdlength' = rdlength
  BY <1>1 DEF client, fetching, response
<1>3. Len(rrs) = Len(content)
  BY <1>1 DEF IInv, MainStage, Reading
<1>4. TokenInv' /\ BufferStage'
  BY <1>3, AssembleKeepsToken DEF IInv
<1>5. ListInv'
  BY <1>2 DEF IInv, ListInv
<1>6. MainStage'
  BY <1>1, <1>2 DEF IInv, MainStage, Reading, ReleasedAtExit
<1>7. buf' \in {"none", "local", "freed", "caller"}
      /\ token' \in {"untouched", "null", "set", "freed"}
  BY <1>1 DEF IInv, TypeOK, A!Next, A!RejectArguments, A!AcceptArguments, A!StartScan,
       A!LeaveLoop, A!SkipRecord, A!AppendRecord, A!AppendFails, A!EndScan, A!NotPresent,
       A!HandOver, A!HandOverFails, A!Error, A!Return
<1>8. TypeOK'
  <2>1. DOMAIN content' = 1 .. Len(content')
    BY <1>5 DEF ListInv
  <2>2. t'.ttl \in 0 .. INT_RANGE - 1 /\ t'.parts \in Seq(DOMAIN content')
    BY <1>4, <2>1 DEF TokenInv
  <2>3. QED
    BY <1>2, <1>7, <2>2 DEF IInv, TypeOK
<1>9. QED
  BY <1>4, <1>5, <1>6, <1>8 DEF IInv

(* What main does by itself: the list, the token and the buffer are kept or   *)
(* released.                                                                  *)
LEMMA ClientKeepsParts ==
  ASSUME IInv, UNCHANGED <<content, fetching, scanning>>,
         UNCHANGED response \/ DestroyResponse,
         UNCHANGED assembled \/ (buf' = "freed" /\ token' = "freed" /\ asm_pc = "done")
  PROVE  /\ ListInv' /\ TokenInv' /\ BufferStage'
         /\ p' \in {"none", "local", "caller", "freed"}
         /\ full' \in {"none", "live", "freed"}
         /\ buf' \in {"none", "local", "freed", "caller"}
         /\ token' \in {"untouched", "null", "set", "freed"}
         /\ Len(rrs') <= Len(content')
         /\ t'.ttl \in 0 .. INT_RANGE - 1 /\ t'.parts \in Seq(DOMAIN content')
         /\ content' \in Seq(Contents)
<1>1. /\ content' = content /\ i' = i /\ rdlength' = rdlength /\ len' = len
      /\ t' = t /\ rr' = rr /\ asm_pc' = asm_pc /\ asm_ret' = asm_ret
  BY DEF fetching, scanning
<1>2. \/ rrs' = rrs /\ p' = p /\ full' = full
      \/ rrs' = <<>> /\ p' = "freed" /\ full' = "freed"
  BY DEF response, DestroyResponse
<1>3. \/ buf' = buf /\ token' = token
      \/ buf' = "freed" /\ token' = "freed" /\ asm_pc = "done"
  BY DEF assembled
<1>4. ListInv'
  <2>1. CASE rrs' = rrs
    BY <1>1, <2>1 DEF IInv, ListInv
  <2>2. CASE rrs' = <<>>
    <3>1. rrs' \in Seq(Listed) /\ Len(rrs') = 0
      BY <2>2
    <3>2. QED
      BY <1>1, <3>1 DEF IInv, ListInv
  <2>3. QED
    BY <1>2, <2>1, <2>2
<1>5. TokenInv'
  BY <1>1 DEF IInv, TokenInv, TtlOf
<1>6. BufferStage'
  BY <1>1, <1>3 DEF IInv, BufferStage
<1>7. Len(rrs') <= Len(content')
  BY <1>4 DEF ListInv
<1>8. QED
  BY <1>1, <1>2, <1>3, <1>4, <1>5, <1>6, <1>7 DEF IInv, TypeOK

LEMMA ClientKeeps ==
  ASSUME IInv,
         PrintUsage \/ NoNumber \/ ParseOptions \/ ReadKey \/ AfterFetch \/ AfterAssemble
           \/ Decode \/ DecodeFails \/ Finish
  PROVE  IInv'
<1> USE DEF Exit
<1>1. /\ UNCHANGED <<content, fetching, scanning>>
      /\ UNCHANGED response \/ DestroyResponse
      /\ UNCHANGED assembled \/ (buf' = "freed" /\ token' = "freed" /\ asm_pc = "done")
  BY DEF PrintUsage, NoNumber, ParseOptions, ReadKey, AfterFetch, AfterAssemble, Decode,
         DecodeFails, Finish, IInv, MainStage
<1>2. /\ ListInv' /\ TokenInv' /\ BufferStage'
      /\ p' \in {"none", "local", "caller", "freed"}
      /\ full' \in {"none", "live", "freed"}
      /\ buf' \in {"none", "local", "freed", "caller"}
      /\ token' \in {"untouched", "null", "set", "freed"}
      /\ Len(rrs') <= Len(content')
      /\ t'.ttl \in 0 .. INT_RANGE - 1 /\ t'.parts \in Seq(DOMAIN content')
      /\ content' \in Seq(Contents)
  BY <1>1, ClientKeepsParts
<1>3. TypeOK'
  <2>1. /\ at' \in {"args", "key", "fetch", "assemble", "decode", "print", "exit"}
        /\ fqdn' \in {"NULL", "given"}
        /\ pub_key' \in {"none", "held"}
        /\ jwt' \in {"none", "held", "freed"}
        /\ code' \in {"none", "0", "-1", "crash"}
    BY DEF IInv, TypeOK, PrintUsage, NoNumber, ParseOptions, ReadKey, AfterFetch,
           AfterAssemble, Decode, DecodeFails, Finish
  <2>2. QED
    BY <1>2, <2>1 DEF TypeOK
<1>4. MainStage'
  <2>1. /\ fetch_pc' = fetch_pc /\ fetch_ret' = fetch_ret /\ e' = e /\ content' = content
        /\ asm_pc' = asm_pc /\ asm_ret' = asm_ret /\ t' = t
    BY <1>1 DEF fetching, scanning
  <2> USE DEF IInv, MainStage, Reading, ReleasedAtExit, response, assembled
  <2>2. CASE PrintUsage \/ NoNumber
    BY <2>1, <2>2 DEF PrintUsage, NoNumber, FetchStage
  <2>3. CASE ParseOptions \/ ReadKey
    BY <2>1, <2>3 DEF ParseOptions, ReadKey, FetchStage
  <2>4. CASE AfterFetch
    BY <2>1, <2>4 DEF AfterFetch, Fetched, FetchStage
  <2>5. CASE AfterAssemble
    BY <2>1, <2>5 DEF AfterAssemble, DestroyResponse, BufferStage
  <2>6. CASE Decode
    BY <2>1, <2>6 DEF Decode
  <2>7. CASE DecodeFails
    BY <2>1, <2>7 DEF DecodeFails, DestroyResponse, BufferStage
  <2>8. CASE Finish
    BY <2>1, <2>8 DEF Finish, DestroyResponse
  <2>9. QED
    BY <2>2, <2>3, <2>4, <2>5, <2>6, <2>7, <2>8
<1>5. QED
  BY <1>2, <1>3, <1>4 DEF IInv

(* IInv primed speaks of the variables only. *)
LEMMA StutterKeeps == IInv /\ UNCHANGED vars => IInv'
BY DEF vars, client, fetching, response, scanning, assembled, IInv, TypeOK, ListInv,
       TokenInv, TtlOf, BufferStage, MainStage, FetchStage, Reading, ReleasedAtExit

LEMMA Inductive == IInv /\ [Next]_vars => IInv'
BY FetchKeeps, AssembleKeeps, ClientKeeps, StutterKeeps DEF Next

LEMMA Invariant == Spec => []IInv
BY InitHolds, Inductive, PTL DEF Spec

-----------------------------------------------------------------------------
(* The variables keep their types, and every time to live that get_u32 makes  *)
(* is an unsigned number.                                                     *)
THEOREM TypeCorrect == Spec => []TypeOK
<1>1. IInv => TypeOK
  BY DEF IInv
<1>2. QED
  BY <1>1, Invariant, PTL

(* The assembler and the printer only follow pointers into the living message.*)
THEOREM MessageIsLive == Spec => []ReadsLiveMessage
<1>1. IInv => ReadsLiveMessage
  <2> SUFFICES ASSUME IInv PROVE ReadsLiveMessage
    OBVIOUS
  <2>1. DOMAIN rrs = 1 .. Len(rrs)
    BY DEF IInv, ListInv
  <2>2. QED
    BY <2>1 DEF IInv, MainStage, ListInv, ReadsLiveMessage
<1>2. QED
  BY <1>1, Invariant, PTL

(* The token lives as long as its fragment that expires first, whatever the   *)
(* sign get_u32 meets on the way.                                             *)
THEOREM TtlIsLeast == Spec => []TtlIsTheSoonest
<1>1. IInv => TtlIsTheSoonest
  <2> SUFFICES ASSUME IInv, asm_ret = "XA_OK" PROVE TtlIsTheSoonest
    BY DEF TtlIsTheSoonest
  <2>1. DOMAIN t.parts = 1 .. Len(t.parts)
    BY DEF IInv, TokenInv
  <2>2. /\ \E k \in DOMAIN t.parts : t.ttl = TtlOf(t.parts[k])
        /\ \A k \in DOMAIN t.parts : t.ttl <= TtlOf(t.parts[k])
    BY <2>1 DEF IInv, TokenInv
  <2>3. QED
    BY <2>2 DEF TtlIsTheSoonest, TtlOf
<1>2. QED
  BY <1>1, Invariant, PTL

(* Every way out releases the response and the jwt, and the token but in the  *)
(* two cases named.                                                           *)
THEOREM AllIsReleased == Spec => []ReleasedAtExit
<1>1. IInv => ReleasedAtExit
  BY DEF IInv, MainStage
<1>2. QED
  BY <1>1, Invariant, PTL
-----------------------------------------------------------------------------
(* The length of the token.  A nonempty set of numbers has a least one.       *)
LEMMA LeastNumber ==
  ASSUME NEW T \in SUBSET Nat, T # {}
  PROVE  \E m \in T : \A n \in T : m <= n
<1> DEFINE R == OpToRel(<, Nat)
<1>1. IsWellFoundedOn(R, Nat)
  BY NatLessThanWellFounded
<1>2. PICK m \in T : \A n \in T : <<n, m>> \notin R
  <2> HIDE DEF R
  <2>1. QED
    BY <1>1, WFMin
<1>3. \A n \in T : ~(n < m)
  <2>1. ASSUME NEW n \in T, n < m PROVE FALSE
    <3>1. <<n, m>> \in R
      BY <2>1 DEF OpToRel
    <3>2. QED
      BY <3>1, <1>2
  <2>2. QED
    BY <2>1
<1> HIDE DEF R
<1>4. QED
  BY <1>3

(* Where the k-th record ends; the first one stands behind the header and the *)
(* question.  Between two records' data there are the name and the header of  *)
(* the second one.                                                            *)
End(k) == IF k = 0 THEN 17 ELSE rrs[k].rdata + rrs[k].rdlength

Apart == \A k \in 1 .. Len(rrs) : /\ rrs[k].rdlength \in Nat
                                  /\ rrs[k].rdata >= 11 + End(k - 1)

(* How far the parser's index is behind the last record of the list.          *)
Behind(n) == i >= n + End(Len(rrs))

IndexInv ==
  /\ fetch_pc \in {"enter", "query", "allocate", "copy", "header"} =>
        section = "question" /\ rrs = <<>>
  /\ fetch_pc = "name" /\ section = "question" => i >= 12 /\ rrs = <<>>
  /\ fetch_pc = "fixed" /\ section = "question" => i >= 13 /\ rrs = <<>>
  /\ fetch_pc = "name" /\ section = "answer" => Behind(0)
  /\ fetch_pc = "fixed" /\ section = "answer" => Behind(1)
  /\ fetch_pc = "rdata" => Behind(11) /\ section = "answer" /\ rdlength \in Nat

LEMMA EndIsNumber ==
  ASSUME ListInv
  PROVE  Len(rrs) \in Nat /\ \A k \in 0 .. Len(rrs) : End(k) \in Int
<1>1. rrs \in Seq(Listed) /\ Len(rrs) \in Nat
  BY DEF ListInv
<1>2. \A k \in 1 .. Len(rrs) : rrs[k] \in Listed
  BY <1>1
<1>3. QED
  BY <1>1, <1>2 DEF End, Listed

(* The parser keeps its records apart.                                        *)
LEMMA FetchKeepsApart ==
  ASSUME ListInv, FetchStage, Apart, IndexInv, Fetch
  PROVE  Apart' /\ IndexInv'
<1> USE DEF F!parser, F!Return, F!Fail, F!Go, F!Kept
<1>a. PICK N : N = Len(rrs)
  OBVIOUS
<1>b. PICK last : last = End(N)
  OBVIOUS
<1>1. /\ last \in Int /\ i \in Int /\ rdlength \in Int /\ rrs \in Seq(Listed) /\ N \in Nat
      /\ rrs = <<>> => last = 17
  <2>1. N \in 0 .. N /\ N \in Nat
    BY <1>a, EndIsNumber
  <2>2. QED
    BY <1>a, <1>b, <2>1, EndIsNumber DEF ListInv, End
<1>2. ASSUME rrs' = rrs
      PROVE  Apart' /\ \A n : Behind(n)' <=> i' >= n + last
  BY <1>a, <1>b, <1>2 DEF Apart, End, Behind
<1>3. \A n : Behind(n) <=> i >= n + last
  BY <1>a, <1>b DEF Behind
<1>4. CASE F!RejectArguments \/ F!InitResolver \/ F!Query \/ F!Allocate \/ F!Copy
  <2>1. rrs' = rrs /\ rrs = <<>> /\ section = "question" /\ section' = section
        /\ fetch_pc' \in {"done", "query", "allocate", "copy", "header"}
    BY <1>4 DEF F!RejectArguments, F!InitResolver, F!Query, F!Allocate, F!Copy, IndexInv
  <2>2. QED
    BY <1>2, <2>1 DEF IndexInv
<1>5. CASE \/ F!HeaderTooShort \/ F!NameTooShort \/ F!DataTooShort \/ F!BadLabel
           \/ F!FreeResponse \/ F!Succeed
  <2>1. rrs' = rrs /\ fetch_pc' \in {"destroy", "done"}
    BY <1>5 DEF F!HeaderTooShort, F!NameTooShort, F!DataTooShort, F!BadLabel, F!InName,
                F!FreeResponse, F!Succeed
  <2>2. QED
    BY <1>2, <2>1 DEF IndexInv
<1>6. CASE F!ReadHeader
  <2>1. /\ rrs' = rrs /\ rrs = <<>> /\ section = "question" /\ section' = section
        /\ (fetch_pc' = "name" /\ i' = 12) \/ fetch_pc' = "destroy"
    BY <1>6 DEF F!ReadHeader, F!HEADER, IndexInv
  <2>2. QED
    BY <1>2, <2>1 DEF IndexInv
<1>7. CASE F!SkipLabel \/ F!SkipPointer
  <2>1. /\ fetch_pc = "name" /\ rrs' = rrs /\ section' = section
        /\ \/ fetch_pc' = "destroy"
           \/ fetch_pc' \in {"name", "fixed"} /\ i' \in Int /\ i' >= i + 1
    <3>1. CASE F!SkipLabel
      <4>1. PICK b \in Octets :
              IF F!Fits(1 + b)
                THEN i' = i + 1 + b /\ F!Go(IF b = 0 THEN "fixed" ELSE "name")
                ELSE F!Fail("XA_DNS_RECORD_TOO_SHORT") /\ UNCHANGED i
        BY <3>1 DEF F!SkipLabel
      <4>2. b \in Nat
        BY ParserAssumption
      <4>3. QED
        BY <1>1, <3>1, <4>1, <4>2 DEF F!SkipLabel, F!InName
    <3>2. CASE F!SkipPointer
      BY <1>1, <3>2 DEF F!SkipPointer, F!AfterPointer, F!InName
    <3>3. QED
      BY <1>7, <3>1, <3>2
  <2>2. QED
    BY <1>1, <1>2, <1>3, <2>1 DEF IndexInv
<1>8. CASE F!SkipQuestion
  <2>1. /\ fetch_pc = "fixed" /\ section = "question" /\ rrs' = rrs
        /\ \/ fetch_pc' = "destroy"
           \/ fetch_pc' = "name" /\ section' = "answer" /\ i' = i + 4
    BY <1>8 DEF F!SkipQuestion
  <2>2. i >= 13 /\ last = 17
    BY <1>1, <2>1 DEF IndexInv
  <2>3. QED
    BY <1>1, <1>2, <2>1, <2>2 DEF IndexInv
<1>9. CASE F!ReadRecord
  <2>1. /\ fetch_pc = "fixed" /\ section = "answer" /\ section' = section /\ rrs' = rrs
        /\ \/ fetch_pc' = "destroy"
           \/ fetch_pc' = "rdata" /\ i' = i + 10 /\ rdlength' \in Nat
    BY <1>9, ParserAssumption DEF F!ReadRecord
  <2>2. QED
    BY <1>1, <1>2, <1>3, <2>1 DEF IndexInv
<1>10. CASE F!AppendRecord
  <2>1. CASE F!Fail("XA_OUT_OF_MEMORY") /\ UNCHANGED <<rrs, i>>
    BY <1>2, <2>1 DEF IndexInv
  <2>2. CASE /\ rrs' = Append(rrs, [rdata |-> i, rdlength |-> rdlength])
             /\ i' = F!Past
             /\ F!Go(IF F!MoreAnswers THEN "name" ELSE "success")
    <3>1. /\ fetch_pc = "rdata" /\ section = "answer" /\ section' = section
          /\ fetch_pc' \in {"name", "success"} /\ i' = i + rdlength
          /\ rdlength \in Nat /\ i >= 11 + last
      BY <1>3, <1>10, <2>2 DEF F!AppendRecord, F!Past, IndexInv
    <3>2. /\ Len(rrs') = N + 1
          /\ rrs'[N + 1] = [rdata |-> i, rdlength |-> rdlength]
          /\ \A k \in 1 .. N : rrs'[k] = rrs[k]
      BY <1>a, <1>1, <2>2
    <3>3. /\ \A k \in 0 .. N : End(k)' = End(k)
          /\ \A k \in Nat : k = N + 1 => End(k)' = i'
      BY <1>1, <3>1, <3>2 DEF End
    <3>4. ASSUME NEW k \in 1 .. N + 1
          PROVE  rrs'[k].rdlength \in Nat /\ rrs'[k].rdata >= 11 + End(k - 1)'
      <4>1. CASE k = N + 1
        <5>1. k - 1 = N /\ N \in 0 .. N
          BY <1>1, <4>1
        <5>2. End(k - 1)' = last
          BY <1>b, <3>3, <5>1
        <5>3. QED
          BY <3>1, <3>2, <4>1, <5>2
      <4>2. CASE k \in 1 .. N
        <5>1. k - 1 \in 0 .. N
          BY <1>1, <4>2
        <5>2. QED
          BY <1>a, <3>2, <3>3, <4>2, <5>1 DEF Apart
      <4>3. QED
        BY <1>1, <4>1, <4>2
    <3>5. Apart'
      BY <3>2, <3>4 DEF Apart
    <3>6. Behind(0)'
      <4>1. PICK M \in Nat : M = N + 1
        BY <1>1
      <4>2. End(Len(rrs))' = i'
        BY <3>2, <3>3, <4>1 DEF End
      <4>3. QED
        BY <1>1, <3>1, <4>2 DEF Behind
    <3>7. QED
      BY <3>1, <3>5, <3>6 DEF IndexInv
  <2>3. QED
    BY <1>10, <2>1, <2>2 DEF F!AppendRecord
<1>11. CASE F!FreeRecord
  <2>1. /\ fetch_pc' = "destroy" /\ rrs # <<>> /\ rrs' = Tail(rrs)
    BY <1>11 DEF F!FreeRecord
  <2>2. /\ Len(rrs') = N - 1 /\ N \in Nat \ {0}
        /\ \A k \in 1 .. N - 1 : rrs'[k] = rrs[k + 1]
    BY <1>a, <1>1, <2>1
  <2>3. \A k \in 0 .. N : End(k) \in Int
    BY <1>a, EndIsNumber
  <2>4. \A k \in 1 .. N - 1 : End(k)' = End(k + 1)
    BY <2>2 DEF End
  <2>5. End(1) >= 28
    <3>1. rrs[1].rdlength \in Nat /\ rrs[1].rdata >= 11 + End(0)
      BY <1>a, <2>2 DEF Apart
    <3>2. rrs[1] \in Listed
      BY <1>a, <1>1, <2>2
    <3>3. QED
      BY <3>1, <3>2 DEF End, Listed
  <2>6. ASSUME NEW k \in 1 .. N - 1
        PROVE  rrs'[k].rdlength \in Nat /\ rrs'[k].rdata >= 11 + End(k - 1)'
    <3>1. /\ k + 1 \in 1 .. N /\ (k + 1) - 1 = k /\ rrs[k + 1] \in Listed
          /\ k \in 0 .. N
      BY <1>a, <1>1, <2>2
    <3>2. /\ rrs[k + 1].rdlength \in Nat /\ rrs[k + 1].rdata >= 11 + End(k)
          /\ rrs[k + 1].rdata \in Int
      BY <1>a, <3>1 DEF Apart, Listed
    <3>3. CASE k = 1
      <4>1. End(k - 1)' = 17
        BY <3>3 DEF End
      <4>2. QED
        BY <2>2, <2>3, <2>5, <3>1, <3>2, <3>3, <4>1
    <3>4. CASE k # 1
      <4>1. k - 1 \in 1 .. N - 1 /\ (k - 1) + 1 = k
        BY <2>2, <3>4
      <4>2. End(k - 1)' = End(k)
        BY <2>4, <4>1
      <4>3. QED
        BY <2>2, <3>2, <4>2
    <3>5. QED
      BY <3>3, <3>4
  <2>7. Apart'
    BY <2>2, <2>6 DEF Apart
  <2>8. QED
    BY <2>1, <2>7 DEF IndexInv
<1>12. QED
  BY <1>4, <1>5, <1>6, <1>7, <1>8, <1>9, <1>10, <1>11 DEF Fetch, F!Next

(* The room a record takes up if it is part of the chain: its name and header *)
(* of at least eleven octets, and its data.  tally adds it up along the list. *)
InChain(m) == \E k \in 1 .. Len(t.parts) : t.parts[k] = m
Used(m) == IF InChain(m) THEN 11 + rrs[m].rdlength ELSE 0
Tally(tally) ==
  /\ tally[0] = 0
  /\ \A m \in 1 .. Len(rrs) : tally[m] = tally[m - 1] + Used(m)
  /\ tally[Len(rrs)] = 15 * Len(t.parts) + t.len

(* The parts are fragments with their numbers, so no record is two of them.   *)
ChainInv ==
  /\ fragment = Len(t.parts)
  /\ \A k \in 1 .. Len(t.parts) : A!Carries(Records[t.parts[k]], k)
  /\ t.len \in Int
  /\ \E tally \in [0 .. Len(rrs) -> Int] : Tally(tally)

FitInv ==
  /\ len \in Int
  /\ Apart
  /\ at \in {"args", "key", "fetch"} => IndexInv /\ fragment = 0
  /\ Reading => ChainInv
  /\ at = "exit" => TokenFitsMessage

LEMMA FirstElement ==
  ASSUME NEW S, NEW s \in Seq(S), s # <<>>
  PROVE  s[1] \in S /\ Len(s) \in Nat
OBVIOUS

(* A record more, used or not, keeps what is taken up below its end. *)
LEMMA OneRecordMore ==
  ASSUME NEW taken \in Int, NEW end \in Int, NEW data \in Int, NEW length \in Nat, NEW used,
         used = 11 + length \/ used = 0,
         17 + taken <= end, data >= 11 + end
  PROVE  17 + (taken + used) <= data + length
OBVIOUS

(* Up to the end of each record the chain takes up less than the message has. *)
LEMMA TallyFits ==
  ASSUME ListInv, TokenInv, Apart, ChainInv, len \in Int, Len(rrs) = Len(content)
  PROVE  TokenFitsMessage
<1>a. PICK N : N = Len(rrs)
  OBVIOUS
<1>1. /\ N \in Nat /\ \A k \in 0 .. N : End(k) \in Int
  BY <1>a, EndIsNumber
<1>2. PICK tally \in [0 .. N -> Int] : Tally(tally)
  BY <1>a DEF ChainInv
<1>c. ASSUME NEW m \in 1 .. N, 17 + tally[m - 1] <= End(m - 1)
       PROVE  17 + tally[m] <= End(m)
  <2>1. tally[m] = tally[m - 1] + Used(m)
    BY <1>a, <1>2 DEF Tally
  <2>2. /\ rrs[m].rdlength \in Nat /\ rrs[m].rdata >= 11 + End(m - 1)
        /\ rrs[m] \in Listed
    BY <1>a DEF Apart, ListInv
  <2>3. Used(m) = 11 + rrs[m].rdlength \/ Used(m) = 0
    BY DEF Used
  <2>4. End(m) = rrs[m].rdata + rrs[m].rdlength /\ rrs[m].rdata \in Int
    BY <1>1, <2>2 DEF End, Listed
  <2>5. m - 1 \in 0 .. N
    BY <1>1
  <2>6. tally[m - 1] \in Int /\ End(m - 1) \in Int
    BY <1>1, <1>2, <2>5
  <2>7. QED
    BY <1>c, <2>1, <2>2, <2>3, <2>4, <2>6, OneRecordMore
<1> DEFINE Over == {m \in 0 .. N : ~(17 + tally[m] <= End(m))}
<1>3. Over = {}
  <2>1. SUFFICES ASSUME Over # {} PROVE FALSE
    OBVIOUS
  <2>2. Over \in SUBSET Nat
    BY <1>1
  <2>3. PICK m \in Over : \A n \in Over : m <= n
    <3> HIDE DEF Over
    <3>1. QED
      BY <2>1, <2>2, LeastNumber
  <2>4. m \in 0 .. N /\ ~(17 + tally[m] <= End(m))
    BY <2>3
  <2>5. CASE m = 0
    BY <1>2, <2>4, <2>5 DEF Tally, End
  <2>6. CASE m # 0
    <3>1. m - 1 \in 0 .. N /\ m \in 1 .. N /\ ~(m <= m - 1)
      BY <1>1, <2>4, <2>6
    <3>2. m - 1 \notin Over
      <4> HIDE DEF Over
      <4>1. QED
        BY <2>3, <3>1
    <3>3. 17 + tally[m - 1] <= End(m - 1)
      BY <3>1, <3>2
    <3>4. QED
      BY <1>c, <2>4, <3>1, <3>3
  <2>7. QED
    BY <2>5, <2>6
<1>4. SUFFICES ASSUME t.parts # <<>>
               PROVE  17 + 15 * Len(t.parts) + t.len <= len
  BY DEF TokenFitsMessage
<1>5. N \in 1 .. N /\ Len(t.parts) \in Nat
  <2>1. t.parts \in Seq(1 .. N)
    BY <1>a DEF TokenInv
  <2>2. t.parts[1] \in 1 .. N /\ Len(t.parts) \in Nat
    BY <1>4, <2>1, FirstElement
  <2>3. QED
    BY <1>1, <2>2
<1>6. 17 + tally[N] <= End(N)
  <2>1. N \in 0 .. N /\ N \notin Over
    BY <1>1, <1>3
  <2>2. QED
    BY <2>1
<1>7. tally[N] = 15 * Len(t.parts) + t.len
  BY <1>a, <1>2 DEF Tally
<1>8. End(N) <= len
  BY <1>a, <1>5 DEF ListInv, End
<1>9. t.len \in Int /\ End(N) \in Int /\ tally[N] = 15 * Len(t.parts) + t.len
  BY <1>1, <1>5, <1>7 DEF ChainInv
<1> HIDE DEF Over
<1>10. QED
  BY <1>5, <1>6, <1>8, <1>9

(* A step of the assembler that appends nothing. *)
LEMMA SameChain ==
  ASSUME ChainInv, UNCHANGED <<fragment, t, rrs, content>>
  PROVE  ChainInv'
<1>1. Records' = Records
  BY DEF Records, Record
<1>2. PICK tally \in [0 .. Len(rrs) -> Int] : Tally(tally)
  BY DEF ChainInv
<1>3. Tally(tally)'
  BY <1>2 DEF Tally, Used, InChain
<1>4. QED
  BY <1>1, <1>3 DEF ChainInv

(* The appended record was not yet part of the chain: from its place on the   *)
(* tally grows by what it takes up.                                           *)
LEMMA AppendKeepsChain ==
  ASSUME ListInv, TokenInv, Apart, ChainInv, Len(rrs) = Len(content),
         UNCHANGED <<rrs, content>>, A!AppendRecord
  PROVE  ChainInv'
<1>a. PICK N, n : N = Len(rrs) /\ n = Len(t.parts)
  OBVIOUS
<1>b. PICK x, r : x = rr /\ r = Records[x]
  OBVIOUS
<1>1. N \in Nat /\ n \in Nat /\ t.parts \in Seq(1 .. N)
  BY <1>a, EndIsNumber DEF TokenInv
<1>2. x \in 1 .. N
  BY <1>a, <1>b, RecordsOfList DEF A!AppendRecord, A!InScan, TokenInv
<1>3. A!Carries(r, n + 1)
  BY <1>a, <1>b DEF A!AppendRecord, A!Wanted, ChainInv
<1>4. /\ t'.parts = Append(t.parts, x)
      /\ t'.len = t.len + A!PayloadSize(r)
      /\ fragment' = n + 1
  BY <1>b, <1>3 DEF A!AppendRecord, A!Carries
<1>5. /\ Len(t'.parts) = n + 1 /\ t'.parts[n + 1] = x
      /\ \A k \in 1 .. n : t'.parts[k] = t.parts[k]
  BY <1>a, <1>1, <1>2, <1>4
<1>6. ~InChain(x)
  <2>1. ASSUME NEW k \in 1 .. n, t.parts[k] = x
        PROVE  FALSE
    <3>1. A!Carries(r, k)
      BY <1>a, <1>b, <2>1 DEF ChainInv
    <3>2. k = n + 1
      BY <1>3, <3>1 DEF A!Carries
    <3>3. QED
      BY <1>1, <3>2
  <2>2. QED
    BY <1>a, <2>1 DEF InChain
<1>7. \A m : InChain(m)' <=> InChain(m) \/ m = x
  <2>1. ASSUME NEW m
        PROVE  (\E k \in 1 .. n + 1 : t'.parts[k] = m)
                 <=> (\E k \in 1 .. n : t.parts[k] = m) \/ m = x
    <3>1. \A k : k \in 1 .. n + 1 <=> k \in 1 .. n \/ k = n + 1
      BY <1>1
    <3>2. QED
      BY <1>5, <3>1
  <2>2. QED
    BY <1>a, <1>5, <2>1 DEF InChain
<1>8. PICK room \in Int : room = 11 + rrs[x].rdlength /\ A!PayloadSize(r) = room - 15
  <2>1. rrs[x].rdlength \in Int
    BY <1>a, <1>2 DEF Apart
  <2>2. r.rdlength = rrs[x].rdlength
    BY <1>a, <1>b, <1>2 DEF Records, Record, ListInv
  <2>3. QED
    BY <2>1, <2>2 DEF A!PayloadSize
<1>9. /\ Used(x) = 0 /\ Used(x)' = room
      /\ \A m \in 1 .. N : m # x => Used(m)' = Used(m)
  BY <1>6, <1>7, <1>8 DEF Used
<1>10. PICK tally \in [0 .. N -> Int] : Tally(tally)
  BY <1>a DEF ChainInv
<1> DEFINE more == [m \in 0 .. N |-> IF m >= x THEN tally[m] + room ELSE tally[m]]
<1>11. more \in [0 .. N -> Int]
  BY <1>8, <1>10
<1>12. more[0] = 0
  BY <1>1, <1>2, <1>10 DEF Tally
<1>13. ASSUME NEW m \in 1 .. N
       PROVE  more[m] = more[m - 1] + Used(m)'
  <2>1. tally[m] = tally[m - 1] + Used(m) /\ m \in 0 .. N /\ m - 1 \in 0 .. N
    BY <1>a, <1>1, <1>10 DEF Tally
  <2>2. tally[m] \in Int /\ tally[m - 1] \in Int
    BY <1>10, <2>1
  <2>3. Used(m) \in Int
    BY <1>a DEF Used, Apart
  <2>4. /\ more[m] = IF m >= x THEN tally[m] + room ELSE tally[m]
        /\ more[m - 1] = IF m - 1 >= x THEN tally[m - 1] + room ELSE tally[m - 1]
    BY <2>1
  <2> HIDE DEF more
  <2>5. CASE m = x
    <3>1. more[m] = tally[m] + room /\ more[m - 1] = tally[m - 1]
      BY <1>2, <2>4, <2>5
    <3>2. QED
      BY <1>9, <2>1, <2>2, <2>5, <3>1
  <2>6. CASE m < x
    <3>1. more[m] = tally[m] /\ more[m - 1] = tally[m - 1] /\ m # x
      BY <1>2, <2>4, <2>6
    <3>2. QED
      BY <1>9, <2>1, <3>1
  <2>7. CASE m > x
    <3>1. more[m] = tally[m] + room /\ more[m - 1] = tally[m - 1] + room /\ m # x
      BY <1>2, <2>4, <2>7
    <3>2. Used(m)' = Used(m)
      BY <1>9, <3>1
    <3>3. QED
      BY <2>1, <2>2, <2>3, <3>1, <3>2
  <2>8. QED
    BY <1>2, <2>5, <2>6, <2>7
<1>14. t'.len \in Int /\ more[N] = 15 * (n + 1) + t'.len
  <2>1. N \in 0 .. N /\ N >= x
    BY <1>1, <1>2
  <2>2. more[N] = tally[N] + room
    BY <2>1
  <2>3. tally[N] = 15 * n + t.len /\ t.len \in Int
    BY <1>a, <1>10 DEF Tally, ChainInv
  <2>4. t'.len = t.len + (room - 15)
    BY <1>4, <1>8
  <2>5. tally[N] \in Int
    BY <1>10, <2>1
  <2>6. n \in Nat
    BY <1>1
  <2> HIDE DEF more
  <2>7. QED
    BY <2>2, <2>3, <2>4, <2>5, <2>6
<1> HIDE DEF more
<1>15. Tally(more)'
  BY <1>a, <1>5, <1>12, <1>13, <1>14 DEF Tally
<1>16. \A k \in 1 .. n + 1 : A!Carries(Records[t'.parts[k]], k)
  <2>1. A!Carries(Records[t'.parts[n + 1]], n + 1)
    BY <1>b, <1>3, <1>5
  <2>2. \A k \in 1 .. n : A!Carries(Records[t'.parts[k]], k)
    BY <1>a, <1>5 DEF ChainInv
  <2>3. QED
    BY <1>1, <2>1, <2>2
<1>17. Records' = Records
  BY DEF Records, Record
<1>18. QED
  BY <1>a, <1>4, <1>5, <1>11, <1>14, <1>15, <1>16, <1>17 DEF ChainInv

(* What FitInv is for. *)
LEMMA FitHolds == IInv /\ FitInv => TokenFitsMessage
<1> SUFFICES ASSUME IInv, FitInv PROVE TokenFitsMessage
  OBVIOUS
<1>1. CASE at \in {"args", "key", "fetch"}
  BY <1>1 DEF IInv, MainStage, TokenFitsMessage
<1>2. CASE Reading
  BY <1>2, TallyFits DEF IInv, MainStage, FitInv
<1>3. CASE at = "exit"
  BY <1>3 DEF FitInv
<1>4. QED
  BY <1>1, <1>2, <1>3 DEF IInv, TypeOK, Reading

LEMMA FitInit == Init => FitInv
<1> SUFFICES ASSUME Init PROVE FitInv
  OBVIOUS
<1>1. /\ rrs = <<>> /\ len = -1 /\ section = "question" /\ fetch_pc = "enter"
      /\ fragment = 0 /\ at = "args"
  BY DEF Init, F!Init, A!Init
<1>2. Apart
  BY <1>1 DEF Apart
<1>3. IndexInv
  BY <1>1 DEF IndexInv
<1>4. QED
  BY <1>1, <1>2, <1>3 DEF FitInv, Reading

LEMMA FitFetch == IInv /\ FitInv /\ Fetch => FitInv'
<1> SUFFICES ASSUME IInv, FitInv, Fetch PROVE FitInv'
  OBVIOUS
<1>1. at = "fetch" /\ at' = at /\ fragment' = fragment /\ F!Next
  BY DEF Fetch, client, scanning
<1>2. Apart' /\ IndexInv'
  BY <1>1, FetchKeepsApart DEF IInv, MainStage, FitInv
<1>3. len' = len \/ len' \in Lengths
  BY <1>1 DEF F!Next, F!RejectArguments, F!InitResolver, F!Query, F!Allocate, F!Copy,
       F!HeaderTooShort, F!ReadHeader, F!NameTooShort, F!SkipLabel, F!SkipPointer,
       F!BadLabel, F!SkipQuestion, F!ReadRecord, F!DataTooShort, F!AppendRecord,
       F!FreeRecord, F!FreeResponse, F!Succeed, F!Kept, F!parser
<1>4. len' \in Int
  BY <1>3, ParserAssumption DEF FitInv
<1>5. QED
  BY <1>1, <1>2, <1>4 DEF FitInv, Reading

LEMMA FitAssemble == IInv /\ FitInv /\ Assemble => FitInv'
<1> SUFFICES ASSUME IInv, FitInv, Assemble PROVE FitInv'
  OBVIOUS
<1>1. /\ at = "assemble" /\ at' = at /\ rrs' = rrs /\ content' = content /\ len' = len
      /\ A!Next
  BY DEF Assemble, client, fetching, response
<1>2. ChainInv /\ Apart /\ ListInv /\ TokenInv /\ Len(rrs) = Len(content)
  BY <1>1 DEF IInv, FitInv, MainStage, Reading
<1>3. Apart'
  BY <1>1, <1>2 DEF Apart, End
<1>4. ChainInv'
  <2>1. CASE A!AppendRecord
    BY <1>1, <1>2, <2>1, AppendKeepsChain
  <2>2. CASE ~A!AppendRecord
    <3>1. fragment' = fragment /\ t' = t
      BY <1>1, <2>2 DEF A!Next, A!RejectArguments, A!AcceptArguments, A!StartScan,
         A!LeaveLoop, A!SkipRecord, A!AppendFails, A!EndScan, A!NotPresent, A!HandOver,
         A!HandOverFails
    <3>2. QED
      BY <1>1, <1>2, <3>1, SameChain
  <2>3. QED
    BY <2>1, <2>2
<1>5. QED
  BY <1>1, <1>3, <1>4 DEF FitInv, Reading

(* Before the first scan the chain is empty. *)
LEMMA EmptyChain ==
  ASSUME ListInv, TokenInv, fragment = 0, t.parts = <<>>
  PROVE  ChainInv
<1>1. PICK N \in Nat : N = Len(rrs)
  BY EndIsNumber
<1>2. t.len = 0 /\ Len(t.parts) = 0
  BY DEF TokenInv
<1>3. \A m : Used(m) = 0
  BY <1>2 DEF Used, InChain
<1> DEFINE none == [m \in 0 .. N |-> 0]
<1>4. none[0] = 0 /\ none[N] = 0 /\ \A m \in 1 .. N : none[m] = 0 /\ none[m - 1] = 0
  BY <1>1
<1>5. none \in [0 .. N -> Int]
  OBVIOUS
<1> HIDE DEF none
<1>6. Tally(none)
  BY <1>1, <1>2, <1>3, <1>4 DEF Tally
<1>7. QED
  BY <1>1, <1>2, <1>5, <1>6 DEF ChainInv

LEMMA FitClient ==
  ASSUME IInv, FitInv,
         PrintUsage \/ NoNumber \/ ParseOptions \/ ReadKey \/ AfterFetch \/ AfterAssemble
           \/ Decode \/ DecodeFails \/ Finish
  PROVE  FitInv'
<1>1. /\ content' = content /\ len' = len /\ t' = t /\ fragment' = fragment
      /\ fetch_pc' = fetch_pc /\ section' = section /\ i' = i /\ rdlength' = rdlength
      /\ rrs' = rrs \/ rrs' = <<>>
  BY DEF PrintUsage, NoNumber, ParseOptions, ReadKey, AfterFetch, AfterAssemble, Decode,
         DecodeFails, Finish, DestroyResponse, fetching, scanning, response
<1>2. Apart'
  BY <1>1 DEF FitInv, Apart, End
<1>3. TokenFitsMessage'
  BY <1>1, FitHolds DEF TokenFitsMessage
<1>4. ASSUME at' \in {"args", "key", "fetch"}
      PROVE  IndexInv' /\ fragment' = 0
  <2>1. at \in {"args", "key", "fetch"} /\ rrs' = rrs
    BY <1>4 DEF PrintUsage, NoNumber, ParseOptions, ReadKey, AfterFetch, AfterAssemble,
         Decode, DecodeFails, Finish, Exit, response
  <2>2. QED
    BY <1>1, <2>1 DEF FitInv, IndexInv, Behind, End
<1>5. ASSUME Reading'
      PROVE  ChainInv'
  <2>1. rrs' = rrs /\ (Reading \/ AfterFetch)
    BY <1>5 DEF PrintUsage, NoNumber, ParseOptions, ReadKey, AfterFetch, AfterAssemble,
         Decode, DecodeFails, Finish, Exit, response, Reading
  <2>2. ChainInv
    <3>1. CASE Reading
      BY <3>1 DEF FitInv
    <3>2. CASE AfterFetch
      BY <3>2, EmptyChain DEF AfterFetch, IInv, FitInv, MainStage
    <3>3. QED
      BY <2>1, <3>1, <3>2
  <2>3. QED
    BY <1>1, <2>1, <2>2, SameChain
<1>6. QED
  BY <1>1, <1>2, <1>3, <1>4, <1>5 DEF FitInv

LEMMA FitStutter == FitInv /\ UNCHANGED vars => FitInv'
<1> SUFFICES ASSUME FitInv, UNCHANGED vars PROVE FitInv'
  OBVIOUS
<1>1. /\ UNCHANGED <<fragment, t, rrs, content>>
      /\ UNCHANGED <<at, len, i, rdlength, section, fetch_pc>>
  BY DEF vars, client, fetching, response, scanning
<1>2. Apart' = Apart /\ IndexInv' = IndexInv /\ TokenFitsMessage' = TokenFitsMessage
  BY <1>1 DEF Apart, IndexInv, Behind, End, TokenFitsMessage
<1>3. ChainInv => ChainInv'
  BY <1>1, SameChain
<1>4. QED
  BY <1>1, <1>2, <1>3 DEF FitInv, Reading

LEMMA FitInductive == IInv /\ FitInv /\ [Next]_vars => FitInv'
BY FitFetch, FitAssemble, FitClient, FitStutter DEF Next

(* Whatever the records say of themselves, and in whatever order they are     *)
(* chained, the token is shorter than the message that holds it.              *)
THEOREM TokenAlwaysFits == Spec => []TokenFitsMessage
BY Invariant, FitInit, FitInductive, FitHolds, PTL DEF Spec
=============================================================================
