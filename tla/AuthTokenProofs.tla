-------------------------- MODULE AuthTokenProofs --------------------------
(***************************************************************************)
(* Theorems about AuthToken for every request, any sizes and number of     *)
(* chunks, and failures at every call.                                     *)
(***************************************************************************)
EXTENDS AuthToken, SequenceTheorems, TLAPS

LEMMA TablesAreSequences ==
  /\ Headers \in Seq(Fields) /\ Len(Headers) = 12
  /\ Len(Options) = 20 /\ DOMAIN Options = 1 .. 20
  /\ Len(Infos) = 9 /\ DOMAIN Infos = 1 .. 9
<1>1. Headers \in Seq(Fields) /\ Len(Headers) = 12
  BY DEF Headers, Fields
<1>2. Len(Options) = 20 /\ DOMAIN Options = 1 .. 20
  BY DEF Options
<1>3. Len(Infos) = 9 /\ DOMAIN Infos = 1 .. 9
  BY DEF Infos
<1> QED BY <1>1, <1>2, <1>3

(* A chunk appended to the octets before it.                                  *)
LEMMA AppendedIs ==
  ASSUME r.payload \in Seq(Nat), body \in Nat, NEW n \in Nat
  PROVE  /\ Appended(n) \in Seq(Nat)
         /\ Len(Appended(n)) = Len(r.payload) + n
         /\ \A j \in 1 .. Len(r.payload) : Appended(n)[j] = r.payload[j]
         /\ \A j \in Len(r.payload) + 1 .. Len(r.payload) + n :
               Appended(n)[j] = body + (j - Len(r.payload))
<1> DEFINE c == Chunk(n)
           l == Len(r.payload)
<1>1. c \in [1 .. n -> Nat] /\ \A j \in 1 .. n : c[j] = body + j
  BY DEF Chunk
<1>2. c \in Seq(Nat) /\ Len(c) = n
  <2>1. c \in Seq(Nat)
    BY <1>1, SeqDef
  <2>2. DOMAIN c = 1 .. n
    BY <1>1
  <2> QED BY <2>1, <2>2, LenProperties
<1>3. l \in Nat
  OBVIOUS
<1> HIDE DEF c
<1>4. /\ r.payload \o c \in Seq(Nat)
      /\ Len(r.payload \o c) = l + n
      /\ \A j \in 1 .. l + n : (r.payload \o c)[j] = IF j <= l THEN r.payload[j] ELSE c[j - l]
  BY <1>2, ConcatProperties
<1>5. Appended(n) = r.payload \o c
  BY DEF Appended, c
<1> HIDE DEF l
<1>6. \A j \in 1 .. l : Appended(n)[j] = r.payload[j]
  BY <1>3, <1>4, <1>5
<1>7. ASSUME NEW j \in l + 1 .. l + n
      PROVE  Appended(n)[j] = body + (j - l)
  <2>1. j \in 1 .. l + n /\ ~(j <= l) /\ j - l \in 1 .. n
    BY <1>3
  <2> QED BY <2>1, <1>1, <1>4, <1>5
<1> QED BY <1>4, <1>5, <1>6, <1>7 DEF l

(* What the steps assign to the response leaves it one.                       *)
LEMMA ResponseUpdates ==
  ASSUME r \in Responses
  PROVE  /\ \A s \in States : [r EXCEPT !.state = s] \in Responses
         /\ \A c \in Codes : [r EXCEPT !.curl_rv = c] \in Responses
         /\ \A i \in InfoNames : [r EXCEPT !.known = @ \union {i}] \in Responses
         /\ \A p \in Seq(Nat), b \in {0, 1}, l \in Nat :
              [r EXCEPT !.payload = p, !.blocks = b, !.len = l] \in Responses
BY DEF Responses

LEMMA ResponseTypes ==
  ASSUME r \in Responses
  PROVE  /\ r.payload \in Seq(Nat) /\ r.len \in Nat /\ r.blocks \in {0, 1}
         /\ r.state \in States /\ r.known \subseteq InfoNames
BY DEF Responses

LEMMA ZeroedIsResponse == Zeroed \in Responses
<1>1. <<>> \in Seq(Nat) /\ {} \in SUBSET InfoNames
  OBVIOUS
<1>2. "INIT" \in States /\ "CURLE_OK" \in Codes
  BY DEF States, Codes
<1> QED BY <1>1, <1>2 DEF Zeroed, Responses

LEMMA EarlierIsResponse == Earlier \in Responses
<1>1. <<0>> \in Seq(Nat)
  OBVIOUS
<1>2. "COMPLETED" \in States /\ "CURLE_OK" \in Codes
  BY DEF States, Codes
<1> QED BY <1>1, <1>2 DEF Earlier, Responses

-----------------------------------------------------------------------------
(* The branches of Next, for the proofs that do not look into all of them.    *)
Preparing == \/ SkipHeader \/ AppendHeader \/ AppendFails \/ OpenHandle \/ NoHandle
             \/ SkipOption \/ SetOption \/ OptionFails \/ Perform
Asking == GetInfo \/ InfoFails \/ Complete

LEMMA NextByPhases ==
  Next <=> \/ Enter \/ Preparing
           \/ (\E n \in ChunkSizes : Receive(n) \/ NoMemory(n) \/ EmptyAgain(n))
           \/ PerformOk \/ PerformFails \/ Asking \/ Cleanup \/ Release
BY DEF Next, Preparing, Asking

LEMMA TypesInductive == Types /\ [Next]_vars => Types'
<1> SUFFICES ASSUME Types, [Next]_vars
             PROVE  Types'
  OBVIOUS
<1> USE DEF Types, transfer
<1>1. CASE Enter
  BY <1>1, ZeroedIsResponse DEF Enter
<1>2. CASE Preparing
  <2>1. CASE AppendHeader
    <3>1. next \in 1 .. Len(Headers)
      BY <2>1, TablesAreSequences DEF AppendHeader, HeadersLeft
    <3>2. Headers[next] \in Fields
      BY <3>1, TablesAreSequences, ElementOfSeq
    <3> QED BY <2>1, <3>2 DEF AppendHeader
  <2>2. CASE SetOption
    <3>1. next \in DOMAIN Options
      BY <2>2, TablesAreSequences DEF SetOption, AtOption
    <3> QED BY <2>2, <3>1 DEF SetOption
  <2>3. CASE SkipHeader \/ SkipOption
    BY <2>3 DEF SkipHeader, SkipOption
  <2>4. CASE AppendFails \/ NoHandle \/ OptionFails
    <3>1. rv' \in Codes
      BY <2>4 DEF AppendFails, NoHandle, NoHandleCode, OptionFails, Codes
    <3> QED BY <2>4, <3>1 DEF AppendFails, NoHandle, OptionFails
  <2>5. CASE OpenHandle \/ Perform
    BY <2>5 DEF OpenHandle, Perform
  <2> QED BY <1>2, <2>1, <2>2, <2>3, <2>4, <2>5 DEF Preparing
<1>3. CASE \E n \in ChunkSizes : Receive(n) \/ NoMemory(n) \/ EmptyAgain(n)
  <2>1. PICK n \in ChunkSizes : Receive(n) \/ NoMemory(n) \/ EmptyAgain(n)
    BY <1>3
  <2>2. n \in Nat /\ chunks + 1 \in 0 .. MaxChunks /\ body + n \in Nat
    BY <2>1, ChunksAssumption DEF Receive, NoMemory, EmptyAgain, Called
  <2>3. CASE Receive(n)
    <3>1. Appended(n) \in Seq(Nat)
      BY <2>2, AppendedIs, ResponseTypes
    <3>2. r' = [r EXCEPT !.payload = Appended(n), !.blocks = 1, !.len = r.len + n]
      BY <2>3 DEF Receive
    <3>3. r' \in Responses
      <4>1. r.len + n \in Nat /\ 1 \in {0, 1}
        BY <2>2, ResponseTypes
      <4> QED BY <4>1, <3>1, <3>2, ResponseUpdates
    <3> QED BY <2>2, <2>3, <3>3 DEF Receive, Called
  <2>4. CASE NoMemory(n) \/ EmptyAgain(n)
    <3>1. r' \in Responses
      <4>1. r' = [r EXCEPT !.payload = <<>>, !.blocks = 0, !.len = 0] /\ <<>> \in Seq(Nat)
        BY <2>4 DEF NoMemory, EmptyAgain, NoPayload
      <4> QED BY <4>1, ResponseUpdates
    <3>2. lost' \in Nat
      BY <2>4, ResponseTypes DEF NoMemory, EmptyAgain
    <3> QED BY <2>2, <2>4, <3>1, <3>2 DEF NoMemory, EmptyAgain, Called
  <2> QED BY <2>1, <2>3, <2>4
<1>4. CASE PerformOk
  <2>1. r' \in Responses
    BY <1>4, ResponseUpdates DEF PerformOk, States
  <2> QED BY <1>4, <2>1 DEF PerformOk
<1>5. CASE PerformFails
  BY <1>5, ResponseUpdates DEF PerformFails, States, Codes
<1>6. CASE Asking
  <2>1. CASE GetInfo
    <3>1. next \in DOMAIN Infos
      BY <2>1, TablesAreSequences DEF GetInfo, AtInfo
    <3>2. r' \in Responses
      BY <2>1, <3>1, ResponseUpdates DEF GetInfo, InfoNames
    <3> QED BY <2>1, <3>2 DEF GetInfo, AtInfo
  <2>2. CASE InfoFails
    BY <2>2 DEF InfoFails, AtInfo, Codes
  <2>3. CASE Complete
    BY <2>3, ResponseUpdates DEF Complete, States
  <2> QED BY <1>6, <2>1, <2>2, <2>3 DEF Asking
<1>7. CASE Cleanup
  <2>1. r' \in Responses
    BY <1>7, ResponseUpdates DEF Cleanup
  <2> QED BY <1>7, <2>1 DEF Cleanup
<1>8. CASE Release
  BY <1>8 DEF Release
<1>9. CASE UNCHANGED vars
  BY <1>9 DEF vars
<1> QED
  BY <1>1, <1>2, <1>3, <1>4, <1>5, <1>6, <1>7, <1>8, <1>9, NextByPhases

LEMMA TypesInitially == Init => Types
<1> SUFFICES ASSUME Init
             PROVE  Types
  OBVIOUS
<1>1. {Zeroed, Earlier} \subseteq Responses
  BY ZeroedIsResponse, EarlierIsResponse
<1> QED BY <1>1, ChunksAssumption DEF Init, Types, Codes

LEMMA TypesInvariant == Spec => []Types
  BY TypesInitially, TypesInductive, PTL DEF Spec

-----------------------------------------------------------------------------
(* What each kind of step does to the parts of the response.                  *)
Same(q) == q.payload = r.payload /\ q.blocks = r.blocks /\ q.len = r.len

LEMMA ResponseParts ==
  ASSUME r \in Responses
  PROVE  /\ \A s : /\ Same([r EXCEPT !.state = s])
                  /\ [r EXCEPT !.state = s].state = s
                  /\ [r EXCEPT !.state = s].known = r.known
         /\ \A c : /\ Same([r EXCEPT !.curl_rv = c])
                  /\ [r EXCEPT !.curl_rv = c].state = r.state
                  /\ [r EXCEPT !.curl_rv = c].known = r.known
                  /\ [r EXCEPT !.curl_rv = c].curl_rv = c
         /\ \A i : /\ Same([r EXCEPT !.known = @ \union {i}])
                  /\ [r EXCEPT !.known = @ \union {i}].state = r.state
                  /\ [r EXCEPT !.known = @ \union {i}].known = r.known \union {i}
         /\ \A q, b, l : LET u == [r EXCEPT !.payload = q, !.blocks = b, !.len = l]
                        IN  /\ u.payload = q /\ u.blocks = b /\ u.len = l
                            /\ u.state = r.state /\ u.known = r.known
BY DEF Responses, Same

LEMMA ChunkEffects ==
  ASSUME Types, NEW n \in ChunkSizes, Receive(n) \/ NoMemory(n) \/ EmptyAgain(n)
  PROVE  /\ pc = "perform" /\ pc' \in {"perform", "refused"} /\ body' = body + n /\ n \in Nat
         /\ UNCHANGED <<in, next, list, curl, set, rv, told>>
         /\ r'.state = r.state /\ r'.known = r.known
         /\ \/ /\ r'.payload = Appended(n) /\ r'.blocks = 1 /\ r'.len = r.len + n
               /\ pc' = "perform" /\ heap' = heap + 1 - r.blocks /\ lost' = lost
            \/ /\ r'.payload = <<>> /\ r'.blocks = 0 /\ r'.len = 0
               /\ \/ pc' = "refused"
                  \/ n = 0 /\ body = 0 /\ pc' = "perform"
               /\ \/ heap' = heap /\ lost' = lost + r.blocks
                  \/ heap' = heap - 1 /\ r.blocks = 1 /\ lost' = lost
<1>t. r \in Responses /\ n \in Nat
  BY ChunksAssumption DEF Types
<1>c. /\ pc = "perform" /\ body' = body + n /\ UNCHANGED <<in, next, list, curl, set, rv, told>>
      /\ n = 0 => body = 0
  BY DEF Receive, NoMemory, EmptyAgain, Called
<1>1. CASE Receive(n)
  <2>1. r' = [r EXCEPT !.payload = Appended(n), !.blocks = 1, !.len = r.len + n]
    BY <1>1 DEF Receive
  <2>2. /\ r'.payload = Appended(n) /\ r'.blocks = 1 /\ r'.len = r.len + n
        /\ r'.state = r.state /\ r'.known = r.known
    BY <2>1, <1>t, ResponseParts
  <2>3. pc' = pc /\ lost' = lost /\ heap' = heap + 1 - r.blocks
    BY <1>1 DEF Receive
  <2> QED BY <2>2, <2>3, <1>t, <1>c
<1>2. CASE NoMemory(n) \/ EmptyAgain(n)
  <2>1. r' = [r EXCEPT !.payload = <<>>, !.blocks = 0, !.len = 0]
    BY <1>2 DEF NoMemory, EmptyAgain, NoPayload
  <2>2. /\ r'.payload = <<>> /\ r'.blocks = 0 /\ r'.len = 0
        /\ r'.state = r.state /\ r'.known = r.known
    BY <2>1, <1>t, ResponseParts
  <2>3. CASE NoMemory(n)
    BY <2>2, <2>3, <1>t, <1>c DEF NoMemory
  <2>4. CASE EmptyAgain(n)
    <3>1. n = 0
      BY <2>4, <1>t, ResponseTypes DEF EmptyAgain
    <3> QED BY <3>1, <2>2, <2>4, <1>t, <1>c DEF EmptyAgain
  <2> QED BY <1>2, <2>3, <2>4
<1> QED BY <1>1, <1>2

-----------------------------------------------------------------------------
(* The state and the code at every point of auth_token_req.                   *)
StateInv ==
  /\ pc \in {"enter", "headers", "setopt"} => body = 0
  /\ pc \in {"headers", "setopt"} => r.blocks = 0 /\ r.len = 0 /\ r.payload = <<>>
  /\ pc \in {"headers", "setopt", "perform", "refused"} => r.state = "INIT" /\ r.known = {}
  /\ pc \in {"enter", "headers", "setopt", "perform", "getinfo"} => rv = "CURLE_OK"
  /\ pc = "getinfo" => /\ r.state = "PERFORMED" /\ told = "success"
                       /\ \A k \in DOMAIN Infos : k < next => Infos[k] \in r.known
  /\ pc \in {"cleanup", "done", "released"} =>
       /\ rv = "CURLE_OK" <=> r.state = "COMPLETED"
       /\ r.state = "COMPLETED" => told = "success" /\ r.known = InfoNames
       /\ r.state = "INIT" => body = 0 /\ r.known = {} /\ r.blocks = 0 /\ r.len = 0
                              /\ r.payload = <<>>
  /\ pc \in {"done", "released"} => r.curl_rv = rv

LEMMA StateInductive == Types /\ StateInv /\ [Next]_vars => StateInv'
<1> SUFFICES ASSUME Types, StateInv, [Next]_vars
             PROVE  StateInv'
  OBVIOUS
<1>t. r \in Responses
  BY DEF Types
<1>1. CASE Enter
  BY <1>1 DEF Enter, Zeroed, StateInv, transfer
<1>2. CASE Preparing
  <2>1. /\ pc \in {"headers", "setopt"} /\ UNCHANGED <<r, body>>
        /\ \/ pc' \in {"headers", "setopt", "perform"} /\ rv' = rv
           \/ pc' = "cleanup" /\ rv' # "CURLE_OK"
    BY <1>2 DEF Preparing, SkipHeader, AppendHeader, AppendFails, OpenHandle, NoHandle,
                NoHandleCode, SkipOption, SetOption, OptionFails, Perform, AtOption, transfer
  <2> QED BY <2>1 DEF StateInv
<1>3. CASE \E n \in ChunkSizes : Receive(n) \/ NoMemory(n) \/ EmptyAgain(n)
  <2>1. /\ pc = "perform" /\ pc' \in {"perform", "refused"} /\ rv' = rv
        /\ r'.state = r.state /\ r'.known = r.known
    BY <1>3, ChunkEffects
  <2> QED BY <2>1 DEF StateInv
<1>4. CASE PerformOk
  <2>1. /\ pc = "perform" /\ pc' = "getinfo" /\ next' = 1 /\ told' = "success" /\ rv' = rv
        /\ r' = [r EXCEPT !.state = "PERFORMED"]
    BY <1>4 DEF PerformOk
  <2>2. r'.state = "PERFORMED"
    BY <2>1, <1>t, ResponseParts
  <2>3. \A k \in DOMAIN Infos : ~(k < 1)
    BY TablesAreSequences
  <2> QED BY <2>1, <2>2, <2>3 DEF StateInv
<1>5. CASE PerformFails
  <2>1. /\ pc' = "cleanup" /\ rv' # "CURLE_OK"
        /\ r' = [r EXCEPT !.state = "PERFORMED"]
    BY <1>5 DEF PerformFails
  <2>2. r'.state = "PERFORMED"
    BY <2>1, <1>t, ResponseParts
  <2> QED BY <2>1, <2>2 DEF StateInv
<1>6. CASE GetInfo
  <2>1. /\ pc = "getinfo" /\ next \in DOMAIN Infos /\ next' = next + 1
        /\ UNCHANGED <<pc, rv, body, told>>
        /\ r' = [r EXCEPT !.known = @ \union {Infos[next]}]
    BY <1>6, TablesAreSequences DEF GetInfo, AtInfo, Types, transfer
  <2>2. r'.state = r.state /\ r'.known = r.known \union {Infos[next]}
    BY <2>1, <1>t, ResponseParts
  <2>3. ASSUME NEW k \in DOMAIN Infos, k < next + 1
        PROVE  Infos[k] \in r'.known
    <3>1. k < next \/ k = next
      BY <2>1, <2>3, TablesAreSequences
    <3> QED BY <3>1, <2>1, <2>2 DEF StateInv
  <2> QED BY <2>1, <2>2, <2>3 DEF StateInv
<1>7. CASE InfoFails
  BY <1>7 DEF InfoFails, AtInfo, StateInv, transfer
<1>8. CASE Complete
  <2>1. /\ pc = "getinfo" /\ pc' = "cleanup" /\ UNCHANGED <<rv, body, told>>
        /\ next > Len(Infos)
        /\ r' = [r EXCEPT !.state = "COMPLETED"]
    BY <1>8 DEF Complete, transfer
  <2>2. r'.state = "COMPLETED" /\ r'.known = r.known
    BY <2>1, <1>t, ResponseParts
  <2>3. \A k \in DOMAIN Infos : k < next
    BY <2>1, TablesAreSequences DEF Types
  <2>4. r.known = InfoNames
    <3>1. InfoNames \subseteq r.known
      BY <2>1, <2>3 DEF StateInv, InfoNames
    <3> QED BY <3>1, <1>t, ResponseTypes
  <2> QED BY <2>1, <2>2, <2>4 DEF StateInv
<1>9. CASE Cleanup
  <2>1. /\ pc = "cleanup" /\ pc' = "done" /\ UNCHANGED <<rv, body, told>>
        /\ r' = [r EXCEPT !.curl_rv = rv]
    BY <1>9 DEF Cleanup, transfer
  <2>2. Same(r') /\ r'.state = r.state /\ r'.known = r.known /\ r'.curl_rv = rv
    BY <2>1, <1>t, ResponseParts
  <2> QED BY <2>1, <2>2 DEF StateInv, Same
<1>10. CASE Release
  BY <1>10 DEF Release, StateInv, transfer
<1>11. CASE UNCHANGED vars
  BY <1>11 DEF vars, StateInv
<1> QED
  BY <1>1, <1>2, <1>3, <1>4, <1>5, <1>6, <1>7, <1>8, <1>9, <1>10, <1>11,
     NextByPhases DEF Asking

LEMMA StateInitially == Init => StateInv
BY DEF Init, StateInv

(* What the code and the state of a response tell its reader is so, whichever *)
(* call failed and whatever the response held before.                         *)
THEOREM CodeAndStateAlwaysAgree == Spec => []CodeAndStateAgree
<1>1. Init => Types /\ StateInv
  BY TypesInitially, StateInitially
<1>2. Types /\ StateInv /\ [Next]_vars => (Types /\ StateInv)'
  BY TypesInductive, StateInductive
<1>3. StateInv => CodeAndStateAgree
  BY DEF StateInv, CodeAndStateAgree
<1> QED BY <1>1, <1>2, <1>3, PTL DEF Spec

-----------------------------------------------------------------------------
(* The steps that leave the payload and the body alone.                       *)
LEMMA PayloadKept ==
  ASSUME Types, \/ Preparing \/ PerformOk \/ PerformFails \/ Asking \/ Cleanup \/ Release
                \/ UNCHANGED vars
  PROVE  Same(r') /\ body' = body /\ lost' = lost
<1>t. r \in Responses
  BY DEF Types
<1>1. CASE Preparing
  BY <1>1 DEF Preparing, SkipHeader, AppendHeader, AppendFails, OpenHandle, NoHandle,
              SkipOption, SetOption, OptionFails, Perform, Same, transfer
<1>2. CASE PerformOk \/ PerformFails \/ Asking \/ Cleanup
  <2>1. body' = body /\ lost' = lost
    BY <1>2 DEF PerformOk, PerformFails, Asking, GetInfo, InfoFails, Complete, Cleanup, transfer
  <2>2. \/ \E s : r' = [r EXCEPT !.state = s]
        \/ \E c : r' = [r EXCEPT !.curl_rv = c]
        \/ \E i : r' = [r EXCEPT !.known = @ \union {i}]
        \/ r' = r
    BY <1>2 DEF PerformOk, PerformFails, Asking, GetInfo, InfoFails, Complete, Cleanup
  <2>3. Same(r)
    BY DEF Same
  <2>4. Same(r')
    BY <1>t, <2>2, <2>3, ResponseParts
  <2> QED BY <2>1, <2>4
<1>3. CASE Release \/ UNCHANGED vars
  BY <1>3 DEF Release, vars, Same, transfer
<1> QED BY <1>1, <1>2, <1>3

(* The code no longer is CURLE_OK once a chunk was refused and curl returned. *)
LEMMA RefusedEndsBadly ==
  ASSUME Types, StateInv, \/ Preparing \/ PerformOk \/ PerformFails \/ Asking \/ Cleanup
                          \/ Release \/ UNCHANGED vars,
         rv' = "CURLE_OK", pc' # "refused"
  PROVE  rv = "CURLE_OK" /\ pc # "refused"
<1>1. CASE Preparing
  BY <1>1 DEF Preparing, SkipHeader, AppendHeader, AppendFails, OpenHandle, NoHandle,
              NoHandleCode, SkipOption, SetOption, OptionFails, Perform, AtOption, StateInv
<1>2. CASE PerformOk \/ PerformFails \/ Asking \/ Cleanup
  BY <1>2 DEF PerformOk, PerformFails, Asking, GetInfo, InfoFails, AtInfo, Complete, Cleanup
<1>3. CASE Release \/ UNCHANGED vars
  BY <1>3 DEF Release, vars
<1> QED BY <1>1, <1>2, <1>3

LEMMA PayloadInductive == Types /\ StateInv /\ PayloadIsWhole /\ [Next]_vars => PayloadIsWhole'
<1> SUFFICES ASSUME Types, StateInv, PayloadIsWhole, [Next]_vars
             PROVE  PayloadIsWhole'
  OBVIOUS
<1>t. r \in Responses /\ body \in Nat
  BY DEF Types
<1>1. CASE Enter
  <2>1. r' = Zeroed /\ body' = body /\ body = 0
    BY <1>1 DEF Enter, transfer, StateInv
  <2> QED BY <2>1 DEF Zeroed, PayloadIsWhole
<1>2. CASE \E n \in ChunkSizes : Receive(n) \/ NoMemory(n) \/ EmptyAgain(n)
  <2>1. PICK n \in ChunkSizes : Receive(n) \/ NoMemory(n) \/ EmptyAgain(n)
    BY <1>2
  <2>2. /\ pc = "perform" /\ body' = body + n /\ n \in Nat /\ rv' = rv /\ rv = "CURLE_OK"
        /\ \/ /\ r'.payload = Appended(n) /\ r'.blocks = 1 /\ r'.len = r.len + n
              /\ pc' = "perform"
           \/ /\ r'.payload = <<>> /\ r'.blocks = 0 /\ r'.len = 0
              /\ \/ pc' = "refused"
                 \/ n = 0 /\ body = 0 /\ pc' = "perform"
    BY <2>1, ChunkEffects DEF StateInv
  <2>3. r.len = body /\ Len(r.payload) = body /\ \A j \in 1 .. body : r.payload[j] = j
    BY <2>2 DEF PayloadIsWhole
  <2>4. CASE r'.payload = <<>> /\ r'.blocks = 0 /\ r'.len = 0
    BY <2>2, <2>4, <1>t DEF PayloadIsWhole
  <2>5. CASE r'.payload = Appended(n) /\ r'.blocks = 1 /\ r'.len = r.len + n
    <3>1. /\ Len(r'.payload) = body + n
          /\ \A j \in 1 .. body : r'.payload[j] = j
          /\ \A j \in body + 1 .. body + n : r'.payload[j] = body + (j - body)
      <4>1. r.payload \in Seq(Nat)
        BY <1>t, ResponseTypes
      <4>2. /\ Len(Appended(n)) = Len(r.payload) + n
            /\ \A j \in 1 .. Len(r.payload) : Appended(n)[j] = r.payload[j]
            /\ \A j \in Len(r.payload) + 1 .. Len(r.payload) + n :
                  Appended(n)[j] = body + (j - Len(r.payload))
        BY <4>1, <2>2, <1>t, AppendedIs
      <4> QED BY <4>2, <2>3, <2>5
    <3>2. ASSUME NEW j \in 1 .. body + n
          PROVE  r'.payload[j] = j
      <4>1. j \in 1 .. body \/ j \in body + 1 .. body + n
        BY <1>t, <2>2
      <4>2. body + (j - body) = j
        BY <1>t, <2>2
      <4> QED BY <4>1, <4>2, <3>1
    <3> QED BY <3>1, <3>2, <2>2, <2>3, <2>5 DEF PayloadIsWhole
  <2> QED BY <2>2, <2>4, <2>5
<1>3. CASE \/ Preparing \/ PerformOk \/ PerformFails \/ Asking \/ Cleanup \/ Release
           \/ UNCHANGED vars
  <2>1. r'.payload = r.payload /\ r'.blocks = r.blocks /\ r'.len = r.len /\ body' = body
    BY <1>3, PayloadKept DEF Same
  <2>2. pc = "enter" => pc' = "enter"
    BY <1>3 DEF Preparing, SkipHeader, AppendHeader, AppendFails, OpenHandle, NoHandle,
                SkipOption, SetOption, OptionFails, Perform, AtOption, PerformOk, PerformFails,
                Asking, GetInfo, InfoFails, AtInfo, Complete, Cleanup, Release, vars
  <2>3. rv' = "CURLE_OK" /\ pc' # "refused" /\ pc' # "enter" => rv = "CURLE_OK" /\ pc # "refused"
    BY <1>3, RefusedEndsBadly
  <2> QED BY <2>1, <2>2, <2>3 DEF PayloadIsWhole
<1> QED BY <1>1, <1>2, <1>3, NextByPhases

LEMMA PayloadInitially == Init => PayloadIsWhole
BY DEF Init, PayloadIsWhole

(* The payload is exactly what was received, or there is none; after a        *)
(* success nothing is missing: for any chunks and wherever memory runs out.   *)
THEOREM PayloadAlwaysWhole == Spec => []PayloadIsWhole
<1>1. Init => Types /\ StateInv /\ PayloadIsWhole
  BY TypesInitially, StateInitially, PayloadInitially
<1>2. Types /\ StateInv /\ PayloadIsWhole /\ [Next]_vars => (Types /\ StateInv /\ PayloadIsWhole)'
  BY TypesInductive, StateInductive, PayloadInductive
<1> QED BY <1>1, <1>2, PTL DEF Spec

-----------------------------------------------------------------------------
(* What is allocated at every point.                                          *)
NumHeaders == Len(list)

HeapInv ==
  /\ pc = "enter" => heap = 0 /\ lost = 0 /\ list = <<>> /\ curl = "none"
  /\ pc = "headers" => curl = "none"
  /\ pc \in {"headers", "setopt", "perform", "refused", "getinfo", "cleanup"} =>
       heap = NumHeaders + HandleBlocks + r.blocks + lost
  /\ pc = "done" => heap = r.blocks + lost
  /\ pc = "released" => heap = lost

LEMMA CountsAreNat ==
  ASSUME Types
  PROVE  NumHeaders \in Nat /\ HandleBlocks \in Nat /\ r.blocks \in Nat /\ lost \in Nat
BY ResponseTypes DEF Types, NumHeaders, HandleBlocks

LEMMA HeapInductive == Types /\ StateInv /\ HeapInv /\ [Next]_vars => HeapInv'
<1> SUFFICES ASSUME Types, StateInv, HeapInv, [Next]_vars
             PROVE  HeapInv'
  OBVIOUS
<1>n. NumHeaders \in Nat /\ HandleBlocks \in Nat /\ r.blocks \in Nat /\ lost \in Nat
  BY CountsAreNat
<1>u. UNCHANGED <<list, curl>> => NumHeaders' = NumHeaders /\ HandleBlocks' = HandleBlocks
  BY DEF NumHeaders, HandleBlocks
<1>1. CASE Enter
  <2>1. /\ pc = "enter" /\ pc' = "headers" /\ UNCHANGED <<list, curl, heap, lost>>
        /\ r'.blocks = 0
    BY <1>1 DEF Enter, Zeroed, transfer
  <2>2. NumHeaders = 0 /\ HandleBlocks = 0
    BY <2>1 DEF HeapInv, NumHeaders, HandleBlocks
  <2> QED BY <2>1, <2>2, <1>u DEF HeapInv
<1>2. CASE AppendHeader
  <2>1. /\ pc = "headers" /\ pc' = "headers" /\ heap' = heap + 1
        /\ next \in 1 .. Len(Headers) /\ list' = Append(list, Headers[next])
        /\ UNCHANGED <<curl, r, lost>>
    BY <1>2, TablesAreSequences DEF AppendHeader, HeadersLeft, Types, transfer
  <2>2. NumHeaders' = NumHeaders + 1
    <3>1. Headers[next] \in Fields /\ list \in Seq(Fields)
      BY <2>1, TablesAreSequences, ElementOfSeq DEF Types
    <3> QED BY <2>1, <3>1, AppendProperties DEF NumHeaders
  <2>3. HandleBlocks' = HandleBlocks
    BY <2>1 DEF HandleBlocks
  <2>4. heap' = NumHeaders' + HandleBlocks' + r'.blocks + lost'
    <3>1. heap = NumHeaders + HandleBlocks + r.blocks + lost
      BY <2>1 DEF HeapInv
    <3> QED BY <3>1, <2>1, <2>2, <2>3, <1>n
  <2> QED BY <2>1, <2>4 DEF HeapInv
<1>3. CASE OpenHandle
  <2>1. /\ pc = "headers" /\ pc' = "setopt" /\ heap' = heap + 1 /\ curl' = "open"
        /\ UNCHANGED <<list, r, lost>>
    BY <1>3 DEF OpenHandle, transfer
  <2>2. HandleBlocks = 0 /\ HandleBlocks' = 1 /\ NumHeaders' = NumHeaders
    BY <2>1 DEF HeapInv, HandleBlocks, NumHeaders
  <2>3. heap' = NumHeaders' + HandleBlocks' + r'.blocks + lost'
    <3>1. heap = NumHeaders + HandleBlocks + r.blocks + lost
      BY <2>1 DEF HeapInv
    <3> QED BY <3>1, <2>1, <2>2, <1>n
  <2> QED BY <2>1, <2>3 DEF HeapInv
<1>4. CASE SkipHeader \/ AppendFails \/ NoHandle \/ SkipOption \/ SetOption \/ OptionFails \/ Perform
  <2>1. /\ pc \in {"headers", "setopt"} /\ pc' \in {"headers", "setopt", "perform", "cleanup"}
        /\ pc' = "headers" => pc = "headers"
        /\ UNCHANGED <<list, curl, r, heap, lost>>
    BY <1>4 DEF SkipHeader, AppendFails, NoHandle, SkipOption, SetOption, OptionFails, Perform,
                AtOption, transfer
  <2> QED BY <2>1, <1>u DEF HeapInv
<1>5. CASE \E n \in ChunkSizes : Receive(n) \/ NoMemory(n) \/ EmptyAgain(n)
  <2>1. PICK n \in ChunkSizes : Receive(n) \/ NoMemory(n) \/ EmptyAgain(n)
    BY <1>5
  <2>2. /\ pc = "perform" /\ pc' \in {"perform", "refused"} /\ UNCHANGED <<list, curl>>
        /\ \/ r'.blocks = 1 /\ heap' = heap + 1 - r.blocks /\ lost' = lost
           \/ /\ r'.blocks = 0
              /\ \/ heap' = heap /\ lost' = lost + r.blocks
                 \/ heap' = heap - 1 /\ r.blocks = 1 /\ lost' = lost
    BY <2>1, ChunkEffects
  <2>3. heap = NumHeaders + HandleBlocks + r.blocks + lost
    BY <2>2 DEF HeapInv
  <2>4. heap' = NumHeaders + HandleBlocks + r'.blocks + lost'
    BY <2>2, <2>3, <1>n
  <2> QED BY <2>2, <2>4, <1>u DEF HeapInv
<1>6. CASE PerformOk \/ PerformFails \/ Asking
  <2>1. /\ pc \in {"perform", "refused", "getinfo"} /\ pc' \in {"getinfo", "cleanup"}
        /\ UNCHANGED <<list, curl, heap>>
    BY <1>6 DEF PerformOk, PerformFails, Asking, GetInfo, InfoFails, AtInfo, Complete
  <2>2. r'.blocks = r.blocks /\ lost' = lost
    BY <1>6, PayloadKept DEF Same
  <2> QED BY <2>1, <2>2, <1>u DEF HeapInv
<1>7. CASE Cleanup
  <2>1. /\ pc = "cleanup" /\ pc' = "done" /\ heap' = heap - (NumHeaders + HandleBlocks)
    BY <1>7 DEF Cleanup, CleanedUp, NumHeaders
  <2>2. r'.blocks = r.blocks /\ lost' = lost
    BY <1>7, PayloadKept DEF Same
  <2>3. heap = NumHeaders + HandleBlocks + r.blocks + lost
    BY <2>1 DEF HeapInv
  <2>4. heap' = r.blocks + lost
    BY <2>1, <2>3, <1>n
  <2> QED BY <2>1, <2>2, <2>4 DEF HeapInv
<1>8. CASE Release
  <2>1. pc = "done" /\ pc' = "released" /\ heap' = heap - r.blocks /\ lost' = lost
    BY <1>8 DEF Release, transfer
  <2>2. heap' = lost
    BY <2>1, <1>n DEF HeapInv
  <2> QED BY <2>1, <2>2 DEF HeapInv
<1>9. CASE UNCHANGED vars
  BY <1>9, <1>u DEF vars, HeapInv
<1> QED
  BY <1>1, <1>2, <1>3, <1>4, <1>5, <1>6, <1>7, <1>8, <1>9, NextByPhases DEF Preparing

LEMMA HeapInitially == Init => HeapInv
BY DEF Init, HeapInv

LEMMA HeapInvariant == Spec => [](Types /\ HeapInv)
<1>1. Init => Types /\ StateInv /\ HeapInv
  BY TypesInitially, StateInitially, HeapInitially
<1>2. Types /\ StateInv /\ HeapInv /\ [Next]_vars => (Types /\ StateInv /\ HeapInv)'
  BY TypesInductive, StateInductive, HeapInductive
<1> QED BY <1>1, <1>2, PTL DEF Spec

(* Whichever call fails, the list and the handle are released and the payload *)
(* is the caller's to free; only a failed realloc leaves a block behind.      *)
THEOREM NothingElseEverLeaks == Spec => []NothingElseLeaks
<1>1. HeapInv => NothingElseLeaks
  BY DEF HeapInv, NothingElseLeaks
<1> QED BY <1>1, HeapInvariant, PTL

(* Every variable stays in its type; nothing is freed that was not allocated. *)
THEOREM TypeCorrect == Spec => []TypeOK
<1>1. Types /\ HeapInv => TypeOK
  <2> SUFFICES ASSUME Types, HeapInv
               PROVE  heap \in Nat
    BY DEF TypeOK
  <2>1. NumHeaders \in Nat /\ HandleBlocks \in Nat /\ r.blocks \in Nat /\ lost \in Nat
    BY CountsAreNat
  <2> QED BY <2>1 DEF HeapInv, Types
<1> QED BY <1>1, HeapInvariant, PTL

-----------------------------------------------------------------------------
(* The headers so far are those of the fields passed; so are the options.     *)
Sent == {list[j] : j \in DOMAIN list}

Distinct == \A j, k \in DOMAIN list : list[j] = list[k] => j = k

RequestInv ==
  /\ pc = "enter" => list = <<>> /\ set = {} /\ next = 1
  /\ pc = "headers" =>
       /\ set = {} /\ next <= 13 /\ Distinct
       /\ \A h : h \in Sent <=> h \in in /\ \E k \in 1 .. 12 : k < next /\ h = Headers[k]
  /\ pc \in {"setopt", "perform", "refused", "getinfo"} =>
       /\ Distinct
       /\ \A h : h \in Sent <=> h \in in /\ \E k \in 1 .. 12 : h = Headers[k]
  /\ pc = "setopt" => set = {k \in DOMAIN Options : k < next /\ Needed(k)}
  /\ pc \in {"perform", "refused", "getinfo"} => set = {k \in DOMAIN Options : Needed(k)}

LEMMA HeadersAreDistinct ==
  ASSUME NEW j \in 1 .. 12, NEW k \in 1 .. 12, Headers[j] = Headers[k]
  PROVE  j = k
BY DEF Headers

LEMMA RequestInductive == Types /\ RequestInv /\ [Next]_vars => RequestInv'
<1> SUFFICES ASSUME Types, RequestInv, [Next]_vars
             PROVE  RequestInv'
  OBVIOUS
<1>u. /\ UNCHANGED list => Sent' = Sent /\ Distinct' = Distinct
      /\ UNCHANGED in => \A k : Needed(k)' = Needed(k)
  BY DEF Sent, Distinct, Needed
<1>1. CASE Enter
  <2>1. /\ pc = "enter" /\ pc' = "headers" /\ UNCHANGED <<list, set, next, in>>
    BY <1>1 DEF Enter
  <2>2. Sent = {} /\ Distinct
    BY <2>1 DEF RequestInv, Sent, Distinct
  <2>3. next = 1 /\ set = {}
    BY <2>1 DEF RequestInv
  <2> QED BY <2>1, <2>2, <2>3, <1>u DEF RequestInv
<1>2. CASE SkipHeader
  <2>1. /\ pc = "headers" /\ pc' = "headers" /\ UNCHANGED <<list, set, in>> /\ next' = next + 1
        /\ next \in 1 .. 12 /\ Headers[next] \notin in
    BY <1>2, TablesAreSequences DEF SkipHeader, HeadersLeft, Types
  <2>2. \A k \in 1 .. 12 : k < next + 1 <=> k < next \/ k = next
    BY <2>1
  <2> QED BY <2>1, <2>2, <1>u DEF RequestInv
<1>3. CASE AppendHeader
  <2>1. /\ pc = "headers" /\ pc' = "headers" /\ UNCHANGED <<set, in>> /\ next' = next + 1
        /\ next \in 1 .. 12 /\ Headers[next] \in in
        /\ list' = Append(list, Headers[next])
    BY <1>3, TablesAreSequences DEF AppendHeader, HeadersLeft, Types
  <2>2. Headers[next] \in Fields /\ list \in Seq(Fields)
    BY <2>1, TablesAreSequences, ElementOfSeq DEF Types
  <2>3. /\ list' \in Seq(Fields) /\ Len(list') = Len(list) + 1 /\ Len(list) \in Nat
        /\ \A j \in 1 .. Len(list) : list'[j] = list[j]
        /\ list'[Len(list) + 1] = Headers[next]
    BY <2>1, <2>2, AppendProperties
  <2>4. DOMAIN list = 1 .. Len(list) /\ DOMAIN list' = 1 .. Len(list) + 1
    BY <2>2, <2>3
  <2>5. Sent' = Sent \union {Headers[next]}
    <3>1. \A j \in 1 .. Len(list) + 1 : j \in 1 .. Len(list) \/ j = Len(list) + 1
      BY <2>3
    <3>2. 1 .. Len(list) \subseteq 1 .. Len(list) + 1 /\ Len(list) + 1 \in 1 .. Len(list) + 1
      BY <2>3
    <3> QED BY <2>3, <2>4, <3>1, <3>2 DEF Sent
  <2>6. Headers[next] \notin Sent
    <3> SUFFICES ASSUME Headers[next] \in Sent
                 PROVE  FALSE
      OBVIOUS
    <3>1. PICK k \in 1 .. 12 : k < next /\ Headers[next] = Headers[k]
      BY <2>1 DEF RequestInv
    <3>2. k = next
      BY <3>1, <2>1, HeadersAreDistinct
    <3> QED BY <3>1, <3>2, <2>1
  <2>7. Distinct'
    <3> SUFFICES ASSUME NEW j \in 1 .. Len(list) + 1, NEW k \in 1 .. Len(list) + 1,
                        list'[j] = list'[k]
                 PROVE  j = k
      BY <2>4 DEF Distinct
    <3>1. CASE j \in 1 .. Len(list) /\ k \in 1 .. Len(list)
      BY <3>1, <2>1, <2>3, <2>4 DEF RequestInv, Distinct
    <3>2. CASE j = Len(list) + 1 /\ k \in 1 .. Len(list)
      BY <3>2, <2>3, <2>4, <2>6 DEF Sent
    <3>3. CASE j \in 1 .. Len(list) /\ k = Len(list) + 1
      BY <3>3, <2>3, <2>4, <2>6 DEF Sent
    <3>4. CASE j = Len(list) + 1 /\ k = Len(list) + 1
      BY <3>4
    <3> QED BY <3>1, <3>2, <3>3, <3>4, <2>3
  <2>8. \A k \in 1 .. 12 : k < next + 1 <=> k < next \/ k = next
    BY <2>1
  <2>9. \A h : h \in Sent' <=> h \in in /\ \E k \in 1 .. 12 : k < next + 1 /\ h = Headers[k]
    BY <2>1, <2>5, <2>8 DEF RequestInv
  <2> QED BY <2>1, <2>7, <2>9 DEF RequestInv
<1>4. CASE OpenHandle
  <2>1. /\ pc = "headers" /\ pc' = "setopt" /\ UNCHANGED <<list, set, in>> /\ next' = 1
        /\ next > 12 /\ next \in Nat
    BY <1>4, TablesAreSequences DEF OpenHandle, HeadersLeft, Types
  <2>2. \A k \in 1 .. 12 : k < next
    BY <2>1
  <2>3. {k \in DOMAIN Options : k < 1 /\ Needed(k)'} = {}
    BY TablesAreSequences
  <2>4. set = {}
    BY <2>1 DEF RequestInv
  <2> QED BY <2>1, <2>2, <2>3, <2>4, <1>u DEF RequestInv
<1>5. CASE SkipOption \/ SetOption
  <2>1. /\ pc = "setopt" /\ pc' = "setopt" /\ UNCHANGED <<list, in>> /\ next' = next + 1
        /\ next \in DOMAIN Options /\ next \in Nat
        /\ set' = IF Needed(next) THEN set \union {next} ELSE set
    BY <1>5, TablesAreSequences DEF SkipOption, SetOption, AtOption, Types
  <2>2. \A k \in DOMAIN Options : k < next + 1 <=> k < next \/ k = next
    <3>1. next \in Int /\ \A k \in DOMAIN Options : k \in Int
      BY <2>1, TablesAreSequences
    <3>2. \A k \in Int : k < next + 1 <=> k < next \/ k = next
      BY <3>1
    <3> QED BY <3>1, <3>2
  <2>3. set = {k \in DOMAIN Options : k < next /\ Needed(k)}
    BY <2>1 DEF RequestInv
  <2>4. ASSUME NEW k
        PROVE  k \in set' <=> k \in DOMAIN Options /\ k < next + 1 /\ Needed(k)
    <3>1. k \in set' <=> k \in set \/ (k = next /\ Needed(next))
      BY <2>1
    <3>2. k \in set <=> k \in DOMAIN Options /\ k < next /\ Needed(k)
      BY <2>3
    <3> QED BY <2>1, <2>2, <3>1, <3>2
  <2>5. set' = {k \in DOMAIN Options : k < next + 1 /\ Needed(k)}
    BY <2>4
  <2> QED BY <2>1, <2>5, <1>u DEF RequestInv
<1>6. CASE Perform
  <2>1. /\ pc = "setopt" /\ pc' = "perform" /\ UNCHANGED <<list, set, in>>
        /\ \A k \in DOMAIN Options : k < next
    BY <1>6, TablesAreSequences DEF Perform, Types
  <2> QED BY <2>1, <1>u DEF RequestInv
<1>7. CASE \E n \in ChunkSizes : Receive(n) \/ NoMemory(n) \/ EmptyAgain(n)
  <2>1. pc = "perform" /\ pc' \in {"perform", "refused"} /\ UNCHANGED <<list, set, in>>
    BY <1>7, ChunkEffects
  <2> QED BY <2>1, <1>u DEF RequestInv
<1>8. CASE PerformOk \/ GetInfo
  <2>1. pc \in {"perform", "getinfo"} /\ pc' = "getinfo" /\ UNCHANGED <<list, set, in>>
    BY <1>8 DEF PerformOk, GetInfo, AtInfo
  <2> QED BY <2>1, <1>u DEF RequestInv
<1>9. CASE \/ AppendFails \/ NoHandle \/ OptionFails \/ PerformFails \/ InfoFails \/ Complete
           \/ Cleanup \/ Release
  <2>1. pc' \in {"cleanup", "done", "released"}
    BY <1>9 DEF AppendFails, NoHandle, OptionFails, PerformFails, InfoFails, Complete,
                Cleanup, Release
  <2> QED BY <2>1 DEF RequestInv
<1>10. CASE UNCHANGED vars
  <2>1. UNCHANGED <<pc, next, list, set, in>>
    BY <1>10 DEF vars
  <2> QED BY <2>1, <1>u DEF RequestInv
<1> QED
  BY <1>1, <1>2, <1>3, <1>4, <1>5, <1>6, <1>7, <1>8, <1>9, <1>10,
     NextByPhases DEF Preparing, Asking

LEMMA RequestInitially == Init => RequestInv
BY DEF Init, RequestInv

(* Nothing is sent to the server unless all headers and all options are as    *)
(* the request gives them, for every request: a failure on the way never      *)
(* leads to a request without, say, the peer's verification.                  *)
THEOREM RequestAlwaysComplete == Spec => []RequestIsComplete
<1>1. Init => Types /\ RequestInv
  BY TypesInitially, RequestInitially
<1>2. Types /\ RequestInv /\ [Next]_vars => (Types /\ RequestInv)'
  BY TypesInductive, RequestInductive
<1>3. RequestInv => RequestIsComplete
  <2>1. DOMAIN Headers = 1 .. 12
    BY TablesAreSequences
  <2> QED BY <2>1 DEF RequestInv, RequestIsComplete, Sent, Distinct
<1> QED BY <1>1, <1>2, <1>3, PTL DEF Spec
=============================================================================
