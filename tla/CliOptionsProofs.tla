-------------------------- MODULE CliOptionsProofs --------------------------
(***************************************************************************)
(* Theorems about the option loops of the examples, for command lines of   *)
(* any length over any words: the loop takes each as its table says.  The  *)
(* arguments the table looks at are the least set closed under stepping    *)
(* over an option and its value, so no induction on the line is needed:    *)
(* the loop's own invariant carries the argument.                          *)
(***************************************************************************)
EXTENDS CliOptions, SequenceTheorems, TLAPS

Rows == RowsOf(client)

Kinds == {"flag", "text", "number", "own", "skip", "help"}

(* What holds of every row of the two tables: among other things that an      *)
(* option takes a value of its field's kind.                                  *)
LEMMA RowFacts ==
  ASSUME NEW r \in Rows
  PROVE  /\ r.kind \in Kinds
         /\ r.field = "none" <=> r.kind \in {"skip", "help"}
         /\ r.field \in NumberFields <=> r.kind \in {"number", "own"}
         /\ r.field \in FlagFields <=> r.kind = "flag"
         /\ r.field \notin {"url", "fqdn"}
<1>1. CASE r \in AuthFetchRows
  BY <1>1 DEF AuthFetchRows, Row, Kinds, NumberFields, FlagFields
<1>2. CASE r \in DnsTokenRows
  BY <1>2 DEF DnsTokenRows, Row, Kinds, NumberFields, FlagFields
<1> QED BY <1>1, <1>2 DEF Rows, RowsOf

(* The kind of a word, and the row it comes from.                             *)
LEMMA WordKinds ==
  ASSUME NEW w
  PROVE  /\ KindFor(Rows, w) \in Kinds \union {"operand"}
         /\ KindFor(Rows, w) = "operand" <=> ~IsOption(Rows, w)
         /\ IsOption(Rows, w) => /\ RowFor(Rows, w) \in Rows
                                 /\ KindFor(Rows, w) = RowFor(Rows, w).kind
<1>1. IsOption(Rows, w) => RowFor(Rows, w) \in Rows
  BY DEF IsOption, RowFor
<1>2. IsOption(Rows, w) => RowFor(Rows, w).kind \in Kinds
  BY <1>1, RowFacts
<1>3. "operand" \notin Kinds
  BY DEF Kinds
<1> QED BY <1>1, <1>2, <1>3 DEF KindFor

LEMMA WidthIs ==
  ASSUME NEW w
  PROVE  /\ KindFor(Rows, w) \in {"flag", "own"} => Width(Rows, w) = 1
         /\ KindFor(Rows, w) \in {"text", "number", "skip"} => Width(Rows, w) = 2
         /\ KindFor(Rows, w) \in {"help", "operand"} => Width(Rows, w) = 0
         /\ Width(Rows, w) \in {0, 1, 2}
BY DEF Width

(* Only an option that takes no value, and the operand, set no further than   *)
(* the field of their own.                                                    *)
LEMMA FieldFacts ==
  ASSUME NEW k
  PROVE  /\ KindFor(Rows, argv[k]) \in {"skip", "help"} => FieldOf(Rows, k) = "none"
         /\ KindFor(Rows, argv[k]) \in {"flag", "text", "number", "own"} =>
              /\ FieldOf(Rows, k) = RowFor(Rows, argv[k]).field
              /\ FieldOf(Rows, k) # "none"
         /\ KindFor(Rows, argv[k]) = "operand" =>
              /\ FieldOf(Rows, k) = OperandOf(client)
              /\ FieldOf(Rows, k) # "none"
<1> DEFINE w == argv[k]
<1>1. CASE IsOption(Rows, w)
  <2>1. /\ RowFor(Rows, w) \in Rows
        /\ KindFor(Rows, w) = RowFor(Rows, w).kind /\ KindFor(Rows, w) # "operand"
    BY <1>1, WordKinds
  <2>2. FieldOf(Rows, k) = RowFor(Rows, w).field
    BY <1>1 DEF FieldOf
  <2> QED BY <2>1, <2>2, RowFacts
<1>2. CASE ~IsOption(Rows, w)
  <2>1. KindFor(Rows, w) = "operand"
    BY <1>2, WordKinds
  <2>2. FieldOf(Rows, k) = OperandOf(client)
    BY <1>2 DEF FieldOf
  <2> QED BY <2>1, <2>2 DEF OperandOf
<1> QED BY <1>1, <1>2

-----------------------------------------------------------------------------
(* The least set that holds the first argument and what follows an option.    *)
Looked == LookedAt(Rows)

LEMMA LookedIsClosed == Looked \subseteq DOMAIN argv /\ (argv \in Seq(Words) => Closed(Rows, Looked))
<1>1. Looked \subseteq DOMAIN argv
  BY DEF Looked, LookedAt
<1>2. ASSUME argv \in Seq(Words)
      PROVE  Closed(Rows, Looked)
  <2>0. DOMAIN argv = 1 .. Len(argv) /\ Len(argv) \in Nat
    BY <1>2
  <2>1. argv # <<>> => 1 \in DOMAIN argv
    BY <1>2, <2>0, EmptySeq
  <2>2. argv # <<>> => 1 \in Looked
    BY <2>1 DEF Looked, LookedAt, Closed
  <2>3. ASSUME NEW k \in Looked, Width(Rows, argv[k]) > 0, Behind(Rows, k) <= Len(argv)
        PROVE  Behind(Rows, k) \in Looked
    <3>1. Behind(Rows, k) \in DOMAIN argv
      BY <1>1, <2>0, <2>3, WidthIs DEF Behind
    <3>2. ASSUME NEW K \in SUBSET DOMAIN argv, Closed(Rows, K)
          PROVE  Behind(Rows, k) \in K
      <4>1. k \in K
        BY <3>2 DEF Looked, LookedAt
      <4> QED BY <3>2, <4>1, <2>3 DEF Closed
    <3> QED BY <3>1, <3>2 DEF Looked, LookedAt
  <2> QED BY <2>2, <2>3 DEF Closed
<1> QED BY <1>1, <1>2

LEMMA LookedIsLeast ==
  ASSUME NEW K \in SUBSET DOMAIN argv, Closed(Rows, K)
  PROVE  Looked \subseteq K
BY DEF Looked, LookedAt

(* What the loop has behind it, and that no option behind it reaches further. *)
Before == {k \in Looked : k < i}

Reached == /\ i <= Len(argv) => i \in Looked
           /\ \A k \in Before : Width(Rows, argv[k]) > 0 /\ Behind(Rows, k) <= i

AtArgument == i \in 1 .. Len(argv) /\ argv \in Seq(Words) /\ Reached

(* Nothing lies between an option and what is behind its value.               *)
LEMMA NothingBetween ==
  ASSUME AtArgument
  PROVE  {k \in Looked : k < Behind(Rows, i)} \subseteq Before \union {i}
<1> DEFINE w == Width(Rows, argv[i])
<1>0. DOMAIN argv = 1 .. Len(argv) /\ Len(argv) \in Nat /\ i \in Nat
  BY DEF AtArgument
<1>1. w \in {0, 1, 2} /\ Behind(Rows, i) = i + w
  BY WidthIs DEF Behind
<1>2. Looked \subseteq 1 .. Len(argv) /\ Closed(Rows, Looked) /\ i \in Looked
  BY <1>0, LookedIsClosed DEF AtArgument, Reached
<1> HIDE DEF w
<1>3. CASE w \in {0, 1}
  <2>1. ASSUME NEW k \in Looked, k < Behind(Rows, i)
        PROVE  k < i \/ k = i
    BY <2>1, <1>0, <1>1, <1>2, <1>3
  <2> QED BY <2>1 DEF Before
<1>4. CASE w = 2
  <2> DEFINE K == Looked \ {i + 1}
  <2>1. ASSUME NEW k \in K, Width(Rows, argv[k]) > 0, Behind(Rows, k) <= Len(argv)
        PROVE  Behind(Rows, k) \in K
    <3>1. Behind(Rows, k) \in Looked
      BY <2>1, <1>2 DEF Closed
    <3>2. k \in Nat /\ Width(Rows, argv[k]) \in Nat /\ Behind(Rows, k) = k + Width(Rows, argv[k])
      BY <2>1, <1>2, WidthIs DEF Behind
    <3>3. CASE k < i
      <4>1. Behind(Rows, k) <= i
        BY <3>3, <2>1 DEF AtArgument, Reached, Before
      <4> QED BY <3>1, <3>2, <4>1, <1>0
    <3>4. CASE k = i
      BY <3>1, <3>4, <1>0, <1>1, <1>4
    <3>5. CASE k > i
      <4>1. k > i + 1
        BY <3>2, <3>5, <2>1, <1>0
      <4> QED BY <3>1, <3>2, <4>1, <1>0
    <3> QED BY <3>2, <3>3, <3>4, <3>5, <1>0
  <2>2. 1 \in Looked => 1 \in K
    BY <1>0 DEF AtArgument
  <2>3. Closed(Rows, K)
    BY <2>1, <2>2, <1>2 DEF Closed
  <2>4. K \in SUBSET DOMAIN argv
    BY <1>0, <1>2
  <2>5. Looked \subseteq K
    BY <2>3, <2>4, LookedIsLeast
  <2>6. ASSUME NEW k \in Looked, k < Behind(Rows, i)
        PROVE  k < i \/ k = i
    <3>1. k # i + 1 /\ k \in Nat
      BY <2>5, <1>2
    <3> QED BY <3>1, <2>6, <1>0, <1>1, <1>4
  <2> QED BY <2>6 DEF Before
<1> QED BY <1>1, <1>3, <1>4

LEMMA LookedUpToNext ==
  ASSUME AtArgument, Width(Rows, argv[i]) > 0
  PROVE  /\ {k \in Looked : k < Behind(Rows, i)} = Before \union {i}
         /\ Behind(Rows, i) <= Len(argv) => Behind(Rows, i) \in Looked
         /\ \A k \in Before \union {i} :
              Width(Rows, argv[k]) > 0 /\ Behind(Rows, k) <= Behind(Rows, i)
<1>0. DOMAIN argv = 1 .. Len(argv) /\ Len(argv) \in Nat /\ i \in Nat
  BY DEF AtArgument
<1>1. Looked \subseteq 1 .. Len(argv) /\ Closed(Rows, Looked) /\ i \in Looked
  BY <1>0, LookedIsClosed DEF AtArgument, Reached
<1>2. Behind(Rows, i) \in Nat /\ i < Behind(Rows, i)
  BY <1>0, WidthIs DEF Behind
<1>3. Before \union {i} \subseteq {k \in Looked : k < Behind(Rows, i)}
  <2>1. ASSUME NEW k \in Before
        PROVE  k \in Looked /\ k < Behind(Rows, i)
    <3>1. k \in Looked /\ k \in Nat /\ k < i
      BY <1>1 DEF Before
    <3> QED BY <3>1, <1>0, <1>2
  <2> QED BY <2>1, <1>1, <1>2
<1>4. ASSUME NEW k \in Before
      PROVE  Width(Rows, argv[k]) > 0 /\ Behind(Rows, k) <= Behind(Rows, i)
  <2>1. Width(Rows, argv[k]) > 0 /\ Behind(Rows, k) <= i
    BY DEF AtArgument, Reached
  <2>2. Behind(Rows, k) \in Nat
    BY <1>1, WidthIs DEF Behind, Before
  <2> QED BY <2>1, <2>2, <1>0, <1>2
<1>5. {k \in Looked : k < Behind(Rows, i)} = Before \union {i}
  BY <1>3, NothingBetween
<1>6. Behind(Rows, i) <= Len(argv) => Behind(Rows, i) \in Looked
  BY <1>1 DEF Closed
<1>7. Width(Rows, argv[i]) > 0 /\ Behind(Rows, i) <= Behind(Rows, i)
  BY <1>2
<1> QED BY <1>4, <1>5, <1>6, <1>7

(* An operand ends the search.                                                *)
LEMMA LookedUpToOperand ==
  ASSUME AtArgument, Width(Rows, argv[i]) = 0
  PROVE  Looked = Before \union {i}
<1>0. DOMAIN argv = 1 .. Len(argv) /\ Len(argv) \in Nat /\ i \in Nat
  BY DEF AtArgument
<1>1. Looked \subseteq 1 .. Len(argv) /\ Closed(Rows, Looked) /\ i \in Looked
  BY <1>0, LookedIsClosed DEF AtArgument, Reached
<1> DEFINE K == {k \in Looked : k <= i}
<1>2. ASSUME NEW k \in K, Width(Rows, argv[k]) > 0, Behind(Rows, k) <= Len(argv)
      PROVE  Behind(Rows, k) \in K
  <2>1. Behind(Rows, k) \in Looked
    BY <1>1, <1>2 DEF Closed
  <2>2. k < i
    BY <1>0, <1>1, <1>2
  <2>3. Behind(Rows, k) <= i
    BY <2>2, <1>2 DEF AtArgument, Reached, Before
  <2> QED BY <2>1, <2>3
<1>3. 1 \in Looked => 1 \in K
  BY DEF AtArgument
<1>4. Closed(Rows, K)
  BY <1>1, <1>2, <1>3 DEF Closed
<1>5. K \in SUBSET DOMAIN argv
  BY <1>0, <1>1
<1>6. Looked \subseteq K
  BY <1>4, <1>5, LookedIsLeast
<1>7. \A k \in Looked : k < i \/ k = i
  BY <1>0, <1>1, <1>6
<1> QED BY <1>1, <1>7 DEF Before

-----------------------------------------------------------------------------
(* A setting behind all others decides on its field, and on no other.         *)
LEMMA LastIsNew ==
  ASSUME NEW k \in Nat, NEW K, \A j \in K : j \in Nat /\ j < k
  PROVE  LastSetting(Rows, K \union {k}, FieldOf(Rows, k)) = k
<1> DEFINE S == Setting(Rows, K \union {k}, FieldOf(Rows, k))
<1>1. k \in S /\ \A j \in S : j \in Nat /\ j <= k
  BY DEF Setting
<1>2. LastSetting(Rows, K \union {k}, FieldOf(Rows, k)) = CHOOSE c \in S : \A j \in S : j <= c
  BY DEF LastSetting
<1> HIDE DEF S
<1>3. ASSUME NEW c \in S, \A j \in S : j <= c
      PROVE  c = k
  BY <1>1, <1>3
<1> QED BY <1>1, <1>2, <1>3

LEMMA LastIsKept ==
  ASSUME NEW k, NEW K, NEW f, f # FieldOf(Rows, k)
  PROVE  LastSetting(Rows, K \union {k}, f) = LastSetting(Rows, K, f)
<1>1. Setting(Rows, K \union {k}, f) = Setting(Rows, K, f)
  BY DEF Setting
<1> QED BY <1>1 DEF LastSetting

LEMMA OneMoreGiven ==
  ASSUME NEW k \in Nat, NEW K, \A j \in K : j \in Nat /\ j < k
  PROVE  /\ FieldOf(Rows, k) = "none" => GivenBy(Rows, K \union {k}) = GivenBy(Rows, K)
         /\ FieldOf(Rows, k) # "none" =>
              GivenBy(Rows, K \union {k}) =
                [x \in DOMAIN GivenBy(Rows, K) \union {FieldOf(Rows, k)} |->
                   IF x = FieldOf(Rows, k) THEN ValueOf(Rows, k) ELSE GivenBy(Rows, K)[x]]
<1> DEFINE F == FieldOf(Rows, k)
<1>1. LastSetting(Rows, K \union {k}, F) = k
  BY LastIsNew
<1>2. \A f : f # F => LastSetting(Rows, K \union {k}, f) = LastSetting(Rows, K, f)
  BY LastIsKept
<1> DEFINE D == {FieldOf(Rows, j) : j \in K} \ {"none"}
<1>3. {FieldOf(Rows, j) : j \in K \union {k}} \ {"none"} = D \union ({F} \ {"none"})
  OBVIOUS
<1>4. GivenBy(Rows, K) = [f \in D |-> ValueOf(Rows, LastSetting(Rows, K, f))]
  BY DEF GivenBy
<1>5. GivenBy(Rows, K \union {k}) =
        [f \in D \union ({F} \ {"none"}) |-> ValueOf(Rows, LastSetting(Rows, K \union {k}, f))]
  BY <1>3 DEF GivenBy
<1>6. "none" \notin D
  OBVIOUS
<1> HIDE DEF D, F
<1>7. CASE F = "none"
  BY <1>2, <1>4, <1>5, <1>6, <1>7 DEF F
<1>8. CASE F # "none"
  <2>1. D \union ({F} \ {"none"}) = D \union {F}
    BY <1>8
  <2> QED BY <1>1, <1>2, <1>4, <1>5, <1>8, <2>1 DEF F
<1> QED BY <1>7, <1>8

-----------------------------------------------------------------------------
Shape == /\ client \in Clients
         /\ argv \in Seq(Words) /\ Len(argv) <= MaxArgs
         /\ i \in 1 .. MaxArgs + 2
         /\ DOMAIN given \subseteq Fields
         /\ \A f \in DOMAIN given : given[f] \in ValuesOf(f)
         /\ payload \in {"none", "held", "freed"}
         /\ outcome \in {"parsing", "parsed", "answered", "exit", "usage", "crash"}

LoopInv == /\ outcome = "parsing" => Reached /\ given = GivenBy(Rows, Before)
           /\ ParsedAsTabled

(* What a round of the loop finds at its argument.                            *)
LEMMA WhatIsHere ==
  ASSUME Shape, LoopInv, NEW kinds, Here(kinds)
  PROVE  /\ AtArgument /\ i \in Nat
         /\ KindFor(Rows, argv[i]) \in kinds
         /\ given = GivenBy(Rows, Before)
         /\ \A j \in Before : j \in Nat /\ j < i
         /\ i \in Looked /\ argv[i] \in Words
<1>1. /\ i \in 1 .. Len(argv) /\ argv \in Seq(Words)
      /\ KindFor(Rows, argv[i]) \in kinds
      /\ outcome = "parsing"
  BY DEF Here, Shape, Rows
<1>2. Reached /\ given = GivenBy(Rows, Before)
  BY <1>1 DEF LoopInv
<1>3. DOMAIN argv = 1 .. Len(argv) /\ Len(argv) \in Nat
  BY <1>1
<1>4. \A j \in Before : j \in Nat /\ j < i
  BY <1>3, LookedIsClosed DEF Before
<1>5. argv[i] \in Words
  BY <1>1, ElementOfSeq
<1>6. i \in Looked
  BY <1>1, <1>2, <1>3 DEF Reached
<1> QED BY <1>1, <1>2, <1>4, <1>5, <1>6 DEF AtArgument

(* The line and the program stay, and with them what the table says of both.  *)
LEMMA LineKept ==
  ASSUME UNCHANGED <<client, argv>>
  PROVE  /\ Rows' = Rows /\ Looked' = Looked
         /\ \A K : GivenBy(Rows, K)' = GivenBy(Rows, K)
         /\ \A k : Behind(Rows, k)' = Behind(Rows, k)
         /\ \A w : KindFor(Rows, w)' = KindFor(Rows, w) /\ Width(Rows, w)' = Width(Rows, w)
<1>1. Rows' = Rows
  BY DEF Rows, RowsOf
<1>2. \A w : KindFor(Rows, w)' = KindFor(Rows, w) /\ Width(Rows, w)' = Width(Rows, w)
  BY <1>1 DEF KindFor, IsOption, RowFor, Width
<1>3. \A k : Behind(Rows, k)' = Behind(Rows, k)
  BY <1>1, <1>2 DEF Behind
<1>4. \A K : Closed(Rows, K)' <=> Closed(Rows, K)
  BY <1>1, <1>2, <1>3 DEF Closed
<1>5. Looked' = Looked
  BY <1>1, <1>4 DEF Looked, LookedAt
<1>6. \A k : FieldOf(Rows, k)' = FieldOf(Rows, k) /\ ValueOf(Rows, k)' = ValueOf(Rows, k)
  BY <1>1, <1>2 DEF FieldOf, ValueOf, IsOption, RowFor, OperandOf, Argument
<1>7. \A K, f : LastSetting(Rows, K, f)' = LastSetting(Rows, K, f)
  BY <1>1, <1>6 DEF LastSetting, Setting
<1>8. \A K : GivenBy(Rows, K)' = GivenBy(Rows, K)
  BY <1>1, <1>6, <1>7 DEF GivenBy
<1> QED BY <1>1, <1>2, <1>3, <1>5, <1>8

(* A round that steps over an option keeps what the loop has reached.         *)
LEMMA RoundReaches ==
  ASSUME Shape, LoopInv, Here({"flag", "text", "number", "own", "skip"}),
         UNCHANGED <<client, argv>>, i' = Behind(Rows, i),
         given' = GivenBy(Rows, Before \union {i})
  PROVE  Reached' /\ given' = GivenBy(Rows, Before)'
<1>1. /\ AtArgument /\ i \in Nat
      /\ KindFor(Rows, argv[i]) \in {"flag", "text", "number", "own", "skip"}
  BY WhatIsHere
<1>2. Width(Rows, argv[i]) > 0
  BY <1>1, WidthIs
<1>3. /\ {k \in Looked : k < Behind(Rows, i)} = Before \union {i}
      /\ Behind(Rows, i) <= Len(argv) => Behind(Rows, i) \in Looked
      /\ \A k \in Before \union {i} :
           Width(Rows, argv[k]) > 0 /\ Behind(Rows, k) <= Behind(Rows, i)
  BY <1>1, <1>2, LookedUpToNext
<1>4. /\ Rows' = Rows /\ Looked' = Looked
      /\ \A K : GivenBy(Rows, K)' = GivenBy(Rows, K)
      /\ \A k : Behind(Rows, k)' = Behind(Rows, k)
      /\ \A w : Width(Rows, w)' = Width(Rows, w)
  BY LineKept
<1>5. Before' = Before \union {i}
  BY <1>3, <1>4 DEF Before
<1>6. Reached'
  BY <1>3, <1>4, <1>5 DEF Reached
<1>7. GivenBy(Rows, Before)' = GivenBy(Rows, Before \union {i})
  BY <1>4, <1>5
<1> QED BY <1>6, <1>7

(* What a round gives its field.                                              *)
LEMMA RoundGives ==
  ASSUME Shape, LoopInv, NEW kinds, Here(kinds),
         Set(FieldOf(Rows, i), ValueOf(Rows, i)), FieldOf(Rows, i) # "none"
  PROVE  given' = GivenBy(Rows, Before \union {i})
<1>1. /\ i \in Nat /\ given = GivenBy(Rows, Before)
      /\ \A j \in Before : j \in Nat /\ j < i
  BY WhatIsHere
<1> QED BY <1>1, OneMoreGiven DEF Set

LEMMA LoopInductive == Shape /\ LoopInv /\ [Next]_vars => LoopInv'
<1> SUFFICES ASSUME Shape, LoopInv, [Next]_vars
             PROVE  LoopInv'
  OBVIOUS
<1> USE DEF LoopInv, ParsedAsTabled
<1>1. CASE SetFlag
  <2>1. /\ Here({"flag"}) /\ Set(Field, argv[i]) /\ i' = i + 1
        /\ UNCHANGED <<client, argv, outcome>> /\ outcome = "parsing"
    BY <1>1 DEF SetFlag, Here
  <2>2. KindFor(Rows, argv[i]) = "flag"
    BY <2>1, WhatIsHere
  <2>3. FieldOf(Rows, i) = Field /\ FieldOf(Rows, i) # "none" /\ ValueOf(Rows, i) = argv[i]
    BY <2>2, FieldFacts DEF Field, Rows, ValueOf
  <2>4. Behind(Rows, i) = i + 1
    BY <2>2, WidthIs DEF Behind
  <2>5. given' = GivenBy(Rows, Before \union {i})
    BY <2>1, <2>3, RoundGives
  <2>6. Here({"flag", "text", "number", "own", "skip"})
    BY <2>1 DEF Here
  <2>7. Reached' /\ given' = GivenBy(Rows, Before)'
    BY <2>1, <2>4, <2>5, <2>6, RoundReaches
  <2> QED BY <2>1, <2>7
<1>2. CASE TakeText
  <2>1. /\ Here({"text"}) /\ Set(Field, Argument(i + 1)) /\ i' = i + 2
        /\ UNCHANGED <<client, argv, outcome>> /\ outcome = "parsing"
    BY <1>2 DEF TakeText, Here, AfterValue
  <2>2. KindFor(Rows, argv[i]) = "text"
    BY <2>1, WhatIsHere
  <2>3. /\ FieldOf(Rows, i) = Field /\ FieldOf(Rows, i) # "none"
        /\ ValueOf(Rows, i) = Argument(i + 1)
    BY <2>2, FieldFacts DEF Field, Rows, ValueOf
  <2>4. Behind(Rows, i) = i + 2
    BY <2>2, WidthIs DEF Behind
  <2>5. given' = GivenBy(Rows, Before \union {i})
    BY <2>1, <2>3, RoundGives
  <2>6. Here({"flag", "text", "number", "own", "skip"})
    BY <2>1 DEF Here
  <2>7. Reached' /\ given' = GivenBy(Rows, Before)'
    BY <2>1, <2>4, <2>5, <2>6, RoundReaches
  <2> QED BY <2>1, <2>7
<1>3. CASE TakeNumber
  <2>1. /\ Here({"number"}) /\ Set(Field, Number[argv[i + 1]]) /\ i' = i + 2
        /\ UNCHANGED <<client, argv, outcome>> /\ outcome = "parsing"
    BY <1>3 DEF TakeNumber, Here, AfterValue
  <2>2. KindFor(Rows, argv[i]) = "number"
    BY <2>1, WhatIsHere
  <2>3. /\ FieldOf(Rows, i) = Field /\ FieldOf(Rows, i) # "none"
        /\ ValueOf(Rows, i) = Number[argv[i + 1]]
    BY <2>2, FieldFacts DEF Field, Rows, ValueOf
  <2>4. Behind(Rows, i) = i + 2
    BY <2>2, WidthIs DEF Behind
  <2>5. given' = GivenBy(Rows, Before \union {i})
    BY <2>1, <2>3, RoundGives
  <2>6. Here({"flag", "text", "number", "own", "skip"})
    BY <2>1 DEF Here
  <2>7. Reached' /\ given' = GivenBy(Rows, Before)'
    BY <2>1, <2>4, <2>5, <2>6, RoundReaches
  <2> QED BY <2>1, <2>7
<1>4. CASE TakeOwn
  <2>1. /\ Here({"own"}) /\ Set(Field, Number[argv[i]]) /\ i' = i + 1
        /\ UNCHANGED <<client, argv, outcome>> /\ outcome = "parsing"
    BY <1>4 DEF TakeOwn, Here
  <2>2. KindFor(Rows, argv[i]) = "own"
    BY <2>1, WhatIsHere
  <2>3. /\ FieldOf(Rows, i) = Field /\ FieldOf(Rows, i) # "none"
        /\ ValueOf(Rows, i) = Number[argv[i]]
    BY <2>2, FieldFacts DEF Field, Rows, ValueOf
  <2>4. Behind(Rows, i) = i + 1
    BY <2>2, WidthIs DEF Behind
  <2>5. given' = GivenBy(Rows, Before \union {i})
    BY <2>1, <2>3, RoundGives
  <2>6. Here({"flag", "text", "number", "own", "skip"})
    BY <2>1 DEF Here
  <2>7. Reached' /\ given' = GivenBy(Rows, Before)'
    BY <2>1, <2>4, <2>5, <2>6, RoundReaches
  <2> QED BY <2>1, <2>7
<1>5. CASE SkipValue
  <2>1. /\ Here({"skip"}) /\ i' = i + 2
        /\ UNCHANGED <<client, argv, outcome, given>> /\ outcome = "parsing"
    BY <1>5 DEF SkipValue, Here, AfterValue
  <2>2. /\ KindFor(Rows, argv[i]) = "skip" /\ given = GivenBy(Rows, Before) /\ i \in Nat
        /\ \A j \in Before : j \in Nat /\ j < i
    BY <2>1, WhatIsHere
  <2>3. FieldOf(Rows, i) = "none"
    BY <2>2, FieldFacts
  <2>4. Behind(Rows, i) = i + 2
    BY <2>2, WidthIs DEF Behind
  <2>5. given' = GivenBy(Rows, Before \union {i})
    BY <2>1, <2>2, <2>3, OneMoreGiven
  <2>6. Here({"flag", "text", "number", "own", "skip"})
    BY <2>1 DEF Here
  <2>7. Reached' /\ given' = GivenBy(Rows, Before)'
    BY <2>1, <2>4, <2>5, <2>6, RoundReaches
  <2> QED BY <2>1, <2>7
<1>6. CASE NoNumber
  <2>1. /\ Here({"number"}) /\ i = Len(argv) /\ outcome' = "crash"
        /\ UNCHANGED <<client, argv>>
    BY <1>6 DEF NoNumber
  <2>2. KindFor(Rows, argv[i]) = "number" /\ i \in Looked
    BY <2>1, WhatIsHere
  <2>3. Len(argv) \in Looked' /\ KindFor(Rows, argv[Len(argv)])' = "number"
    BY <2>1, <2>2, LineKept
  <2>4. LacksNumber(RowsOf(client))'
    BY <2>1, <2>3 DEF LacksNumber, Looked, Rows
  <2> QED BY <2>1, <2>4
<1>7. CASE PrintUsage
  <2>1. Here({"help"}) /\ outcome' = "usage" /\ UNCHANGED <<client, argv>>
    BY <1>7 DEF PrintUsage
  <2>2. KindFor(Rows, argv[i]) = "help" /\ i \in Looked
    BY <2>1, WhatIsHere
  <2>3. AsksForHelp(RowsOf(client))'
    BY <2>1, <2>2, LineKept DEF AsksForHelp, Looked, Rows
  <2> QED BY <2>1, <2>3
<1>8. CASE TakeOperand
  <2>1. /\ Here({"operand"}) /\ Set(OperandOf(client), argv[i]) /\ outcome' = "parsed"
        /\ UNCHANGED <<client, argv>>
    BY <1>8 DEF TakeOperand
  <2>2. KindFor(Rows, argv[i]) = "operand" /\ AtArgument
    BY <2>1, WhatIsHere
  <2>3. /\ FieldOf(Rows, i) = OperandOf(client) /\ FieldOf(Rows, i) # "none"
        /\ ValueOf(Rows, i) = argv[i]
    BY <2>2, FieldFacts DEF ValueOf
  <2>4. Looked = Before \union {i}
    BY <2>2, WidthIs, LookedUpToOperand
  <2>5. given' = GivenBy(Rows, Looked)
    BY <2>1, <2>3, <2>4, RoundGives
  <2>6. given' = GivenBy(Rows, Looked)'
    BY <2>1, <2>5, LineKept
  <2> QED BY <2>1, <2>6 DEF Meant, Looked, Rows
<1>9. CASE EndOfArguments
  <2>1. /\ outcome = "parsing" /\ i > Len(argv) /\ outcome' = "parsed"
        /\ UNCHANGED <<client, argv, given>>
    BY <1>9 DEF EndOfArguments
  <2>2. given = GivenBy(Rows, Before)
    BY <2>1
  <2>3. Before = Looked
    <3>1. DOMAIN argv = 1 .. Len(argv) /\ Len(argv) \in Nat /\ i \in Int
      BY DEF Shape
    <3>2. \A k \in Looked : k < i
      BY <2>1, <3>1, LookedIsClosed
    <3> QED BY <3>2 DEF Before
  <2>4. given' = GivenBy(Rows, Looked)'
    BY <2>1, <2>2, <2>3, LineKept
  <2> QED BY <2>1, <2>4 DEF Meant, Looked, Rows
<1>10. CASE RequestToken \/ FreePayload \/ UNCHANGED vars
  <2>1. /\ UNCHANGED <<client, argv, i, given>>
        /\ \/ outcome \in {"parsed", "answered"} /\ outcome' \in {"answered", "exit"}
           \/ UNCHANGED outcome
    BY <1>10 DEF RequestToken, FreePayload, vars
  <2>2. /\ Rows' = Rows /\ Looked' = Looked
        /\ \A K : GivenBy(Rows, K)' = GivenBy(Rows, K)
        /\ \A k : Behind(Rows, k)' = Behind(Rows, k)
        /\ \A w : KindFor(Rows, w)' = KindFor(Rows, w) /\ Width(Rows, w)' = Width(Rows, w)
    BY <2>1, LineKept
  <2>3. Before' = Before
    BY <2>1, <2>2 DEF Before
  <2>4. Reached => Reached'
    BY <2>1, <2>2, <2>3 DEF Reached
  <2>5. /\ GivenBy(Rows, Before)' = GivenBy(Rows, Before)
        /\ Meant(RowsOf(client))' = Meant(RowsOf(client))
    BY <2>2, <2>3 DEF Meant, Looked, Rows
  <2>6. AsksForHelp(RowsOf(client)) => AsksForHelp(RowsOf(client))'
    BY <2>1, <2>2 DEF AsksForHelp, Looked, Rows
  <2>7. LacksNumber(RowsOf(client)) => LacksNumber(RowsOf(client))'
    BY <2>1, <2>2 DEF LacksNumber, Looked, Rows
  <2> QED BY <2>1, <2>4, <2>5, <2>6, <2>7
<1> QED
  BY <1>1, <1>2, <1>3, <1>4, <1>5, <1>6, <1>7, <1>8, <1>9, <1>10 DEF Next

(* The values of a field, kind by kind.                                       *)
LEMMA ValuesAre ==
  ASSUME NEW f
  PROVE  /\ f \in NumberFields => ValuesOf(f) = Int
         /\ f \in FlagFields =>
              ValuesOf(f) = {w \in Words : \E r \in Rows : r.field = f /\ w \in r.names}
         /\ f = OperandOf(client) => ValuesOf(f) = {w \in Words : ~IsOption(Rows, w)}
         /\ f \notin NumberFields \union FlagFields \union {OperandOf(client)} =>
              ValuesOf(f) = Words \union {"NULL"}
<1>1. NumberFields \cap FlagFields = {}
  BY DEF NumberFields, FlagFields
<1>2. OperandOf(client) \notin NumberFields \union FlagFields
  BY DEF NumberFields, FlagFields, OperandOf
<1> QED BY <1>1, <1>2 DEF ValuesOf, Rows

(* The row that an option leads to, and where its value may go.               *)
LEMMA FieldIsOfKind ==
  ASSUME NEW kinds, Here(kinds),
         kinds \in {{"flag"}, {"text"}, {"number"}, {"own"}}
  PROVE  /\ Field \in Fields /\ Field # OperandOf(client)
         /\ Field \in NumberFields <=> kinds \in {{"number"}, {"own"}}
         /\ Field \in FlagFields <=> kinds = {"flag"}
         /\ \E r \in Rows : r.field = Field /\ argv[i] \in r.names
<1> DEFINE r == RowFor(Rows, argv[i])
<1>1. KindFor(Rows, argv[i]) \in kinds
  BY DEF Here, Rows
<1>2. KindFor(Rows, argv[i]) # "operand"
  BY <1>1
<1>3. IsOption(Rows, argv[i]) /\ r \in Rows /\ r.kind \in kinds
  BY <1>1, <1>2, WordKinds
<1>4. argv[i] \in r.names
  BY <1>3 DEF IsOption, RowFor
<1>5. r.field = Field
  BY DEF Field, Rows
<1>6. /\ r.field # "none"
      /\ r.field \in NumberFields <=> r.kind \in {"number", "own"}
      /\ r.field \in FlagFields <=> r.kind = "flag"
      /\ r.field \notin {"url", "fqdn"}
  <2>1. r.kind \notin {"skip", "help"}
    BY <1>3
  <2> QED BY <1>3, <2>1, RowFacts
<1> HIDE DEF r
<1>7. Field \in Fields
  BY <1>3, <1>5, <1>6 DEF Fields, Rows
<1>8. Field # OperandOf(client)
  BY <1>5, <1>6 DEF OperandOf
<1> QED BY <1>3, <1>4, <1>5, <1>6, <1>7, <1>8

(* Setting a field of the program to a value of its kind.                     *)
LEMMA SetKeepsShape ==
  ASSUME Shape, NEW f \in Fields, NEW v \in ValuesOf(f), Set(f, v),
         UNCHANGED <<client, argv>>
  PROVE  /\ (DOMAIN given \subseteq Fields)'
         /\ (\A g \in DOMAIN given : given[g] \in ValuesOf(g))'
<1>1. /\ DOMAIN given' = DOMAIN given \union {f}
      /\ \A x \in DOMAIN given' : given'[x] = IF x = f THEN v ELSE given[x]
  BY DEF Set
<1>2. Fields' = Fields /\ \A g : ValuesOf(g)' = ValuesOf(g)
  BY DEF RowsOf, OperandOf, Fields, ValuesOf, IsOption
<1> QED BY <1>1, <1>2 DEF Shape

LEMMA ShapeInductive == Shape /\ LoopInv /\ [Next]_vars => Shape'
<1> SUFFICES ASSUME Shape, LoopInv, [Next]_vars
             PROVE  Shape'
  OBVIOUS
<1>0. Len(argv) \in Nat /\ Len(argv) <= MaxArgs /\ MaxArgs \in Nat /\ i \in 1 .. MaxArgs + 2
  BY OptionsAssumption DEF Shape
<1>w. \A k \in 1 .. Len(argv) : argv[k] \in Words /\ Number[argv[k]] \in Int
  BY ElementOfSeq, OptionsAssumption DEF Shape
<1>1. ASSUME i \in 1 .. Len(argv),
             Field \in Fields, NEW v \in ValuesOf(Field), Set(Field, v),
             i' = i + 1 \/ i' = i + 2,
             UNCHANGED <<client, argv, payload, outcome>>
      PROVE  Shape'
  <2>1. i' \in 1 .. MaxArgs + 2
    BY <1>1, <1>0
  <2>2. /\ (DOMAIN given \subseteq Fields)'
        /\ (\A g \in DOMAIN given : given[g] \in ValuesOf(g))'
    BY <1>1, SetKeepsShape
  <2> QED BY <1>1, <2>1, <2>2 DEF Shape
<1>2. CASE TakeOperand
  <2>1. /\ Here({"operand"}) /\ Set(OperandOf(client), argv[i]) /\ outcome' = "parsed"
        /\ UNCHANGED <<client, argv, i, payload>>
    BY <1>2 DEF TakeOperand
  <2>2. argv[i] \in Words /\ KindFor(Rows, argv[i]) = "operand"
    BY <2>1, WhatIsHere
  <2>3. argv[i] \in ValuesOf(OperandOf(client))
    BY <2>2, WordKinds, ValuesAre
  <2>4. OperandOf(client) \in Fields
    BY DEF Fields
  <2>5. /\ (DOMAIN given \subseteq Fields)'
        /\ (\A g \in DOMAIN given : given[g] \in ValuesOf(g))'
    BY <2>1, <2>3, <2>4, SetKeepsShape
  <2> QED BY <2>1, <2>5 DEF Shape
<1>3. CASE \/ SkipValue \/ NoNumber \/ PrintUsage \/ EndOfArguments
           \/ RequestToken \/ FreePayload \/ UNCHANGED vars
  <2>1. /\ UNCHANGED <<client, argv, given>>
        /\ i' = i \/ (i \in 1 .. Len(argv) /\ i' = i + 2)
        /\ payload' \in {"none", "held", "freed"}
        /\ outcome' \in {"parsing", "parsed", "answered", "exit", "usage", "crash"}
    BY <1>3 DEF Shape, SkipValue, Here, AfterValue, NoNumber, PrintUsage, EndOfArguments,
                RequestToken, FreePayload, vars
  <2>2. Fields' = Fields /\ \A g : ValuesOf(g)' = ValuesOf(g)
    BY <2>1 DEF RowsOf, OperandOf, Fields, ValuesOf, IsOption
  <2>3. i' \in 1 .. MaxArgs + 2
    BY <2>1, <1>0
  <2> QED BY <2>1, <2>2, <2>3 DEF Shape
<1>4. CASE SetFlag
  <2>1. /\ Here({"flag"}) /\ Set(Field, argv[i]) /\ i' = i + 1
        /\ UNCHANGED <<client, argv, payload, outcome>>
    BY <1>4 DEF SetFlag
  <2>2. i \in 1 .. Len(argv)
    BY <2>1, WhatIsHere DEF AtArgument
  <2>3. Field \in Fields /\ argv[i] \in ValuesOf(Field)
    BY <1>w, <2>1, <2>2, FieldIsOfKind, ValuesAre
  <2> QED BY <2>1, <2>2, <2>3, <1>1
<1>5. CASE TakeText
  <2>1. /\ Here({"text"}) /\ Set(Field, Argument(i + 1)) /\ i' = i + 2
        /\ UNCHANGED <<client, argv, payload, outcome>>
    BY <1>5 DEF TakeText, AfterValue
  <2>2. i \in 1 .. Len(argv)
    BY <2>1, WhatIsHere DEF AtArgument
  <2>3. Argument(i + 1) \in Words \union {"NULL"}
    BY <1>0, <1>w, <2>2 DEF Argument
  <2>4. /\ Field \in Fields
        /\ Field \notin NumberFields \union FlagFields \union {OperandOf(client)}
    BY <2>1, FieldIsOfKind
  <2>5. Argument(i + 1) \in ValuesOf(Field)
    BY <2>3, <2>4, ValuesAre
  <2> QED BY <2>1, <2>2, <2>4, <2>5, <1>1
<1>6. CASE TakeNumber
  <2>1. /\ Here({"number"}) /\ Set(Field, Number[argv[i + 1]]) /\ i' = i + 2
        /\ i < Len(argv)
        /\ UNCHANGED <<client, argv, payload, outcome>>
    BY <1>6 DEF TakeNumber, AfterValue
  <2>2. i \in 1 .. Len(argv)
    BY <2>1, WhatIsHere DEF AtArgument
  <2>3. Number[argv[i + 1]] \in Int
    BY <1>0, <1>w, <2>1, <2>2
  <2>4. Field \in Fields /\ ValuesOf(Field) = Int
    BY <2>1, FieldIsOfKind, ValuesAre
  <2> QED BY <2>1, <2>2, <2>3, <2>4, <1>1
<1>7. CASE TakeOwn
  <2>1. /\ Here({"own"}) /\ Set(Field, Number[argv[i]]) /\ i' = i + 1
        /\ UNCHANGED <<client, argv, payload, outcome>>
    BY <1>7 DEF TakeOwn
  <2>2. i \in 1 .. Len(argv)
    BY <2>1, WhatIsHere DEF AtArgument
  <2>3. Number[argv[i]] \in Int
    BY <1>w, <2>2
  <2>4. Field \in Fields /\ ValuesOf(Field) = Int
    BY <2>1, FieldIsOfKind, ValuesAre
  <2> QED BY <2>1, <2>2, <2>3, <2>4, <1>1
<1> QED BY <1>2, <1>3, <1>4, <1>5, <1>6, <1>7 DEF Next

LEMMA Initially == Init => Shape /\ LoopInv
<1> SUFFICES ASSUME Init
             PROVE  Shape /\ LoopInv
  OBVIOUS
<1>1. PICK n \in 0 .. MaxArgs : argv \in [1 .. n -> Words]
  BY DEF Init, CommandLines
<1>2. n \in Nat /\ n <= MaxArgs /\ MaxArgs \in Nat
  BY OptionsAssumption
<1>3. argv \in Seq(Words)
  BY <1>1, <1>2, SeqDef
<1>4. Len(argv) = n
  BY <1>1, <1>2, <1>3, LenProperties
<1>5. i = 1 /\ DOMAIN given = {} /\ outcome = "parsing" /\ payload = "none" /\ client \in Clients
  BY DEF Init
<1>6. Shape
  BY <1>2, <1>3, <1>4, <1>5 DEF Shape
<1>7. DOMAIN argv = 1 .. n /\ Looked \subseteq 1 .. n /\ Closed(Rows, Looked)
  BY <1>1, <1>3, LookedIsClosed
<1>8. Before = {}
  <2>1. \A k \in Looked : ~(k < i)
    BY <1>2, <1>5, <1>7
  <2> QED BY <2>1 DEF Before
<1>9. Reached
  <2>1. 1 <= Len(argv) => argv # <<>>
    BY <1>3, EmptySeq
  <2> QED BY <2>1, <1>5, <1>7, <1>8 DEF Reached, Closed
<1>10. given = GivenBy(Rows, Before)
  <2>1. GivenBy(Rows, {}) = [f \in {} |-> "NULL"]
    BY DEF GivenBy
  <2> QED BY <2>1, <1>8 DEF Init
<1>11. ParsedAsTabled
  BY <1>5 DEF ParsedAsTabled
<1> QED BY <1>6, <1>9, <1>10, <1>11 DEF LoopInv

LEMMA LoopInvariant == Spec => [](Shape /\ LoopInv)
<1> DEFINE IInv == Shape /\ LoopInv
<1>1. Init => IInv
  BY Initially
<1>2. IInv /\ [Next]_vars => IInv'
  BY ShapeInductive, LoopInductive
<1> HIDE DEF IInv
<1>3. Spec => []IInv
  BY <1>1, <1>2, PTL DEF Spec
<1> QED BY <1>3 DEF IInv

(* For command lines of any length every field that the program keeps as a    *)
(* number is given a number, a flag an option of its own, the operand a word  *)
(* that is no option, and every other field a string; nothing but the fields  *)
(* of the program is set, the index stays within two of the line's bound, and *)
(* the number of redirects handed on is a number.                             *)
THEOREM TypeCorrect == Spec => []TypeOK
<1>1. ASSUME Shape
      PROVE  MaxRedirects \in Int
  <2>1. "max_redirs" \in DOMAIN given => given["max_redirs"] \in Int
    <3>1. "max_redirs" \in NumberFields
      BY DEF NumberFields
    <3> QED BY <1>1, <3>1, ValuesAre DEF Shape
  <2> QED BY <2>1 DEF MaxRedirects, Valued
<1>2. Shape => TypeOK
  BY <1>1 DEF Shape, TypeOK
<1> QED BY <1>2, LoopInvariant, PTL

(* For every command line the loop sets what the table says: no value is      *)
(* taken for an option or the operand, the last setting of a field holds, and *)
(* usage and crash come only from a help option and a number that is missing. *)
THEOREM AlwaysParsedAsTabled == Spec => []ParsedAsTabled
<1>1. LoopInv => ParsedAsTabled
  BY DEF LoopInv
<1> QED BY <1>1, LoopInvariant, PTL
=============================================================================
