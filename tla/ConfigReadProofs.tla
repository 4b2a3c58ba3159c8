-------------------------- MODULE ConfigReadProofs --------------------------
(***************************************************************************)
(* Theorems about ConfigRead for any set of file names, any contents and   *)
(* any order of the directory.  Each is an invariant; the order of the     *)
(* files is proved first, the merge and the memory from it.                *)
(***************************************************************************)
EXTENDS ConfigRead, FiniteSetTheorems, SequenceTheorems, TLAPS

(* Inserting in a sequence gives a sequence that is longer by one.            *)
LEMMA InsertedIsSeq ==
  ASSUME list \in Seq(Names), item \in 1 .. Len(list) + 1, new \in Names
  PROVE  /\ Inserted \in Seq(Names)
         /\ Len(Inserted) = Len(list) + 1
         /\ DOMAIN Inserted = 1 .. Len(list) + 1
<1> DEFINE n == Len(list) + 1
<1>1. n \in Nat /\ \A j \in 1 .. Len(list) : list[j] \in Names
  OBVIOUS
<1>2. Inserted \in [1 .. n -> Names]
  <2> SUFFICES ASSUME NEW j \in 1 .. n
               PROVE  (CASE j < item -> list[j] [] j = item -> new [] j > item -> list[j - 1])
                        \in Names
    BY DEF Inserted
  <2>1. CASE j < item
    BY <2>1, <1>1
  <2>2. CASE j = item
    BY <2>2
  <2>3. CASE j > item
    <3>1. j - 1 \in 1 .. Len(list)
      BY <2>3
    <3> QED BY <3>1, <2>3, <1>1
  <2> QED BY <2>1, <2>2, <2>3
<1>3. Inserted \in Seq(Names)
  BY <1>1, <1>2, SeqDef
<1>4. DOMAIN Inserted = 1 .. n
  BY <1>2
<1>5. Len(Inserted) = n
  BY <1>1, <1>3, <1>4, LenProperties
<1> QED BY <1>3, <1>4, <1>5

(* The parts of a file, each of its type.                                     *)
LEMMA FileParts ==
  ASSUME NEW f \in Contents
  PROVE  /\ f.settings \in [Settings -> Values \union {Absent}]
         /\ f.interfaces \in Seq(Items)
         /\ f.algs \in Seq(Algs)
<1>1. f \in Files
  BY FilesAssumption
<1> QED BY <1>1 DEF Files

-----------------------------------------------------------------------------
(* The position in the list is one of it while a name is inserted.            *)
Walk == /\ pc = "insert" => new \in Names /\ item \in 1 .. Len(list) + 1
        /\ pc \in {"interfaces", "algs"} => todo <= Len(list) /\ file \in Contents /\ item >= 1

LEMMA TypesInductive == Types /\ Walk /\ [Next]_vars => Types' /\ Walk'
<1> SUFFICES ASSUME Types, Walk, [Next]_vars
             PROVE  Types' /\ Walk'
  OBVIOUS
<1> USE DEF Types, Walk, config, history, PathErrors
<1>1. CASE Refuse
  BY <1>1 DEF Refuse
<1>2. CASE OpenDir
  BY <1>2 DEF OpenDir
<1>3. CASE \E n \in Names : Find(n)
  BY <1>3 DEF Find
<1>4. CASE MoveOn
  BY <1>4 DEF MoveOn, MovesOn
<1>5. CASE Insert
  <2>1. list' \in Seq(Names) /\ Len(list') = Len(list) + 1
    BY <1>5, InsertedIsSeq DEF Insert
  <2> QED BY <1>5, <2>1 DEF Insert
<1>6. CASE EndOfDir
  BY <1>6 DEF EndOfDir
<1>7. CASE ReadFails
  BY <1>7 DEF ReadFails, AtFile
<1>8. CASE NotJson
  BY <1>8 DEF NotJson, AtFile
<1>9. CASE Parse
  <2> PICK f \in Contents : /\ file' = f
                            /\ got' = Put(got, list[todo], f)
                            /\ settings' = Overridden(f)
                            /\ rv' = WrongType(f)
    BY <1>9 DEF Parse
  <2>1. f.settings \in [Settings -> Values \union {Absent}]
    BY FileParts
  <2>2. settings' \in [Settings -> Values \union {Unset}]
    BY <2>1 DEF Overridden
  <2>3. list[todo] \in Names
    BY <1>9 DEF Parse, AtFile
  <2>4. DOMAIN got' \subseteq Names /\ \A n \in DOMAIN got' : got'[n] \in Contents
    BY <2>3 DEF Put
  <2>5. rv' \in PathErrors \union {"XA_OK", "XA_CONFIG_FILE_ERROR"}
    BY DEF WrongType
  <2> QED BY <1>9, <2>2, <2>4, <2>5 DEF Parse, AtFile
<1>10. CASE AddInterface
  <2> DEFINE i == file.interfaces[item]
  <2>0. file \in Contents /\ item \in 1 .. Len(file.interfaces)
    BY <1>10 DEF AddInterface, MoreItems
  <2>1. i \in Items
    BY <2>0, FileParts, ElementOfSeq
  <2>2. i.name \in Interfaces \union {NoName} /\ i.cost \in Int
    BY <2>1 DEF Items
  <2>3. interfaces' = Put(interfaces, i.name, i.cost)
    BY <1>10 DEF AddInterface
  <2>4. /\ DOMAIN interfaces' \subseteq Interfaces \union {NoName}
        /\ \A k \in DOMAIN interfaces' : interfaces'[k] \in Int
    BY <2>2, <2>3 DEF Put
  <2> QED BY <1>10, <2>4 DEF AddInterface, MoreItems
<1>11. CASE InterfaceNotStored
  <2>1. Blocks(file.interfaces[item]) \in Nat
    BY DEF Blocks
  <2> QED BY <1>11, <2>1 DEF InterfaceNotStored, MoreItems
<1>12. CASE EndInterfaces
  BY <1>12 DEF EndInterfaces
<1>13. CASE AddAlg
  <2>0. file \in Contents /\ item \in 1 .. Len(file.algs)
    BY <1>13 DEF AddAlg, MoreItems
  <2>1. file.algs[item] \in Algs
    BY <2>0, FileParts, ElementOfSeq
  <2> QED BY <1>13, <2>1 DEF AddAlg, MoreItems
<1>14. CASE AlgNotStored
  BY <1>14 DEF AlgNotStored, MoreItems
<1>15. CASE EndFile
  BY <1>15 DEF EndFile
<1>16. CASE FinishInterfaces
  BY <1>16 DEF FinishInterfaces
<1>17. CASE FinishAlgs
  BY <1>17 DEF FinishAlgs, UnknownAlg
<1>18. CASE OverrunAlgs
  BY <1>18 DEF OverrunAlgs
<1>19. CASE Finish
  BY <1>19 DEF Finish
<1>20. CASE Destroy
  BY <1>20 DEF Destroy
<1>21. CASE UNCHANGED vars
  BY <1>21 DEF vars
<1> QED
  BY <1>1, <1>2, <1>3, <1>4, <1>5, <1>6, <1>7, <1>8, <1>9, <1>10, <1>11, <1>12, <1>13,
     <1>14, <1>15, <1>16, <1>17, <1>18, <1>19, <1>20, <1>21 DEF Next

LEMMA TypesInitially == Init => Types /\ Walk
  BY DEF Init, Types, Walk, Empty, NoFile, PathErrors

LEMMA TypesInvariant == Spec => [](Types /\ Walk)
  BY TypesInitially, TypesInductive, PTL DEF Spec

-----------------------------------------------------------------------------
(* While a name is inserted, it is new and all names passed are smaller.      *)
Passed == pc = "insert" => /\ \A j \in 1 .. Len(list) : list[j] # new
                           /\ \A j \in 1 .. Len(list) : j < item => list[j] < new

SortInv == ListIsSorted /\ Passed

(* The list is left alone but by an insertion.                                *)
LEMMA ListKept == [Next]_vars => Insert \/ UNCHANGED list
BY DEF Next, vars, Refuse, OpenDir, Find, MoveOn, EndOfDir, ReadFails, NotJson, Parse,
       AddInterface, InterfaceNotStored, EndInterfaces, AddAlg, AlgNotStored, EndFile,
       FinishInterfaces, FinishAlgs, OverrunAlgs, Finish, Destroy, config, history

(* Only the search for a name's place is in the state "insert".               *)
LEMMA InsertEntered ==
  ASSUME [Next]_vars, pc' = "insert"
  PROVE  MoveOn \/ UNCHANGED vars \/ \E n \in Names : Find(n)
BY DEF Next, vars, Refuse, OpenDir, Insert, EndOfDir, ReadFails, NotJson, Parse, AtFile,
       AddInterface, InterfaceNotStored, EndInterfaces, AddAlg, AlgNotStored, EndFile,
       FinishInterfaces, FinishAlgs, OverrunAlgs, Finish, Destroy, MoreItems

LEMMA SortInductive == Types /\ Walk /\ SortInv /\ [Next]_vars => SortInv'
<1> SUFFICES ASSUME Types, Walk, SortInv, [Next]_vars
             PROVE  SortInv'
  OBVIOUS
<1>t. Names \subseteq Nat /\ list \in Seq(Names)
  BY FilesAssumption DEF Types
<1>e. \A j \in 1 .. Len(list) : list[j] \in Nat
  <2>1. \A j \in 1 .. Len(list) : list[j] \in Names
    BY <1>t, ElementOfSeq
  <2> QED BY <2>1, <1>t
<1>1. ListIsSorted'
  <2>1. CASE UNCHANGED list
    BY <2>1 DEF SortInv, ListIsSorted
  <2>2. CASE Insert
    <3>1. pc = "insert" /\ list' = Inserted /\ ~MovesOn
      BY <2>2 DEF Insert
    <3>2. new \in Nat /\ item \in 1 .. Len(list) + 1
      BY <3>1, <1>t DEF Walk
    <3>3. DOMAIN list' = 1 .. Len(list) + 1
      BY <3>1, <3>2, <1>t, InsertedIsSeq DEF Walk
    <3>4. \A j, k \in 1 .. Len(list) : j < k => list[j] < list[k]
      BY <1>t DEF SortInv, ListIsSorted
    <3>5. \A j \in 1 .. Len(list) : j < item => list[j] < new
      BY <3>1 DEF SortInv, Passed
    <3>6. \A j \in 1 .. Len(list) : j >= item => new < list[j]
      <4> SUFFICES ASSUME NEW j \in 1 .. Len(list), j >= item
                   PROVE  new < list[j]
        OBVIOUS
      <4>1. item \in 1 .. Len(list) /\ ~(list[item] < new) /\ list[item] # new
        BY <3>1, <3>2, <1>t DEF MovesOn, SortInv, Passed
      <4>2. new < list[item]
        BY <4>1, <3>2, <1>e
      <4>3. j = item \/ list[item] < list[j]
        BY <4>1, <3>4
      <4> QED BY <4>1, <4>2, <4>3, <3>2, <1>e
    <3>7. \A j \in 1 .. Len(list) + 1 :
             list'[j] = CASE j < item -> list[j] [] j = item -> new [] j > item -> list[j - 1]
      BY <3>1 DEF Inserted
    <3>8. ASSUME NEW j \in 1 .. Len(list) + 1, NEW k \in 1 .. Len(list) + 1, j < k
          PROVE  list'[j] < list'[k]
      <4>0. Len(list) \in Nat
        BY <1>t
      <4>1. CASE k < item
        BY <4>0, <4>1, <3>2, <3>4, <3>7, <3>8
      <4>2. CASE k = item
        BY <4>0, <4>2, <3>2, <3>5, <3>7, <3>8
      <4>3. CASE k > item /\ j = item
        <5>1. k - 1 \in 1 .. Len(list) /\ k - 1 >= item
          BY <4>0, <4>3, <3>2
        <5> QED BY <5>1, <4>3, <3>2, <3>6, <3>7
      <4>4. CASE k > item /\ j > item
        <5>1. k - 1 \in 1 .. Len(list) /\ j - 1 \in 1 .. Len(list) /\ j - 1 < k - 1
          BY <4>0, <4>4, <3>2, <3>8
        <5> QED BY <5>1, <4>4, <3>2, <3>4, <3>7
      <4>5. CASE k > item /\ j < item
        <5>1. k - 1 \in 1 .. Len(list) /\ j \in 1 .. Len(list) /\ k - 1 >= item
          BY <4>0, <4>5, <3>2, <3>8
        <5>2. list[j] < new /\ new < list[k - 1]
          BY <5>1, <4>5, <3>5, <3>6
        <5>3. list[j] \in Nat /\ list[k - 1] \in Nat
          BY <5>1, <1>e
        <5> QED BY <5>2, <5>3, <4>5, <3>2, <3>7
      <4> QED BY <4>1, <4>2, <4>3, <4>4, <4>5, <3>2
    <3> QED BY <3>3, <3>8 DEF ListIsSorted
  <2> QED BY <2>1, <2>2, ListKept
<1>2. Passed'
  <2> SUFFICES ASSUME pc' = "insert"
               PROVE  /\ \A j \in 1 .. Len(list') : list'[j] # new'
                      /\ \A j \in 1 .. Len(list') : j < item' => list'[j] < new'
    BY DEF Passed
  <2>1. CASE MoveOn
    <3>1. /\ pc = "insert" /\ item' = item + 1 /\ UNCHANGED <<list, new>>
          /\ list[item] < new
      BY <2>1 DEF MoveOn, MovesOn
    <3>2. item \in Nat
      BY DEF Types
    <3> QED BY <3>1, <3>2, <1>t DEF SortInv, Passed
  <2>2. CASE UNCHANGED vars
    BY <2>2 DEF SortInv, Passed, vars
  <2>3. CASE \E n \in Names : Find(n)
    BY <2>3, <1>t DEF Find
  <2> QED BY <2>1, <2>2, <2>3, InsertEntered
<1> QED BY <1>1, <1>2 DEF SortInv

LEMMA SortInitially == Init => SortInv
BY DEF Init, SortInv, ListIsSorted, Passed

LEMMA SortInvariant == Spec => []SortInv
<1>1. Init => Types /\ Walk /\ SortInv
  BY TypesInitially, SortInitially
<1>2. Types /\ Walk /\ SortInv /\ [Next]_vars => (Types /\ Walk /\ SortInv)'
  BY TypesInductive, SortInductive
<1> QED BY <1>1, <1>2, PTL DEF Spec

(* The files are listed by their names, each once, for every order in which   *)
(* readdir gives the entries: cfg_file_insert keeps the list sorted.          *)
THEOREM ListAlwaysSorted == Spec => []ListIsSorted
<1>1. SortInv => ListIsSorted
  BY DEF SortInv
<1> QED BY <1>1, SortInvariant, PTL

-----------------------------------------------------------------------------
(* The files parsed so far are those of the first positions of the list.      *)
Begun == IF pc \in {"interfaces", "algs"} THEN todo ELSE todo - 1

Placed == /\ pc \in {"enter", "readdir", "insert"} => DOMAIN got = {}
          /\ \A n \in DOMAIN got : \E j \in 1 .. Len(list) : j <= Begun /\ n = list[j]

LEMMA OnlyParseStores == [Next]_vars => Parse \/ UNCHANGED <<got, settings>>
BY DEF Next, vars, Refuse, OpenDir, Find, MoveOn, Insert, EndOfDir, ReadFails, NotJson,
       AddInterface, InterfaceNotStored, EndInterfaces, AddAlg, AlgNotStored, EndFile,
       FinishInterfaces, FinishAlgs, OverrunAlgs, Finish, Destroy, config, history

(* The list is complete when the files are read, and they are read in order.  *)
LEMMA ReadInOrder ==
  ASSUME Types, Walk, [Next]_vars, ~Parse
  PROVE  \/ pc \in {"enter", "readdir", "insert"}
         \/ /\ pc' \notin {"enter", "readdir", "insert"}
            /\ UNCHANGED list
            /\ Begun' >= Begun
<1> USE DEF Begun, Types
<1>1. CASE ReadFails
  BY <1>1 DEF ReadFails, AtFile
<1>2. CASE NotJson
  BY <1>2 DEF NotJson, AtFile
<1>3. CASE EndFile
  BY <1>3 DEF EndFile
<1>4. CASE AddInterface \/ InterfaceNotStored \/ AddAlg \/ AlgNotStored
  BY <1>4 DEF AddInterface, InterfaceNotStored, AddAlg, AlgNotStored, MoreItems
<1>5. CASE EndInterfaces
  BY <1>5 DEF EndInterfaces
<1>6. CASE FinishInterfaces \/ FinishAlgs \/ OverrunAlgs \/ Finish \/ Destroy
  BY <1>6 DEF FinishInterfaces, FinishAlgs, OverrunAlgs, Finish, Destroy
<1>7. CASE \/ Refuse \/ OpenDir \/ (\E n \in Names : Find(n)) \/ MoveOn \/ Insert \/ EndOfDir
  BY <1>7 DEF Refuse, OpenDir, Find, MoveOn, Insert, EndOfDir
<1>8. CASE UNCHANGED vars
  BY <1>8 DEF vars
<1> QED
  BY <1>1, <1>2, <1>3, <1>4, <1>5, <1>6, <1>7, <1>8 DEF Next

LEMMA PlacedInductive == Types /\ Walk /\ Placed /\ [Next]_vars => Placed'
<1> SUFFICES ASSUME Types, Walk, Placed, [Next]_vars
             PROVE  Placed'
  OBVIOUS
<1>1. CASE Parse
  <2>1. PICK f \in Contents : got' = Put(got, list[todo], f)
    BY <1>1 DEF Parse
  <2>2. /\ pc = "file" /\ pc' = "interfaces" /\ UNCHANGED <<list, todo>>
        /\ todo \in 1 .. Len(list)
    BY <1>1 DEF Parse, AtFile, Types
  <2>3. Begun = todo - 1 /\ Begun' = todo
    BY <2>2 DEF Begun
  <2>4. DOMAIN got' = DOMAIN got \union {list[todo]}
    BY <2>1 DEF Put
  <2>5. Len(list) \in Nat
    BY DEF Types
  <2>6. ASSUME NEW n \in DOMAIN got
        PROVE  \E j \in 1 .. Len(list) : j <= todo /\ n = list[j]
    <3>1. PICK j \in 1 .. Len(list) : j <= todo - 1 /\ n = list[j]
      BY <2>3 DEF Placed
    <3>2. j <= todo
      BY <3>1, <2>2, <2>5
    <3> QED BY <3>1, <3>2
  <2>7. todo <= todo
    BY <2>2, <2>5
  <2> QED BY <2>2, <2>3, <2>4, <2>6, <2>7 DEF Placed
<1>2. CASE ~Parse /\ pc \in {"enter", "readdir", "insert"}
  <2>1. DOMAIN got' = {}
    BY <1>2, OnlyParseStores DEF Placed
  <2> QED BY <2>1 DEF Placed
<1>3. CASE ~Parse /\ pc \notin {"enter", "readdir", "insert"}
  <2>1. /\ pc' \notin {"enter", "readdir", "insert"}
        /\ UNCHANGED <<list, got>>
        /\ Begun' >= Begun
    BY <1>3, ReadInOrder, OnlyParseStores
  <2>2. Begun \in Int /\ Len(list) \in Nat
    BY DEF Begun, Types
  <2>3. Begun' \in Int
    BY <2>1, TypesInductive DEF Begun, Types
  <2>4. ASSUME NEW n \in DOMAIN got
        PROVE  \E j \in 1 .. Len(list) : j <= Begun' /\ n = list[j]
    <3>1. PICK j \in 1 .. Len(list) : j <= Begun /\ n = list[j]
      BY DEF Placed
    <3>2. j <= Begun'
      BY <3>1, <2>1, <2>2, <2>3
    <3> QED BY <3>1, <3>2
  <2> QED BY <2>1, <2>4 DEF Placed
<1> QED BY <1>1, <1>2, <1>3

LEMMA PlacedInitially == Init => Placed
BY DEF Init, Placed, Empty

-----------------------------------------------------------------------------
(* Of the files that give a setting there is one with the greatest name.      *)
HasGreatest == \A s \in Settings :
  Setters(got, s) # {} => \E n \in Setters(got, s) : \A m \in Setters(got, s) : m <= n

MergeInv == SettingsAreMerged /\ HasGreatest

(* What Greatest picks when there is a greatest number.                       *)
LEMMA GreatestIs ==
  ASSUME NEW S, NEW n \in S, S \subseteq Nat, \A m \in S : m <= n
  PROVE  Greatest(S) = n
<1>1. Greatest(S) \in S /\ \A m \in S : m <= Greatest(S)
  BY DEF Greatest
<1>2. Greatest(S) <= n /\ n <= Greatest(S)
  BY <1>1
<1>3. Greatest(S) \in Nat /\ n \in Nat
  BY <1>1
<1> QED BY <1>2, <1>3

(* A file is parsed after those with smaller names.                           *)
LEMMA ParsedIsLast ==
  ASSUME Types, SortInv, Placed, Parse
  PROVE  /\ list[todo] \in Nat
         /\ \A n \in DOMAIN got : n \in Nat /\ n < list[todo]
<1>1. /\ todo \in 1 .. Len(list) /\ Begun = todo - 1
      /\ Len(list) \in Nat /\ DOMAIN list = 1 .. Len(list)
  BY DEF Parse, AtFile, Types, Begun
<1>2. \A j \in 1 .. Len(list) : list[j] \in Nat
  <2>1. \A j \in 1 .. Len(list) : list[j] \in Names
    BY ElementOfSeq DEF Types
  <2> QED BY <2>1, FilesAssumption
<1>3. ASSUME NEW n \in DOMAIN got
      PROVE  n \in Nat /\ n < list[todo]
  <2>1. PICK j \in 1 .. Len(list) : j <= todo - 1 /\ n = list[j]
    BY <1>1 DEF Placed
  <2>2. j < todo
    BY <2>1, <1>1
  <2>3. list[j] < list[todo]
    BY <2>2, <1>1 DEF SortInv, ListIsSorted
  <2> QED BY <2>1, <2>3, <1>2
<1> QED BY <1>1, <1>2, <1>3

LEMMA MergeInductive == Types /\ SortInv /\ Placed /\ MergeInv /\ [Next]_vars => MergeInv'
<1> SUFFICES ASSUME Types, SortInv, Placed, MergeInv, [Next]_vars
             PROVE  MergeInv'
  OBVIOUS
<1>1. CASE UNCHANGED <<got, settings>>
  BY <1>1 DEF MergeInv, SettingsAreMerged, HasGreatest, MergedSettings, Setters
<1>2. CASE Parse
  <2> DEFINE l == list[todo]
  <2>1. PICK f \in Contents : got' = Put(got, l, f) /\ settings' = Overridden(f)
    BY <1>2 DEF Parse
  <2>2. l \in Nat /\ \A n \in DOMAIN got : n \in Nat /\ n < l
    BY <1>2, ParsedIsLast
  <2>3. /\ DOMAIN got' = DOMAIN got \union {l}
        /\ got'[l] = f
        /\ \A n \in DOMAIN got : got'[n] = got[n]
    BY <2>1, <2>2 DEF Put
  <2> HIDE DEF l
  <2>4. ASSUME NEW s \in Settings
        PROVE  /\ settings'[s] = MergedSettings(got')[s]
               /\ Setters(got', s) # {} =>
                    \E n \in Setters(got', s) : \A m \in Setters(got', s) : m <= n
    <3>1. settings[s] = MergedSettings(got)[s]
      BY DEF MergeInv, SettingsAreMerged
    <3>2. CASE f.settings[s] = Absent
      <4>1. Setters(got', s) = Setters(got, s)
        BY <2>3, <2>2, <3>2 DEF Setters
      <4>2. settings'[s] = settings[s]
        BY <2>1, <3>2 DEF Overridden
      <4>3. CASE Setters(got, s) = {}
        BY <4>1, <4>2, <4>3, <3>1 DEF MergedSettings
      <4>4. CASE Setters(got, s) # {}
        <5>1. PICK n \in Setters(got, s) : \A m \in Setters(got, s) : m <= n
          BY <4>4 DEF MergeInv, HasGreatest
        <5>2. Setters(got, s) \subseteq DOMAIN got /\ Setters(got, s) \subseteq Nat
          BY <2>2 DEF Setters
        <5>3. Greatest(Setters(got, s)) = n
          BY <5>1, <5>2, GreatestIs
        <5>4. got'[n] = got[n]
          BY <5>2, <2>3
        <5> QED BY <5>1, <5>3, <5>4, <4>1, <4>2, <4>4, <3>1 DEF MergedSettings
      <4> QED BY <4>3, <4>4
    <3>3. CASE f.settings[s] # Absent
      <4>1. l \in Setters(got', s)
        BY <2>3, <3>3 DEF Setters
      <4>2. Setters(got', s) \subseteq Nat /\ \A m \in Setters(got', s) : m <= l
        BY <2>2, <2>3 DEF Setters
      <4>3. Greatest(Setters(got', s)) = l
        BY <4>1, <4>2, GreatestIs
      <4>4. settings'[s] = f.settings[s]
        BY <2>1, <3>3 DEF Overridden
      <4> QED BY <4>1, <4>2, <4>3, <4>4, <2>3 DEF MergedSettings
    <3> QED BY <3>2, <3>3
  <2>5. settings' = [s \in Settings |-> settings'[s]]
    BY <2>1 DEF Overridden
  <2>6. settings' = MergedSettings(got')
    BY <2>4, <2>5 DEF MergedSettings
  <2> QED BY <2>4, <2>6 DEF MergeInv, SettingsAreMerged, HasGreatest
<1> QED BY <1>1, <1>2, OnlyParseStores

LEMMA MergeInitially == Init => MergeInv
BY DEF Init, MergeInv, SettingsAreMerged, HasGreatest, MergedSettings, Setters, Empty

LEMMA MergeInvariant == Spec => [](Types /\ Walk /\ SortInv /\ Placed /\ MergeInv)
<1> DEFINE IInv == Types /\ Walk /\ SortInv /\ Placed /\ MergeInv
<1>1. Init => IInv
  BY TypesInitially, SortInitially, PlacedInitially, MergeInitially
<1>2. IInv /\ [Next]_vars => IInv'
  BY TypesInductive, SortInductive, PlacedInductive, MergeInductive
<1> HIDE DEF IInv
<1>3. Spec => []IInv
  BY <1>1, <1>2, PTL DEF Spec
<1> QED BY <1>3 DEF IInv

(* Of several files that give a setting the one with the greatest name        *)
(* decides, whatever the order of the directory, for any number of files and  *)
(* settings, and also while reading is under way.                             *)
THEOREM SettingsAlwaysMerged == Spec => []SettingsAreMerged
<1>1. MergeInv => SettingsAreMerged
  BY DEF MergeInv
<1> QED BY <1>1, MergeInvariant, PTL

-----------------------------------------------------------------------------
(* What *rv says while config_read runs, and where the algorithms come from.  *)
FoundSoFar ==
  /\ rv \in {"XA_OK", "XA_CONFIG_FILE_ERROR", "XA_FAILED_TO_OPEN_FILE"}
  /\ rv = "XA_OK" => /\ unread = {}
                     /\ \A n \in DOMAIN got : ~got[n].wrong
                     /\ pc = "return" => algs \cap BadNames = {}
  /\ rv = "XA_CONFIG_FILE_ERROR" => \/ \E n \in DOMAIN got : got[n].wrong
                                    \/ MergedAlgs(got) \cap BadNames # {}
  /\ rv = "XA_FAILED_TO_OPEN_FILE" => unread # {}

InHand == /\ pc \in {"interfaces", "algs"} => /\ list[todo] \in DOMAIN got
                                              /\ file = got[list[todo]]
          /\ algs \subseteq MergedAlgs(got)

CodeInv == /\ ret = "none" <=> pc \notin {"done", "destroyed"}
           /\ pc = "enter" => list = <<>>
           /\ ret = "none" => FoundSoFar
           /\ CodeNamesAProblem

(* A name that is stored comes from a file that was parsed.                   *)
LEMMA InHandInductive ==
  Types /\ Walk /\ SortInv /\ Placed /\ InHand /\ [Next]_vars => InHand'
<1> SUFFICES ASSUME Types, Walk, SortInv, Placed, InHand, [Next]_vars
             PROVE  InHand'
  OBVIOUS
<1>1. CASE Parse
  <2> DEFINE l == list[todo]
  <2>1. PICK f \in Contents : got' = Put(got, l, f) /\ file' = f
    BY <1>1 DEF Parse
  <2>2. UNCHANGED <<list, todo, algs>>
    BY <1>1 DEF Parse
  <2>3. l \notin DOMAIN got
    <3>1. l \in Nat /\ \A n \in DOMAIN got : n < l
      BY <1>1, ParsedIsLast
    <3> QED BY <3>1
  <2>4. /\ DOMAIN got' = DOMAIN got \union {l}
        /\ got'[l] = f
        /\ \A n \in DOMAIN got : got'[n] = got[n]
    BY <2>1, <2>3 DEF Put
  <2>5. MergedAlgs(got) \subseteq MergedAlgs(got')
    BY <2>4 DEF MergedAlgs
  <2> QED BY <2>1, <2>2, <2>4, <2>5 DEF InHand
<1>2. CASE AddAlg
  <2>1. /\ pc = "algs" /\ item \in 1 .. Len(file.algs) /\ file \in Contents
        /\ UNCHANGED <<pc, list, todo, file, got>>
        /\ algs' = algs \union {file.algs[item]}
    BY <1>2 DEF AddAlg, MoreItems, Types, Walk
  <2>2. file.algs \in Seq(Algs)
    BY <2>1, FileParts
  <2>3. file.algs[item] \in Algs /\ item \in DOMAIN file.algs
    BY <2>1, <2>2, ElementOfSeq
  <2>4. file.algs[item] \in MergedAlgs(got)
    BY <2>1, <2>3 DEF InHand, MergedAlgs
  <2> QED BY <2>1, <2>4 DEF InHand
<1>3. CASE EndInterfaces \/ AddInterface \/ InterfaceNotStored \/ AlgNotStored
  BY <1>3 DEF InHand, EndInterfaces, AddInterface, InterfaceNotStored, AlgNotStored,
              MoreItems, config, history
<1>4. CASE \/ Refuse \/ OpenDir \/ (\E n \in Names : Find(n)) \/ MoveOn \/ Insert \/ EndOfDir
           \/ ReadFails \/ NotJson \/ EndFile
           \/ FinishInterfaces \/ FinishAlgs \/ OverrunAlgs \/ Finish \/ Destroy
  BY <1>4 DEF InHand, Refuse, OpenDir, Find, MoveOn, Insert, EndOfDir, ReadFails, NotJson,
              AtFile, EndFile, FinishInterfaces, FinishAlgs, OverrunAlgs, Finish, Destroy,
              config, history
<1>5. CASE UNCHANGED vars
  BY <1>5 DEF InHand, vars
<1> QED BY <1>1, <1>2, <1>3, <1>4, <1>5 DEF Next

LEMMA CodeInductive ==
  Types /\ Walk /\ SortInv /\ Placed /\ InHand /\ CodeInv /\ [Next]_vars => CodeInv'
<1> SUFFICES ASSUME Types, Walk, SortInv, Placed, InHand, CodeInv, [Next]_vars
             PROVE  CodeInv'
  OBVIOUS
<1>1. CASE Refuse
  BY <1>1 DEF Refuse, CodeInv, CodeNamesAProblem, FoundSoFar, PathErrors
<1>2. CASE OpenDir \/ (\E n \in Names : Find(n)) \/ MoveOn \/ Insert \/ EndOfDir
  BY <1>2 DEF OpenDir, Find, MoveOn, Insert, EndOfDir, CodeInv, CodeNamesAProblem, FoundSoFar,
              config, history
<1>3. CASE ReadFails
  BY <1>3 DEF ReadFails, AtFile, CodeInv, CodeNamesAProblem, FoundSoFar, config
<1>4. CASE Parse
  <2> DEFINE l == list[todo]
  <2>1. PICK f \in Contents : got' = Put(got, l, f) /\ rv' = WrongType(f)
    BY <1>4 DEF Parse
  <2>2. /\ pc = "file" /\ pc' = "interfaces" /\ UNCHANGED <<algs, ret, unread>>
        /\ ret = "none"
    BY <1>4 DEF Parse, AtFile, CodeInv
  <2>3. l \notin DOMAIN got
    <3>1. l \in Nat /\ \A n \in DOMAIN got : n < l
      BY <1>4, ParsedIsLast
    <3> QED BY <3>1
  <2>4. /\ DOMAIN got' = DOMAIN got \union {l}
        /\ got'[l] = f
        /\ \A n \in DOMAIN got : got'[n] = got[n]
    BY <2>1, <2>3 DEF Put
  <2>5. MergedAlgs(got) \subseteq MergedAlgs(got')
    BY <2>4 DEF MergedAlgs
  <2>6. CASE f.wrong
    <3>1. rv' = "XA_CONFIG_FILE_ERROR"
      BY <2>1, <2>6 DEF WrongType
    <3> QED BY <3>1, <2>2, <2>4, <2>6 DEF CodeInv, CodeNamesAProblem, FoundSoFar
  <2>7. CASE ~f.wrong
    <3>1. rv' = rv
      BY <2>1, <2>7 DEF WrongType
    <3> QED BY <3>1, <2>2, <2>4, <2>5, <2>7 DEF CodeInv, CodeNamesAProblem, FoundSoFar
  <2> QED BY <2>6, <2>7
<1>5. CASE \/ NotJson \/ EndInterfaces \/ AddInterface \/ InterfaceNotStored
           \/ AddAlg \/ AlgNotStored \/ EndFile
  BY <1>5 DEF NotJson, AtFile, EndInterfaces, AddInterface, InterfaceNotStored, MoreItems,
              AddAlg, AlgNotStored, EndFile, CodeInv, CodeNamesAProblem, FoundSoFar,
              config, history
<1>6. CASE FinishInterfaces \/ OverrunAlgs
  BY <1>6 DEF FinishInterfaces, OverrunAlgs, CodeInv, CodeNamesAProblem, FoundSoFar,
              config, history
<1>7. CASE FinishAlgs
  <2>1. UNCHANGED <<algs, got, unread, ret>> /\ pc = "finish" /\ pc' = "return" /\ ret = "none"
    BY <1>7 DEF FinishAlgs, config, history, CodeInv
  <2>2. CASE algs \cap BadNames # {}
    <3>1. rv' = "XA_CONFIG_FILE_ERROR"
      BY <1>7, <2>2 DEF FinishAlgs, UnknownAlg
    <3>2. MergedAlgs(got') \cap BadNames # {}
      BY <2>1, <2>2 DEF InHand
    <3> QED BY <3>1, <3>2, <2>1 DEF CodeInv, CodeNamesAProblem, FoundSoFar
  <2>3. CASE algs \cap BadNames = {}
    <3>1. rv' = rv
      BY <1>7, <2>3 DEF FinishAlgs, UnknownAlg
    <3> QED BY <3>1, <2>1, <2>3 DEF CodeInv, CodeNamesAProblem, FoundSoFar
  <2> QED BY <2>2, <2>3
<1>8. CASE Finish
  <2>1. /\ UNCHANGED <<algs, got, unread, rv, list>> /\ pc = "return" /\ pc' = "done"
        /\ ret = "none"
        /\ ret' = IF rv = "XA_OK" THEN "config" ELSE "NULL"
    BY <1>8 DEF Finish, config, history, CodeInv
  <2>2. rv = "XA_OK" => algs \subseteq Algorithms
    BY <2>1 DEF CodeInv, FoundSoFar, Types, Algs
  <2>3. FoundSoFar
    BY <2>1 DEF CodeInv
  <2> QED BY <2>1, <2>2, <2>3 DEF CodeInv, CodeNamesAProblem, FoundSoFar
<1>9. CASE Destroy
  BY <1>9 DEF Destroy, CodeInv, CodeNamesAProblem, config, history
<1>10. CASE UNCHANGED vars
  BY <1>10 DEF vars, CodeInv, CodeNamesAProblem, FoundSoFar
<1> QED BY <1>1, <1>2, <1>3, <1>4, <1>5, <1>6, <1>7, <1>8, <1>9, <1>10 DEF Next

LEMMA CodeInitially == Init => InHand /\ CodeInv
BY DEF Init, InHand, CodeInv, CodeNamesAProblem, FoundSoFar, MergedAlgs, Empty

LEMMA CodeInvariant ==
  Spec => [](Types /\ Walk /\ SortInv /\ Placed /\ InHand /\ CodeInv)
<1> DEFINE IInv == Types /\ Walk /\ SortInv /\ Placed /\ InHand /\ CodeInv
<1>1. Init => IInv
  BY TypesInitially, SortInitially, PlacedInitially, CodeInitially
<1>2. IInv /\ [Next]_vars => IInv'
  BY TypesInductive, SortInductive, PlacedInductive, InHandInductive, CodeInductive
<1> HIDE DEF IInv
<1>3. Spec => []IInv
  BY <1>1, <1>2, PTL DEF Spec
<1> QED BY <1>3 DEF IInv

(* A configuration is handed over only when every file found was read and     *)
(* everything in it was right; an error code names a problem there is.        *)
THEOREM CodeAlwaysNamesAProblem == Spec => []CodeNamesAProblem
<1>1. CodeInv => CodeNamesAProblem
  BY DEF CodeInv
<1> QED BY <1>1, CodeInvariant, PTL

-----------------------------------------------------------------------------
(* The blocks the configuration points to: a string for each setting that has *)
(* one, an interface with its name, an algorithm; and those that are lost.    *)
Owned == {s \in Strings : settings[s] # Unset}
Named == DOMAIN interfaces \ {NoName}
Lost  == lost.repeated + lost.refused

Finite == IsFiniteSet(DOMAIN interfaces) /\ IsFiniteSet(algs)

Kept          == Cardinality(Owned) + Cardinality(Named)
NumFiles      == Len(list)
NumInterfaces == Cardinality(DOMAIN interfaces)
NumAlgs       == Cardinality(algs)

(* Nothing is stored before the first file is read.                           *)
Blank == /\ settings = [s \in Settings |-> Unset]
         /\ DOMAIN interfaces = {} /\ algs = {}
         /\ lost.repeated = 0 /\ lost.refused = 0

(* What is allocated at every point of config_read.                           *)
HeapInv ==
  /\ Finite
  /\ pc \in {"enter", "readdir", "insert"} => Blank
  /\ pc = "enter" => heap = 0
  /\ pc = "readdir" => heap = 2 * NumFiles
  /\ pc = "insert" => heap = 2 * NumFiles + 2
  /\ pc = "file" =>
       heap = 2 * NumFiles + 1 + Kept + NumInterfaces + NumAlgs + Lost
  /\ pc \in {"interfaces", "algs"} =>
       heap = 2 * NumFiles + 3 + Kept + NumInterfaces + NumAlgs + Lost
  /\ pc = "finish" => heap = 2 * NumFiles + 2 + Kept + NumAlgs + Lost
  /\ pc = "return" => heap = 2 * NumFiles + 2 + Kept + Lost
  /\ ret = "config" /\ pc = "done" => heap = 2 + Kept + Lost
  /\ pc = "destroyed" \/ ret = "NULL" => heap = Lost
  /\ pc = "broken" => heap \in Nat

LEMMA SevenAreFinite ==
  ASSUME NEW a, NEW b, NEW c, NEW d, NEW e, NEW f, NEW g
  PROVE  IsFiniteSet({a, b, c, d, e, f, g})
<1>1. \A S, x : IsFiniteSet(S) => IsFiniteSet(S \union {x})
  BY FS_AddElement
<1>2. IsFiniteSet({a} \union {b} \union {c} \union {d})
  BY <1>1, FS_Singleton, Zenon
<1>3. IsFiniteSet({a} \union {b} \union {c} \union {d} \union {e} \union {f} \union {g})
  BY <1>1, <1>2, Zenon
<1>4. {a, b, c, d, e, f, g}
        = {a} \union {b} \union {c} \union {d} \union {e} \union {f} \union {g}
  OBVIOUS
<1> QED BY <1>3, <1>4, Zenon

LEMMA StringsAreFinite == IsFiniteSet(Strings)
<1> DEFINE A == {"identity.device_id", "identity.partner_id", "hardware.model",
                 "hardware.serial_number", "hardware.manufacturer",
                 "hardware.last_reboot_reason", "firmware.name"}
           B == {"behavior.url", "dns_txt.base_fqdn", "jwt.keys_dir", "issuer.url",
                 "issuer.ca_bundle_path", "mtls.cert_path", "mtls.private_key_path"}
<1>1. IsFiniteSet(A) /\ IsFiniteSet(B)
  BY SevenAreFinite
<1>2. Strings = A \union B
  BY DEF Strings
<1> HIDE DEF A, B
<1>3. IsFiniteSet(A \union B)
  BY <1>1, FS_Union
<1> QED BY <1>2, <1>3

LEMMA CountsAreNat ==
  ASSUME Types, Finite
  PROVE  /\ Cardinality(Owned) \in Nat /\ IsFiniteSet(Owned)
         /\ Cardinality(Named) \in Nat /\ IsFiniteSet(Named)
         /\ NumInterfaces \in Nat
         /\ NumAlgs \in Nat
         /\ NumFiles \in Nat
         /\ Lost \in Nat
<1>1. IsFiniteSet(Owned)
  BY StringsAreFinite, FS_Subset DEF Owned
<1>2. IsFiniteSet(Named)
  BY FS_Subset DEF Named, Finite
<1>3. lost.repeated \in Nat /\ lost.refused \in Nat
  BY DEF Types
<1> QED BY <1>1, <1>2, <1>3, FS_CardinalityType
       DEF Finite, Types, Lost, NumFiles, NumInterfaces, NumAlgs

(* config_destroy frees every string json_to_config may have stored.          *)
LEMMA DestroyedIsAll ==
  ASSUME Types, Finite
  PROVE  ConfigBlocks = 2 + Kept
<1>1. Destroyed = Strings
  BY DEF Destroyed, Strings
<1>2. ConfigBlocks = 1 + Cardinality(Owned) + 1 + Cardinality(Named)
  BY <1>1 DEF ConfigBlocks, Owned, Named
<1> QED BY <1>2, CountsAreNat DEF Kept

(* A step that stores nothing leaves the counts alone.                        *)
LEMMA CountsKept ==
  ASSUME UNCHANGED <<settings, interfaces, algs, lost>>
  PROVE  /\ Kept' = Kept /\ Lost' = Lost
         /\ NumInterfaces' = NumInterfaces
         /\ NumAlgs' = NumAlgs
         /\ Finite' = Finite /\ Blank' = Blank
<1>1. Kept' = Kept
  BY DEF Kept, Owned, Named
<1>2. Lost' = Lost
  BY DEF Lost
<1>3. Finite' = Finite
  BY DEF Finite
<1>4. Blank' = Blank
  BY DEF Blank
<1>5. NumInterfaces' = NumInterfaces /\ NumAlgs' = NumAlgs
  BY DEF NumInterfaces, NumAlgs
<1> QED BY <1>1, <1>2, <1>3, <1>4, <1>5

LEMMA KeptIsNat ==
  ASSUME Types, Finite
  PROVE  Kept \in Nat
BY CountsAreNat DEF Kept

(* A string that a file gives is fresh or replaces one, which is freed.       *)
LEMMA ParseCounts ==
  ASSUME Types, Finite, NEW f \in Contents, settings' = Overridden(f), UNCHANGED interfaces
  PROVE  /\ Cardinality(FreshStrings(f)) \in Nat
         /\ Kept' = Kept + Cardinality(FreshStrings(f))
<1>1. f.settings \in [Settings -> Values \union {Absent}]
  BY FileParts
<1>2. Owned' = Owned \union FreshStrings(f)
  <2> SUFFICES ASSUME NEW s \in Strings
               PROVE  settings'[s] # Unset
                        <=> settings[s] # Unset \/ (f.settings[s] # Absent /\ settings[s] = Unset)
    BY DEF Owned, FreshStrings
  <2>1. s \in Settings
    BY DEF Settings
  <2>2. CASE f.settings[s] = Absent
    BY <2>1, <2>2 DEF Overridden
  <2>3. CASE f.settings[s] # Absent
    <3>1. settings'[s] = f.settings[s]
      BY <2>1, <2>3 DEF Overridden
    <3>2. settings'[s] \in Values
      BY <1>1, <2>1, <2>3, <3>1
    <3> QED BY <3>2, <2>3, FilesAssumption
  <2> QED BY <2>2, <2>3
<1>3. Owned \cap FreshStrings(f) = {}
  BY DEF Owned, FreshStrings
<1>4. IsFiniteSet(Owned) /\ IsFiniteSet(FreshStrings(f))
  BY CountsAreNat, StringsAreFinite, FS_Subset DEF FreshStrings
<1>5. Cardinality(Owned') = Cardinality(Owned) + Cardinality(FreshStrings(f)) - 0
  BY <1>2, <1>3, <1>4, FS_Union, FS_EmptySet
<1>6. /\ Cardinality(FreshStrings(f)) \in Nat /\ Cardinality(Owned) \in Nat
      /\ Cardinality(Named) \in Nat
  BY <1>4, FS_CardinalityType, CountsAreNat
<1>7. Cardinality(Named') = Cardinality(Named)
  BY DEF Named
<1> QED BY <1>5, <1>6, <1>7 DEF Kept

(* A new interface costs its struct and, if it has one, its name.             *)
LEMMA InterfaceCounts ==
  ASSUME Types, Finite, NEW i \in Items, interfaces' = Put(interfaces, i.name, i.cost),
         i.name \notin DOMAIN interfaces, UNCHANGED settings
  PROVE  /\ IsFiniteSet(DOMAIN interfaces')
         /\ Kept' \in Nat /\ NumInterfaces' \in Nat
         /\ Kept' + NumInterfaces'
              = Kept + NumInterfaces + Blocks(i)
<1>1. DOMAIN interfaces' = DOMAIN interfaces \union {i.name}
  BY DEF Put
<1>2. /\ IsFiniteSet(DOMAIN interfaces')
      /\ NumInterfaces' = NumInterfaces + 1
  BY <1>1, FS_AddElement DEF Finite, NumInterfaces
<1>3. Cardinality(Named') + 1 = Cardinality(Named) + Blocks(i)
  <2>1. CASE i.name = NoName
    <3>1. Named' = Named
      BY <1>1, <2>1 DEF Named
    <3> QED BY <3>1, <2>1 DEF Blocks
  <2>2. CASE i.name # NoName
    <3>1. Named' = Named \union {i.name} /\ i.name \notin Named
      BY <1>1, <2>2 DEF Named
    <3>2. Cardinality(Named') = Cardinality(Named) + 1
      BY <3>1, CountsAreNat, FS_AddElement
    <3> QED BY <3>2, <2>2, CountsAreNat DEF Blocks
  <2> QED BY <2>1, <2>2
<1>4. Cardinality(Owned') = Cardinality(Owned)
  BY DEF Owned
<1>5. Blocks(i) \in Nat
  BY DEF Blocks
<1>6. Cardinality(Named') \in Nat
  <2>1. IsFiniteSet(Named')
    BY <1>2, FS_Subset DEF Named
  <2> QED BY <2>1, FS_CardinalityType
<1>7. /\ Cardinality(Owned) \in Nat /\ Cardinality(Named) \in Nat
      /\ NumInterfaces \in Nat
  BY CountsAreNat
<1>8. Kept = Cardinality(Owned) + Cardinality(Named)
      /\ Kept' = Cardinality(Owned') + Cardinality(Named')
  BY DEF Kept
<1> QED BY <1>2, <1>3, <1>4, <1>5, <1>6, <1>7, <1>8

LEMMA HeapInductive ==
  Types /\ Walk /\ CodeInv /\ HeapInv /\ CodeInv' /\ [Next]_vars => HeapInv'
<1> SUFFICES ASSUME Types, Walk, CodeInv, HeapInv, CodeInv', [Next]_vars
             PROVE  HeapInv'
  OBVIOUS
<1>f. Finite
  BY DEF HeapInv
<1>n. /\ Kept \in Nat /\ Lost \in Nat /\ NumFiles \in Nat
      /\ NumInterfaces \in Nat /\ NumAlgs \in Nat
  BY <1>f, CountsAreNat, KeptIsNat
<1>r. /\ ret = "none" <=> pc \notin {"done", "destroyed"}
      /\ ret' = "none" <=> pc' \notin {"done", "destroyed"}
  BY DEF CodeInv
<1>l. UNCHANGED list => NumFiles' = NumFiles
  BY DEF NumFiles
<1>b. Blank => Kept = 0 /\ Lost = 0 /\ NumInterfaces = 0 /\ NumAlgs = 0
  <2> SUFFICES ASSUME Blank
               PROVE  Kept = 0 /\ Lost = 0 /\ NumInterfaces = 0 /\ NumAlgs = 0
    OBVIOUS
  <2>1. Owned = {} /\ Named = {}
    BY DEF Blank, Owned, Named, Settings
  <2> QED BY <2>1, FS_EmptySet DEF Blank, Kept, Lost, NumInterfaces, NumAlgs
<1>c. UNCHANGED <<settings, interfaces, algs, lost>> =>
        /\ Kept' = Kept /\ Lost' = Lost
        /\ NumInterfaces' = NumInterfaces /\ NumAlgs' = NumAlgs
        /\ Finite' = Finite /\ Blank' = Blank
  BY CountsKept
<1>1. CASE Refuse
  <2>1. /\ pc = "enter" /\ pc' = "done" /\ ret' = "NULL" /\ heap' = heap
        /\ UNCHANGED <<settings, interfaces, algs, lost>>
    BY <1>1 DEF Refuse, config, history
  <2>2. heap = 0 /\ Blank
    BY <2>1 DEF HeapInv
  <2> QED BY <2>1, <2>2, <1>b, <1>c, <1>f DEF HeapInv
<1>2. CASE OpenDir
  <2>1. /\ pc = "enter" /\ pc' = "readdir" /\ heap' = heap
        /\ UNCHANGED <<list, ret, settings, interfaces, algs, lost>>
    BY <1>2 DEF OpenDir, config, history
  <2>2. heap = 0 /\ Blank
    BY <2>1 DEF HeapInv
  <2>3. NumFiles' = 0
    BY <2>1 DEF CodeInv, NumFiles
  <2> QED BY <2>1, <2>2, <2>3, <1>c, <1>f, <1>r DEF HeapInv
<1>3. CASE \E n \in Names : Find(n)
  <2>1. /\ pc = "readdir" /\ pc' = "insert" /\ heap' = heap + 2
        /\ UNCHANGED <<list, ret, settings, interfaces, algs, lost>>
    BY <1>3 DEF Find, config, history
  <2>2. heap = 2 * NumFiles /\ Blank
    BY <2>1 DEF HeapInv
  <2>3. heap' = 2 * NumFiles' + 2
    BY <2>1, <2>2, <1>l, <1>n
  <2> QED BY <2>1, <2>2, <2>3, <1>c, <1>f, <1>r DEF HeapInv
<1>4. CASE MoveOn
  <2>1. /\ pc = "insert" /\ pc' = "insert" /\ heap' = heap
        /\ UNCHANGED <<list, ret, settings, interfaces, algs, lost>>
    BY <1>4 DEF MoveOn, config, history
  <2>2. heap = 2 * NumFiles + 2 /\ Blank
    BY <2>1 DEF HeapInv
  <2> QED BY <2>1, <2>2, <1>l, <1>c, <1>f, <1>r DEF HeapInv
<1>5. CASE Insert
  <2>1. /\ pc = "insert" /\ pc' = "readdir" /\ heap' = heap /\ list' = Inserted
        /\ UNCHANGED <<ret, settings, interfaces, algs, lost>>
    BY <1>5 DEF Insert, config, history
  <2>2. heap = 2 * NumFiles + 2 /\ Blank
    BY <2>1 DEF HeapInv
  <2>3. NumFiles' = NumFiles + 1
    BY <2>1, InsertedIsSeq DEF Walk, Types, NumFiles
  <2>4. heap' = 2 * NumFiles'
    BY <2>1, <2>2, <2>3, <1>n
  <2> QED BY <2>1, <2>2, <2>4, <1>c, <1>f, <1>r DEF HeapInv
<1>6. CASE EndOfDir
  <2>1. /\ pc = "readdir" /\ pc' = "file" /\ heap' = heap + 1
        /\ UNCHANGED <<list, ret, settings, interfaces, algs, lost>>
    BY <1>6 DEF EndOfDir, config, history
  <2>2. heap = 2 * NumFiles /\ Blank
    BY <2>1 DEF HeapInv
  <2>3. heap' = 2 * NumFiles + 1 + Kept + NumInterfaces + NumAlgs + Lost
    BY <2>1, <2>2, <1>b, <1>n
  <2> QED BY <2>1, <2>3, <1>l, <1>c, <1>f, <1>r DEF HeapInv
<1>7. CASE ReadFails \/ NotJson
  <2>1. /\ pc = "file" /\ pc' = "file" /\ heap' = heap
        /\ UNCHANGED <<list, ret, settings, interfaces, algs, lost>>
    BY <1>7 DEF ReadFails, NotJson, AtFile, config, history
  <2>2. heap = 2 * NumFiles + 1 + Kept + NumInterfaces + NumAlgs + Lost
    BY <2>1 DEF HeapInv
  <2> QED BY <2>1, <2>2, <1>l, <1>c, <1>f, <1>r DEF HeapInv
<1>8. CASE Parse
  <2>1. PICK f \in Contents : settings' = Overridden(f)
                               /\ heap' = heap + 2 + Cardinality(FreshStrings(f))
    BY <1>8 DEF Parse
  <2> DEFINE b == Cardinality(FreshStrings(f))
  <2>2. /\ pc = "file" /\ pc' = "interfaces"
        /\ UNCHANGED <<list, interfaces, algs, lost, ret>>
    BY <1>8 DEF Parse, AtFile
  <2>3. Kept' = Kept + b /\ b \in Nat
    BY <2>1, <2>2, <1>f, ParseCounts
  <2>4. heap = 2 * NumFiles + 1 + Kept + NumInterfaces + NumAlgs + Lost /\ heap' = heap + 2 + b
    BY <2>1, <2>2 DEF HeapInv
  <2> HIDE DEF b
  <2>5. heap' = 2 * NumFiles + 3 + Kept' + NumInterfaces + NumAlgs + Lost
    BY <1>n, <2>3, <2>4
  <2>6. /\ Lost' = Lost /\ NumInterfaces' = NumInterfaces /\ NumAlgs' = NumAlgs
        /\ Finite'
    BY <2>2, <1>f DEF Lost, NumInterfaces, NumAlgs, Finite
  <2> QED BY <2>2, <2>5, <2>6, <1>l, <1>r DEF HeapInv
<1>9. CASE AddInterface
  <2> DEFINE i == file.interfaces[item]
  <2>1. /\ pc = "interfaces" /\ file \in Contents /\ item \in 1 .. Len(file.interfaces)
        /\ UNCHANGED <<pc, list, settings, algs, lost, ret>>
        /\ interfaces' = Put(interfaces, i.name, i.cost)
        /\ heap' = heap + IF i.name \in DOMAIN interfaces THEN 0 ELSE Blocks(i)
    BY <1>9 DEF AddInterface, MoreItems, history, Walk, Types
  <2>2. i \in Items
    BY <2>1, FileParts, ElementOfSeq
  <2>3. Lost' = Lost /\ NumAlgs' = NumAlgs
    BY <2>1 DEF Lost, NumAlgs
  <2>4. heap = 2 * NumFiles + 3 + Kept + NumInterfaces + NumAlgs + Lost
    BY <2>1 DEF HeapInv
  <2> HIDE DEF i
  <2>5. CASE i.name \in DOMAIN interfaces
    <3>1. DOMAIN interfaces' = DOMAIN interfaces
      BY <2>1, <2>5 DEF Put
    <3>2. Kept' = Kept /\ NumInterfaces' = NumInterfaces /\ Finite'
      BY <3>1, <2>1, <1>f DEF Kept, Owned, Named, Finite, NumInterfaces
    <3>3. heap' = heap
      BY <2>1, <2>4, <2>5, <1>n
    <3> QED BY <3>2, <3>3, <2>1, <2>3, <2>4, <1>l, <1>r DEF HeapInv
  <2>6. CASE i.name \notin DOMAIN interfaces
    <3>1. /\ IsFiniteSet(DOMAIN interfaces')
          /\ Kept' \in Nat /\ NumInterfaces' \in Nat
          /\ Kept' + NumInterfaces' = Kept + NumInterfaces + Blocks(i)
      BY <2>1, <2>2, <2>6, <1>f, InterfaceCounts
    <3>2. Finite'
      BY <3>1, <2>1, <1>f DEF Finite
    <3>3. heap' = heap + Blocks(i) /\ Blocks(i) \in Nat
      BY <2>1, <2>6 DEF Blocks
    <3>4. heap' = 2 * NumFiles + 3 + Kept' + NumInterfaces' + NumAlgs + Lost
      BY <3>1, <3>3, <2>4, <1>n
    <3> QED BY <3>2, <3>4, <2>1, <2>3, <1>l, <1>r DEF HeapInv
  <2> QED BY <2>5, <2>6
<1>10. CASE InterfaceNotStored
  <2> DEFINE b == Blocks(file.interfaces[item])
  <2>1. /\ pc = "interfaces" /\ UNCHANGED <<pc, list, settings, interfaces, algs, ret>>
        /\ heap' = heap + b
        /\ lost' = [lost EXCEPT !.refused = @ + b]
    BY <1>10 DEF InterfaceNotStored, MoreItems, config
  <2>2. b \in Nat
    BY DEF Blocks
  <2> HIDE DEF b
  <2>3. Lost' = Lost + b
    BY <2>1, <2>2 DEF Lost, Types
  <2>4. /\ Kept' = Kept /\ NumInterfaces' = NumInterfaces /\ NumAlgs' = NumAlgs /\ Finite'
    BY <2>1, <1>f DEF Kept, Owned, Named, NumInterfaces, NumAlgs, Finite
  <2>5. heap = 2 * NumFiles + 3 + Kept + NumInterfaces + NumAlgs + Lost
    BY <2>1 DEF HeapInv
  <2>6. heap' = 2 * NumFiles + 3 + Kept + NumInterfaces + NumAlgs + Lost'
    BY <2>1, <2>2, <2>3, <2>5, <1>n
  <2> QED BY <2>1, <2>4, <2>6, <1>l, <1>r DEF HeapInv
<1>11. CASE EndInterfaces
  <2>1. /\ pc = "interfaces" /\ pc' = "algs" /\ heap' = heap
        /\ UNCHANGED <<list, ret, settings, interfaces, algs, lost>>
    BY <1>11 DEF EndInterfaces, config, history
  <2>2. heap = 2 * NumFiles + 3 + Kept + NumInterfaces + NumAlgs + Lost
    BY <2>1 DEF HeapInv
  <2> QED BY <2>1, <2>2, <1>l, <1>c, <1>f, <1>r DEF HeapInv
<1>12. CASE AddAlg
  <2> DEFINE a == file.algs[item]
  <2>1. /\ pc = "algs" /\ UNCHANGED <<pc, list, settings, interfaces, ret>>
        /\ heap' = heap + 1 /\ algs' = algs \union {a}
        /\ lost' = [lost EXCEPT !.repeated = @ + IF a \in algs THEN 1 ELSE 0]
    BY <1>12 DEF AddAlg, MoreItems
  <2> HIDE DEF a
  <2>2. /\ IsFiniteSet(algs')
        /\ NumAlgs' = IF a \in algs THEN NumAlgs ELSE NumAlgs + 1
    BY <2>1, <1>f, FS_AddElement DEF Finite, NumAlgs
  <2>3. Lost' = IF a \in algs THEN Lost + 1 ELSE Lost
    BY <2>1 DEF Lost, Types
  <2>4. Kept' = Kept /\ NumInterfaces' = NumInterfaces /\ Finite'
    BY <2>1, <2>2, <1>f DEF Kept, Owned, Named, NumInterfaces, Finite
  <2>5. heap = 2 * NumFiles + 3 + Kept + NumInterfaces + NumAlgs + Lost
    BY <2>1 DEF HeapInv
  <2>6. heap' = 2 * NumFiles + 3 + Kept + NumInterfaces + NumAlgs' + Lost'
    BY <2>1, <2>2, <2>3, <2>5, <1>n
  <2> QED BY <2>1, <2>4, <2>6, <1>l, <1>r DEF HeapInv
<1>13. CASE AlgNotStored
  <2>1. /\ pc = "algs" /\ UNCHANGED <<pc, list, settings, interfaces, algs, ret>>
        /\ heap' = heap + 1
        /\ lost' = [lost EXCEPT !.refused = @ + 1]
    BY <1>13 DEF AlgNotStored, MoreItems, config
  <2>2. Lost' = Lost + 1
    BY <2>1 DEF Lost, Types
  <2>3. /\ Kept' = Kept /\ NumInterfaces' = NumInterfaces /\ NumAlgs' = NumAlgs /\ Finite'
    BY <2>1, <1>f DEF Kept, Owned, Named, NumInterfaces, NumAlgs, Finite
  <2>4. heap = 2 * NumFiles + 3 + Kept + NumInterfaces + NumAlgs + Lost
    BY <2>1 DEF HeapInv
  <2>5. heap' = 2 * NumFiles + 3 + Kept + NumInterfaces + NumAlgs + Lost'
    BY <2>1, <2>2, <2>4, <1>n
  <2> QED BY <2>1, <2>3, <2>5, <1>l, <1>r DEF HeapInv
<1>14. CASE EndFile
  <2>1. /\ pc = "algs" /\ pc' = "file" /\ heap' = heap - 2
        /\ UNCHANGED <<list, ret, settings, interfaces, algs, lost>>
    BY <1>14 DEF EndFile, config, history
  <2>2. heap = 2 * NumFiles + 3 + Kept + NumInterfaces + NumAlgs + Lost
    BY <2>1 DEF HeapInv
  <2>3. heap' = 2 * NumFiles + 1 + Kept + NumInterfaces + NumAlgs + Lost
    BY <2>1, <2>2, <1>n
  <2> QED BY <2>1, <2>3, <1>l, <1>c, <1>f, <1>r DEF HeapInv
<1>15. CASE FinishInterfaces
  <2>1. /\ pc = "file" /\ pc' = "finish" /\ heap' = heap + 1 - NumInterfaces
        /\ UNCHANGED <<list, ret, settings, interfaces, algs, lost>>
    BY <1>15 DEF FinishInterfaces, config, history, NumInterfaces
  <2>2. heap = 2 * NumFiles + 1 + Kept + NumInterfaces + NumAlgs + Lost
    BY <2>1 DEF HeapInv
  <2>3. heap' = 2 * NumFiles + 2 + Kept + NumAlgs + Lost
    BY <2>1, <2>2, <1>n
  <2> QED BY <2>1, <2>3, <1>l, <1>c, <1>f, <1>r DEF HeapInv
<1>16. CASE FinishAlgs
  <2>1. /\ pc = "finish" /\ pc' = "return" /\ heap' = heap - NumAlgs
        /\ UNCHANGED <<list, ret, settings, interfaces, algs, lost>>
    BY <1>16 DEF FinishAlgs, config, history, NumAlgs
  <2>2. heap = 2 * NumFiles + 2 + Kept + NumAlgs + Lost
    BY <2>1 DEF HeapInv
  <2>3. heap' = 2 * NumFiles + 2 + Kept + Lost
    BY <2>1, <2>2, <1>n
  <2> QED BY <2>1, <2>3, <1>l, <1>c, <1>f, <1>r DEF HeapInv
<1>17. CASE OverrunAlgs
  <2>1. /\ pc = "finish" /\ pc' = "broken" /\ heap' = heap
        /\ UNCHANGED <<list, ret, settings, interfaces, algs, lost>>
    BY <1>17 DEF OverrunAlgs, config, history
  <2>2. heap = 2 * NumFiles + 2 + Kept + NumAlgs + Lost
    BY <2>1 DEF HeapInv
  <2>3. heap' \in Nat
    BY <2>1, <2>2, <1>n
  <2> QED BY <2>1, <2>3, <1>c, <1>f, <1>r DEF HeapInv
<1>18. CASE Finish
  <2>1. /\ pc = "return" /\ pc' = "done"
        /\ UNCHANGED <<settings, interfaces, algs, lost>>
        /\ \/ ret' = "config" /\ heap' = heap - 2 * NumFiles
           \/ ret' = "NULL" /\ heap' = heap - 2 * NumFiles - (2 + Kept)
    BY <1>18, <1>f, DestroyedIsAll DEF Finish, config, history, ListBlocks, NumFiles
  <2>2. heap = 2 * NumFiles + 2 + Kept + Lost
    BY <2>1 DEF HeapInv
  <2>3. CASE ret' = "config"
    <3>1. heap' = 2 + Kept + Lost
      BY <2>1, <2>2, <2>3, <1>n
    <3> QED BY <3>1, <2>1, <2>3, <1>c, <1>f DEF HeapInv
  <2>4. CASE ret' = "NULL"
    <3>1. heap' = Lost
      BY <2>1, <2>2, <2>4, <1>n
    <3> QED BY <3>1, <2>1, <2>4, <1>c, <1>f DEF HeapInv
  <2> QED BY <2>1, <2>3, <2>4
<1>19. CASE Destroy
  <2>1. /\ pc = "done" /\ pc' = "destroyed" /\ ret = "config" /\ ret' = ret
        /\ UNCHANGED <<settings, interfaces, algs, lost>>
        /\ heap' = heap - (2 + Kept)
    BY <1>19, <1>f, DestroyedIsAll DEF Destroy, config, history
  <2>2. heap = 2 + Kept + Lost
    BY <2>1 DEF HeapInv
  <2>3. heap' = Lost
    BY <2>1, <2>2, <1>n
  <2> QED BY <2>1, <2>3, <1>c, <1>f DEF HeapInv
<1>20. CASE UNCHANGED vars
  <2>1. UNCHANGED <<pc, list, ret, heap, settings, interfaces, algs, lost>>
    BY <1>20 DEF vars
  <2> QED BY <2>1, <1>l, <1>c, <1>f DEF HeapInv
<1> QED
  BY <1>1, <1>2, <1>3, <1>4, <1>5, <1>6, <1>7, <1>8, <1>9, <1>10, <1>11, <1>12, <1>13,
     <1>14, <1>15, <1>16, <1>17, <1>18, <1>19, <1>20 DEF Next

LEMMA HeapInitially == Init => HeapInv
<1> SUFFICES ASSUME Init
             PROVE  HeapInv
  OBVIOUS
<1>1. DOMAIN interfaces = {} /\ algs = {}
  BY DEF Init, Empty
<1>2. Finite /\ Blank
  BY <1>1, FS_EmptySet DEF Init, Finite, Blank
<1> QED BY <1>2 DEF Init, HeapInv

LEMMA HeapInvariant == Spec => [](Types /\ CodeInv /\ HeapInv)
<1> DEFINE IInv == Types /\ Walk /\ SortInv /\ Placed /\ InHand /\ CodeInv
<1>1. Spec => []IInv
  BY CodeInvariant
<1>2. Init => HeapInv
  BY HeapInitially
<1>3. IInv /\ IInv' /\ HeapInv /\ [Next]_vars => HeapInv'
  BY HeapInductive
<1>4. IInv => Types /\ CodeInv
  OBVIOUS
<1> HIDE DEF IInv
<1> QED BY <1>1, <1>2, <1>3, <1>4, PTL DEF Spec

(* Whatever the files hold and in whatever order they come, every block that  *)
(* config_read allocates is released again when it fails, or by               *)
(* config_destroy, but for what the hashmaps lose.                            *)
THEOREM NothingElseEverLeaks == Spec => []NothingElseLeaks
<1>1. HeapInv => NothingElseLeaks
  BY DEF HeapInv, NothingElseLeaks, Lost
<1> QED BY <1>1, HeapInvariant, PTL

(* Every variable stays in its type; no step of config_read frees more blocks *)
(* than are allocated.                                                        *)
THEOREM TypeCorrect == Spec => []TypeOK
<1>1. Types /\ CodeInv /\ HeapInv => TypeOK
  <2> SUFFICES ASSUME Types, CodeInv, HeapInv
               PROVE  heap \in Nat
    BY DEF TypeOK
  <2>1. Finite
    BY DEF HeapInv
  <2>2. /\ Kept \in Nat /\ Lost \in Nat /\ NumFiles \in Nat
        /\ NumInterfaces \in Nat /\ NumAlgs \in Nat
    BY <2>1, CountsAreNat, KeptIsNat
  <2>3. pc \in {"done", "destroyed"} => ret \in {"config", "NULL"}
    BY DEF CodeInv, Types
  <2>4. CASE pc \in {"enter", "readdir", "insert", "broken"}
    BY <2>4, <2>2 DEF HeapInv
  <2>5. CASE pc \in {"file", "interfaces", "algs", "finish", "return"}
    BY <2>5, <2>2 DEF HeapInv
  <2>6. CASE pc \in {"done", "destroyed"}
    BY <2>6, <2>2, <2>3 DEF HeapInv
  <2> QED BY <2>4, <2>5, <2>6 DEF Types
<1> QED BY <1>1, HeapInvariant, PTL
=============================================================================
