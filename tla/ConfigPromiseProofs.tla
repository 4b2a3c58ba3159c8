------------------------ MODULE ConfigPromiseProofs ------------------------
(***************************************************************************)
(* config_read implements what ConfigPromise promises of it, for any set   *)
(* of file names, any contents and any order of the directory: the theorem *)
(* Refinement.  The settings are merged by ConfigReadProofs; here the same *)
(* is shown of the two hashmaps, item by item, with all they may refuse.   *)
(***************************************************************************)
EXTENDS ConfigReadProofs

(* The items of file n named i that have been looked at.                      *)
SeenIn(n, i) ==
  {k \in Mentioned(got[n], i) : pc = "interfaces" /\ n = list[todo] => k < item}

(* An interface that is stored has the cost of the last item with its name,   *)
(* of all that have been looked at.                                           *)
IsLatest(i) ==
  \E n \in DOMAIN got : \E k \in SeenIn(n, i) :
     /\ interfaces[i] = got[n].interfaces[k].cost
     /\ \A j \in SeenIn(n, i) : j <= k
     /\ \A m \in DOMAIN got : SeenIn(m, i) # {} => m <= n

ItemsInv == /\ interfaces = [i \in DOMAIN interfaces |-> interfaces[i]]
            /\ \A i \in DOMAIN interfaces : IsLatest(i)

(* Nothing that has been looked at is missing, unless a hashmap refused it.   *)
AlgSeen(n, k) == pc \in {"interfaces", "algs"} /\ n = list[todo] => pc = "algs" /\ k < item

InterfacesStored ==
  \A n \in DOMAIN got : \A i \in Interfaces \union {NoName} :
     SeenIn(n, i) # {} => i \in DOMAIN interfaces

AlgsStored ==
  \A n \in DOMAIN got : \A k \in DOMAIN got[n].algs :
     AlgSeen(n, k) => got[n].algs[k] \in algs

StoredInv == ~HashmapsMayFail => InterfacesStored /\ AlgsStored

(* The files that could not be read come before the current one.              *)
TriedInv == /\ pc \in {"enter", "readdir", "insert"} => got = Empty /\ unread = {}
            /\ \A n \in unread : \E j \in 1 .. Len(list) : j < todo /\ n = list[j]

-----------------------------------------------------------------------------
(* The file in hand has the greatest name of those parsed.                    *)
LEMMA HandIsGreatest ==
  ASSUME Types, Walk, SortInv, Placed, InHand, pc = "interfaces"
  PROVE  /\ list[todo] \in DOMAIN got /\ list[todo] \in Nat
         /\ \A n \in DOMAIN got : n \in Nat /\ n <= list[todo]
<1>1. /\ todo \in 1 .. Len(list) /\ Begun = todo
      /\ Len(list) \in Nat /\ DOMAIN list = 1 .. Len(list)
  BY DEF Types, Walk, Begun
<1>2. \A j \in 1 .. Len(list) : list[j] \in Nat
  <2>1. \A j \in 1 .. Len(list) : list[j] \in Names
    BY ElementOfSeq DEF Types
  <2> QED BY <2>1, FilesAssumption
<1>3. ASSUME NEW n \in DOMAIN got
      PROVE  n \in Nat /\ n <= list[todo]
  <2>1. PICK j \in 1 .. Len(list) : j <= todo /\ n = list[j]
    BY <1>1 DEF Placed
  <2>2. j < todo => list[j] < list[todo]
    BY <1>1 DEF SortInv, ListIsSorted
  <2>3. j = todo \/ j < todo
    BY <2>1, <1>1
  <2>4. list[j] \in Nat /\ list[todo] \in Nat
    BY <1>1, <1>2
  <2> QED BY <2>1, <2>2, <2>3, <2>4
<1> QED BY <1>1, <1>2, <1>3 DEF InHand

(* What has been looked at changes with the files parsed and with the         *)
(* position in the array of interfaces.                                       *)
LEMMA SeenKept ==
  ASSUME UNCHANGED got, pc # "interfaces", pc' # "interfaces"
  PROVE  \A n, i : SeenIn(n, i)' = SeenIn(n, i)
BY DEF SeenIn

LEMMA SeenByParse ==
  ASSUME Types, Walk, SortInv, Placed, Parse, NEW l, l = list[todo]
  PROVE  /\ l \notin DOMAIN got
         /\ DOMAIN got' = DOMAIN got \union {l}
         /\ \A n \in DOMAIN got : got'[n] = got[n]
         /\ \A n \in DOMAIN got : \A i : SeenIn(n, i)' = SeenIn(n, i)
         /\ \A i : SeenIn(l, i)' = {}
<1>1. PICK f \in Contents : got' = Put(got, l, f)
  BY DEF Parse
<1>2. pc = "file" /\ pc' = "interfaces" /\ item' = 1 /\ UNCHANGED <<list, todo>>
  BY DEF Parse, AtFile
<1>3. l \notin DOMAIN got
  <2>1. l \in Nat /\ \A n \in DOMAIN got : n < l
    BY ParsedIsLast
  <2> QED BY <2>1
<1>4. /\ DOMAIN got' = DOMAIN got \union {l}
      /\ got'[l] = f
      /\ \A n \in DOMAIN got : got'[n] = got[n]
  BY <1>1, <1>3 DEF Put
<1>5. ASSUME NEW n \in DOMAIN got, NEW i
      PROVE  SeenIn(n, i)' = SeenIn(n, i)
  <2>1. n # l /\ got'[n] = got[n]
    BY <1>3, <1>4
  <2> QED BY <1>2, <2>1 DEF SeenIn
<1>6. ASSUME NEW i
      PROVE  SeenIn(l, i)' = {}
  <2>1. DOMAIN f.interfaces = 1 .. Len(f.interfaces) /\ Len(f.interfaces) \in Nat
    BY FileParts
  <2>2. \A k \in DOMAIN f.interfaces : ~(k < 1)
    BY <2>1
  <2>3. SeenIn(l, i)' = {k \in Mentioned(f, i) : k < 1}
    BY <1>2, <1>4 DEF SeenIn
  <2> QED BY <2>2, <2>3 DEF Mentioned
<1> QED BY <1>3, <1>4, <1>5, <1>6

(* One more item of the file in hand.                                         *)
NextItem == /\ pc = "interfaces" /\ pc' = "interfaces"
            /\ item \in 1 .. Len(file.interfaces) /\ item' = item + 1
            /\ UNCHANGED <<list, todo, file, got>>

LEMMA SeenByItem ==
  ASSUME Types, Walk, InHand, NextItem, NEW l, l = list[todo]
  PROVE  /\ \A n \in DOMAIN got : \A i : n # l => SeenIn(n, i)' = SeenIn(n, i)
         /\ \A i : SeenIn(l, i)' =
                     SeenIn(l, i)
                       \union {k \in {item} : file.interfaces[item].name = i}
         /\ \A i : \A k \in SeenIn(l, i) : k < item
<1>1. file = got[l] /\ file \in Contents
  BY DEF InHand, Walk, NextItem
<1>2. DOMAIN file.interfaces = 1 .. Len(file.interfaces) /\ Len(file.interfaces) \in Nat
  BY <1>1, FileParts
<1>3. \A k \in 1 .. Len(file.interfaces) : k < item + 1 <=> k < item \/ k = item
  BY <1>2 DEF NextItem
<1>4. ASSUME NEW n \in DOMAIN got, NEW i, n # l
      PROVE  SeenIn(n, i)' = SeenIn(n, i)
  BY <1>4 DEF SeenIn, NextItem
<1>5. ASSUME NEW i
      PROVE  /\ SeenIn(l, i) = {k \in Mentioned(file, i) : k < item}
             /\ SeenIn(l, i)' = {k \in Mentioned(file, i) : k < item + 1}
  BY <1>1 DEF SeenIn, NextItem
<1>6. ASSUME NEW i
      PROVE  SeenIn(l, i)' =
               SeenIn(l, i)
                 \union {k \in {item} : file.interfaces[item].name = i}
  BY <1>2, <1>3, <1>5 DEF Mentioned, NextItem
<1> QED BY <1>4, <1>5, <1>6

(* Every other step leaves what has been looked at, and stores no interface.  *)
LEMMA SeenOtherwise ==
  ASSUME Types, Walk, InHand, [Next]_vars, ~Parse, ~AddInterface, ~InterfaceNotStored
  PROVE  /\ UNCHANGED <<got, interfaces>>
         /\ \A n \in DOMAIN got : \A i : SeenIn(n, i)' = SeenIn(n, i)
<1>1. CASE EndInterfaces
  <2>1. /\ UNCHANGED <<list, todo, file, got, interfaces>>
        /\ pc = "interfaces" /\ pc' = "algs" /\ item > Len(file.interfaces)
    BY <1>1 DEF EndInterfaces, config, history
  <2>2. file = got[list[todo]] /\ file \in Contents
    BY <2>1 DEF InHand, Walk
  <2>3. DOMAIN file.interfaces = 1 .. Len(file.interfaces) /\ Len(file.interfaces) \in Nat
    BY <2>2, FileParts
  <2>4. \A k \in DOMAIN file.interfaces : k < item
    BY <2>1, <2>3 DEF Types
  <2>5. ASSUME NEW n \in DOMAIN got, NEW i
        PROVE  SeenIn(n, i)' = SeenIn(n, i)
    BY <2>1, <2>2, <2>4 DEF SeenIn, Mentioned
  <2> QED BY <2>1, <2>5
<1>2. CASE UNCHANGED vars
  BY <1>2 DEF vars, SeenIn
<1>3. CASE \/ Refuse \/ OpenDir \/ (\E n \in Names : Find(n)) \/ MoveOn \/ Insert \/ EndOfDir
           \/ ReadFails \/ NotJson \/ AddAlg \/ AlgNotStored \/ EndFile
           \/ FinishInterfaces \/ FinishAlgs \/ OverrunAlgs \/ Finish \/ Destroy
  <2>1. UNCHANGED <<got, interfaces>> /\ pc # "interfaces" /\ pc' # "interfaces"
    BY <1>3 DEF Refuse, OpenDir, Find, MoveOn, Insert, EndOfDir, ReadFails, NotJson,
                AtFile, AddAlg, AlgNotStored, MoreItems, EndFile, FinishInterfaces,
                FinishAlgs, OverrunAlgs, Finish, Destroy, config, history
  <2> QED BY <2>1, SeenKept
<1> QED BY <1>1, <1>2, <1>3 DEF Next

LEMMA ItemsInductive ==
  Types /\ Walk /\ SortInv /\ Placed /\ InHand /\ ItemsInv /\ [Next]_vars => ItemsInv'
<1> SUFFICES ASSUME Types, Walk, SortInv, Placed, InHand, ItemsInv, [Next]_vars
             PROVE  ItemsInv'
  OBVIOUS
<1> PICK l : l = list[todo]
  OBVIOUS
<1>1. CASE Parse
  <2>1. /\ UNCHANGED interfaces
        /\ DOMAIN got' = DOMAIN got \union {l}
        /\ \A n \in DOMAIN got : got'[n] = got[n]
        /\ \A n \in DOMAIN got : \A i : SeenIn(n, i)' = SeenIn(n, i)
        /\ \A i : SeenIn(l, i)' = {}
    BY <1>1, SeenByParse DEF Parse
  <2>2. ASSUME NEW i \in DOMAIN interfaces
        PROVE  IsLatest(i)'
    <3>0. PICK n \in DOMAIN got : \E k \in SeenIn(n, i) :
             /\ interfaces[i] = got[n].interfaces[k].cost
             /\ \A j \in SeenIn(n, i) : j <= k
             /\ \A m \in DOMAIN got : SeenIn(m, i) # {} => m <= n
      BY DEF ItemsInv, IsLatest
    <3>1. PICK k \in SeenIn(n, i) :
             /\ interfaces[i] = got[n].interfaces[k].cost
             /\ \A j \in SeenIn(n, i) : j <= k
             /\ \A m \in DOMAIN got : SeenIn(m, i) # {} => m <= n
      BY <3>0
    <3>2. \A m \in DOMAIN got' : SeenIn(m, i)' # {} => m <= n
      BY <2>1, <3>1
    <3>3. n \in DOMAIN got' /\ k \in SeenIn(n, i)' /\ got'[n] = got[n]
      BY <2>1, <3>1
    <3> QED BY <2>1, <3>1, <3>2, <3>3 DEF IsLatest
  <2> QED BY <2>1, <2>2 DEF ItemsInv
<1>2. CASE AddInterface \/ InterfaceNotStored
  <2> DEFINE it == file.interfaces[item]
  <2>1. NextItem
    BY <1>2 DEF AddInterface, InterfaceNotStored, MoreItems, history, NextItem, Walk, Types
  <2>2. /\ \A n \in DOMAIN got : \A i : n # l => SeenIn(n, i)' = SeenIn(n, i)
        /\ \A i : SeenIn(l, i)' = SeenIn(l, i) \union {k \in {item} : it.name = i}
        /\ \A i : \A k \in SeenIn(l, i) : k < item
    BY <2>1, SeenByItem
  <2>3. /\ l \in DOMAIN got /\ l \in Nat
        /\ \A n \in DOMAIN got : n \in Nat /\ n <= l
        /\ file = got[l] /\ item \in Nat
    BY <2>1, HandIsGreatest DEF NextItem, InHand, Types
  <2>4. got' = got
    BY <2>1 DEF NextItem
  <2>5. \/ /\ interfaces' = interfaces /\ it.name \notin DOMAIN interfaces
        \/ interfaces' = Put(interfaces, it.name, it.cost)
    BY <1>2 DEF AddInterface, InterfaceNotStored, config
  <2>6. interfaces' = [i \in DOMAIN interfaces' |-> interfaces'[i]]
    BY <2>5 DEF Put, ItemsInv
  <2>7. ASSUME NEW i \in DOMAIN interfaces', i # it.name
        PROVE  IsLatest(i)'
    <3>1. i \in DOMAIN interfaces /\ interfaces'[i] = interfaces[i]
      BY <2>5, <2>7 DEF Put
    <3>2. \A n \in DOMAIN got : SeenIn(n, i)' = SeenIn(n, i)
      BY <2>2, <2>7
    <3> QED BY <2>4, <3>1, <3>2 DEF ItemsInv, IsLatest
  <2>8. ASSUME NEW i \in DOMAIN interfaces', i = it.name
        PROVE  IsLatest(i)'
    <3>1. interfaces'[i] = got[l].interfaces[item].cost
      BY <2>3, <2>5, <2>8 DEF Put
    <3>2. item \in SeenIn(l, i)' /\ \A j \in SeenIn(l, i)' : j <= item
      <4>1. SeenIn(l, i)' = SeenIn(l, i) \union {item}
        BY <2>2, <2>8
      <4>2. \A k \in SeenIn(l, i) : k <= item
        <5>1. \A k \in SeenIn(l, i) : k \in Nat /\ k < item
          <6>1. DOMAIN file.interfaces \subseteq Nat
            BY <2>1, FileParts DEF Walk, NextItem
          <6> QED BY <2>2, <2>3, <6>1 DEF SeenIn, Mentioned
        <5> QED BY <5>1, <2>3
      <4> QED BY <4>1, <4>2, <2>3
    <3> QED BY <2>3, <2>4, <3>1, <3>2 DEF IsLatest
  <2> QED BY <2>6, <2>7, <2>8 DEF ItemsInv
<1>3. CASE ~Parse /\ ~AddInterface /\ ~InterfaceNotStored
  <2>1. /\ UNCHANGED <<got, interfaces>>
        /\ \A n \in DOMAIN got : \A i : SeenIn(n, i)' = SeenIn(n, i)
    BY <1>3, SeenOtherwise
  <2>2. ASSUME NEW i \in DOMAIN interfaces
        PROVE  IsLatest(i)'
    <3>1. IsLatest(i)
      BY DEF ItemsInv
    <3> QED BY <2>1, <3>1 DEF IsLatest
  <2> QED BY <2>1, <2>2 DEF ItemsInv
<1> QED BY <1>1, <1>2, <1>3

-----------------------------------------------------------------------------
(* Without refusals every interface looked at is stored.                      *)
LEMMA InterfacesInductive ==
  ASSUME Types, Walk, SortInv, Placed, InHand, InterfacesStored, [Next]_vars, ~HashmapsMayFail
  PROVE  InterfacesStored'
<1> PICK l : l = list[todo]
  OBVIOUS
<1>1. CASE Parse
  <2>1. /\ UNCHANGED interfaces
        /\ DOMAIN got' = DOMAIN got \union {l}
        /\ \A n \in DOMAIN got : \A i : SeenIn(n, i)' = SeenIn(n, i)
        /\ \A i : SeenIn(l, i)' = {}
    BY <1>1, SeenByParse DEF Parse
  <2>2. ASSUME NEW n \in DOMAIN got', NEW i \in Interfaces \union {NoName},
               SeenIn(n, i)' # {}
        PROVE  i \in DOMAIN interfaces'
    <3>1. n \in DOMAIN got /\ SeenIn(n, i) # {}
      BY <2>1, <2>2
    <3> QED BY <2>1, <3>1 DEF InterfacesStored
  <2> QED BY <2>2 DEF InterfacesStored
<1>2. CASE AddInterface
  <2> DEFINE it == file.interfaces[item]
  <2>1. NextItem
    BY <1>2 DEF AddInterface, MoreItems, history, NextItem, Walk, Types
  <2>2. /\ \A n \in DOMAIN got : \A i : n # l => SeenIn(n, i)' = SeenIn(n, i)
        /\ \A i : SeenIn(l, i)' = SeenIn(l, i) \union {k \in {item} : it.name = i}
    BY <2>1, SeenByItem
  <2>3. DOMAIN interfaces' = DOMAIN interfaces \union {it.name}
    BY <1>2 DEF AddInterface, Put
  <2>4. got' = got
    BY <2>1 DEF NextItem
  <2> HIDE DEF it
  <2>5. ASSUME NEW n \in DOMAIN got', NEW i \in Interfaces \union {NoName},
               SeenIn(n, i)' # {}
        PROVE  i \in DOMAIN interfaces'
    <3>1. SeenIn(n, i) # {} \/ it.name = i
      BY <2>2, <2>4, <2>5
    <3> QED BY <2>3, <2>4, <3>1 DEF InterfacesStored
  <2> QED BY <2>5 DEF InterfacesStored
<1>3. CASE ~Parse /\ ~AddInterface
  <2>1. ~InterfaceNotStored
    BY DEF InterfaceNotStored
  <2>2. /\ UNCHANGED <<got, interfaces>>
        /\ \A n \in DOMAIN got : \A i : SeenIn(n, i)' = SeenIn(n, i)
    BY <1>3, <2>1, SeenOtherwise
  <2>3. ASSUME NEW n \in DOMAIN got', NEW i \in Interfaces \union {NoName},
               SeenIn(n, i)' # {}
        PROVE  i \in DOMAIN interfaces'
    BY <2>2, <2>3 DEF InterfacesStored
  <2> QED BY <2>3 DEF InterfacesStored
<1> QED BY <1>1, <1>2, <1>3

(* Without refusals every algorithm passed is stored.                         *)
LEMMA AlgsInductive ==
  ASSUME Types, Walk, SortInv, Placed, InHand, AlgsStored, [Next]_vars, ~HashmapsMayFail
  PROVE  AlgsStored'
<1> PICK l : l = list[todo]
  OBVIOUS
<1> SUFFICES ASSUME NEW n \in DOMAIN got', NEW k \in DOMAIN got'[n].algs, AlgSeen(n, k)'
             PROVE  got'[n].algs[k] \in algs'
  BY DEF AlgsStored
<1>1. CASE Parse
  <2>1. /\ DOMAIN got' = DOMAIN got \union {l}
        /\ \A m \in DOMAIN got : got'[m] = got[m]
        /\ UNCHANGED <<algs, list, todo>> /\ pc = "file" /\ pc' = "interfaces"
    BY <1>1, SeenByParse DEF Parse, AtFile
  <2>2. n # l
    BY <2>1 DEF AlgSeen
  <2>3. n \in DOMAIN got /\ got'[n] = got[n] /\ AlgSeen(n, k)
    BY <2>1, <2>2 DEF AlgSeen
  <2> QED BY <2>1, <2>3 DEF AlgsStored
<1>2. CASE AddAlg
  <2>1. /\ UNCHANGED <<pc, list, todo, file, got>> /\ pc = "algs"
        /\ item' = item + 1 /\ item \in Nat
        /\ algs' = algs \union {file.algs[item]}
    BY <1>2 DEF AddAlg, MoreItems, Types
  <2>2. file = got[l] /\ file \in Contents
    BY <2>1 DEF InHand, Walk
  <2>3. CASE n = l
    <3>1. k \in Nat
      BY <2>1, <2>2, <2>3, FileParts
    <3>2. k < item + 1
      BY <2>1, <2>3 DEF AlgSeen
    <3>3. CASE k = item
      BY <2>1, <2>2, <2>3, <3>3
    <3>4. CASE k < item
      <4>1. AlgSeen(n, k)
        BY <2>1, <3>4 DEF AlgSeen
      <4> QED BY <2>1, <4>1 DEF AlgsStored
    <3> QED BY <2>1, <3>1, <3>2, <3>3, <3>4
  <2>4. CASE n # l
    <3>1. AlgSeen(n, k)
      BY <2>4 DEF AlgSeen
    <3> QED BY <2>1, <3>1 DEF AlgsStored
  <2> QED BY <2>3, <2>4
<1>3. CASE EndFile
  <2>1. /\ UNCHANGED <<list, got, algs, rv>> /\ pc = "algs" /\ item > Len(file.algs)
    BY <1>3 DEF EndFile, config, history
  <2>2. file = got[l] /\ file \in Contents
    BY <2>1 DEF InHand, Walk
  <2>3. AlgSeen(n, k)
    <3>1. n = l => k \in 1 .. Len(file.algs) /\ Len(file.algs) \in Nat
      BY <2>1, <2>2, FileParts
    <3>2. n = l => k < item
      BY <2>1, <3>1 DEF Types
    <3> QED BY <2>1, <3>2 DEF AlgSeen
  <2> QED BY <2>1, <2>3 DEF AlgsStored
<1>4. CASE AddInterface \/ InterfaceNotStored
  <2>1. UNCHANGED <<pc, list, todo, got, algs>> /\ pc = "interfaces"
    BY <1>4 DEF AddInterface, InterfaceNotStored, MoreItems, history, config
  <2>2. AlgSeen(n, k)
    BY <2>1 DEF AlgSeen
  <2> QED BY <2>1, <2>2 DEF AlgsStored
<1>5. CASE EndInterfaces
  <2>1. /\ UNCHANGED <<list, todo, file, got, algs>>
        /\ pc = "interfaces" /\ pc' = "algs" /\ item' = 1
    BY <1>5 DEF EndInterfaces, history, config
  <2>2. file = got[l] /\ file \in Contents
    BY <2>1 DEF InHand, Walk
  <2>3. n # l
    <3>1. n = l => k \in Nat /\ k >= 1 /\ k < 1
      BY <2>1, <2>2, FileParts DEF AlgSeen
    <3> QED BY <3>1
  <2>4. AlgSeen(n, k)
    BY <2>3 DEF AlgSeen
  <2> QED BY <2>1, <2>4 DEF AlgsStored
<1>6. CASE \/ Refuse \/ OpenDir \/ (\E m \in Names : Find(m)) \/ MoveOn \/ Insert \/ EndOfDir
           \/ ReadFails \/ NotJson
           \/ FinishInterfaces \/ FinishAlgs \/ OverrunAlgs \/ Finish \/ Destroy
  <2>1. UNCHANGED <<got, algs>> /\ pc \notin {"interfaces", "algs"}
    BY <1>6 DEF Refuse, OpenDir, Find, MoveOn, Insert, EndOfDir, ReadFails, NotJson,
                AtFile, FinishInterfaces,
                FinishAlgs, OverrunAlgs, Finish, Destroy, config, history
  <2>2. AlgSeen(n, k)
    BY <2>1 DEF AlgSeen
  <2> QED BY <2>1, <2>2 DEF AlgsStored
<1>7. CASE UNCHANGED vars
  BY <1>7 DEF vars, AlgsStored, AlgSeen
<1>8. ~AlgNotStored
  BY DEF AlgNotStored
<1> QED BY <1>1, <1>2, <1>3, <1>4, <1>5, <1>6, <1>7, <1>8 DEF Next

LEMMA TriedInductive ==
  Types /\ Walk /\ TriedInv /\ [Next]_vars => TriedInv'
<1> SUFFICES ASSUME Types, Walk, TriedInv, [Next]_vars
             PROVE  TriedInv'
  OBVIOUS
<1>1. CASE ReadFails
  <2>1. /\ pc = "file" /\ pc' = "file" /\ UNCHANGED list /\ todo' = todo + 1
        /\ todo \in 1 .. Len(list) /\ Len(list) \in Nat
        /\ unread' = unread \union {list[todo]}
    BY <1>1 DEF ReadFails, AtFile, Types
  <2>2. ASSUME NEW n \in unread'
        PROVE  \E j \in 1 .. Len(list) : j < todo + 1 /\ n = list[j]
    <3>1. CASE n = list[todo]
      <4>1. todo < todo + 1
        BY <2>1
      <4> QED BY <2>1, <3>1, <4>1
    <3>2. CASE n \in unread
      <4>1. PICK j \in 1 .. Len(list) : j < todo /\ n = list[j]
        BY <3>2 DEF TriedInv
      <4>2. j < todo + 1
        BY <2>1, <4>1
      <4> QED BY <4>1, <4>2
    <3> QED BY <2>1, <3>1, <3>2
  <2> QED BY <2>1, <2>2 DEF TriedInv
<1>2. CASE NotJson \/ EndFile
  <2>1. /\ pc \in {"file", "algs"} /\ pc' = "file" /\ UNCHANGED <<list, unread>>
        /\ todo' = todo + 1 /\ todo \in Nat /\ Len(list) \in Nat
    BY <1>2 DEF NotJson, EndFile, AtFile, Types, history
  <2>2. ASSUME NEW n \in unread
        PROVE  \E j \in 1 .. Len(list) : j < todo + 1 /\ n = list[j]
    <3>1. PICK j \in 1 .. Len(list) : j < todo /\ n = list[j]
      BY DEF TriedInv
    <3>2. j < todo + 1
      BY <2>1, <3>1
    <3> QED BY <3>1, <3>2
  <2> QED BY <2>1, <2>2 DEF TriedInv
<1>3. CASE \/ Refuse \/ OpenDir \/ (\E n \in Names : Find(n)) \/ MoveOn \/ Insert \/ EndOfDir
  <2>1. pc \in {"enter", "readdir", "insert"} /\ UNCHANGED <<got, unread>>
    BY <1>3 DEF Refuse, OpenDir, Find, MoveOn, Insert, EndOfDir, history
  <2> QED BY <2>1 DEF TriedInv
<1>4. CASE \/ Parse \/ AddInterface \/ InterfaceNotStored \/ EndInterfaces \/ AddAlg
           \/ AlgNotStored \/ FinishInterfaces \/ FinishAlgs \/ OverrunAlgs \/ Finish \/ Destroy
  <2>1. /\ UNCHANGED <<list, todo, unread>>
        /\ pc' \notin {"enter", "readdir", "insert"}
    BY <1>4 DEF Parse, AtFile, AddInterface, InterfaceNotStored, MoreItems, EndInterfaces,
                AddAlg, AlgNotStored, FinishInterfaces, FinishAlgs, OverrunAlgs, Finish,
                Destroy, config, history
  <2> QED BY <2>1 DEF TriedInv
<1>5. CASE UNCHANGED vars
  BY <1>5 DEF vars, TriedInv
<1> QED BY <1>1, <1>2, <1>3, <1>4, <1>5 DEF Next

(* The file about to be read is none of those that were tried before.         *)
LEMMA NotTriedBefore ==
  ASSUME Types, SortInv, Placed, TriedInv, AtFile
  PROVE  list[todo] \in Names \ (DOMAIN got \union unread)
<1>1. /\ todo \in 1 .. Len(list) /\ Begun = todo - 1
      /\ Len(list) \in Nat /\ DOMAIN list = 1 .. Len(list)
  BY DEF AtFile, Types, Begun
<1>2. \A j \in 1 .. Len(list) : list[j] \in Names /\ list[j] \in Nat
  <2>1. \A j \in 1 .. Len(list) : list[j] \in Names
    BY ElementOfSeq DEF Types
  <2> QED BY <2>1, FilesAssumption
<1>3. \A j \in 1 .. Len(list) : j < todo => list[j] # list[todo]
  <2> SUFFICES ASSUME NEW j \in 1 .. Len(list), j < todo
               PROVE  list[j] # list[todo]
    OBVIOUS
  <2>1. list[j] < list[todo]
    BY <1>1 DEF SortInv, ListIsSorted
  <2> QED BY <2>1, <1>1, <1>2
<1>4. \A n \in DOMAIN got : \E j \in 1 .. Len(list) : j < todo /\ n = list[j]
  <2> SUFFICES ASSUME NEW n \in DOMAIN got
               PROVE  \E j \in 1 .. Len(list) : j < todo /\ n = list[j]
    OBVIOUS
  <2>1. PICK j \in 1 .. Len(list) : j <= todo - 1 /\ n = list[j]
    BY <1>1 DEF Placed
  <2>2. j < todo
    BY <1>1, <2>1
  <2> QED BY <2>1, <2>2
<1> QED BY <1>1, <1>2, <1>3, <1>4 DEF TriedInv

-----------------------------------------------------------------------------
(* Finitely many files name finitely many algorithms.                         *)
AlgsFinite == IsFiniteSet(MergedAlgs(got))

LEMMA ElementsAreFinite ==
  ASSUME NEW S, NEW s \in Seq(S)
  PROVE  IsFiniteSet({s[k] : k \in DOMAIN s})
<1> DEFINE T == {s[k] : k \in DOMAIN s}
<1>1. DOMAIN s = 1 .. Len(s) /\ Len(s) \in Nat
  OBVIOUS
<1>2. s = [k \in DOMAIN s |-> s[k]]
  OBVIOUS
<1>3. s \in [DOMAIN s -> T]
  BY <1>2
<1>4. s \in Surjection(DOMAIN s, T)
  BY <1>3 DEF Surjection
<1>5. IsFiniteSet(DOMAIN s)
  BY <1>1, FS_Interval
<1> QED BY <1>4, <1>5, FS_Surjection

LEMMA AlgsFiniteInductive ==
  Types /\ SortInv /\ Placed /\ AlgsFinite /\ [Next]_vars => AlgsFinite'
<1> SUFFICES ASSUME Types, SortInv, Placed, AlgsFinite, [Next]_vars
             PROVE  AlgsFinite'
  OBVIOUS
<1>1. CASE UNCHANGED got
  BY <1>1 DEF AlgsFinite, MergedAlgs
<1>2. CASE Parse
  <2> DEFINE l == list[todo]
  <2>1. PICK f \in Contents : got' = Put(got, l, f)
    BY <1>2 DEF Parse
  <2>2. \A n \in DOMAIN got' : got'[n] = f \/ (n \in DOMAIN got /\ got'[n] = got[n])
    BY <2>1 DEF Put
  <2> DEFINE T == {f.algs[k] : k \in DOMAIN f.algs}
  <2>3. IsFiniteSet(T)
    BY FileParts, ElementsAreFinite
  <2>4. IsFiniteSet(MergedAlgs(got) \union T)
    BY <2>3, FS_Union DEF AlgsFinite
  <2>5. MergedAlgs(got') \subseteq MergedAlgs(got) \union T
    BY <2>2 DEF MergedAlgs
  <2> QED BY <2>4, <2>5, FS_Subset DEF AlgsFinite
<1> QED BY <1>1, <1>2, OnlyParseStores

-----------------------------------------------------------------------------
PromiseInv == ItemsInv /\ StoredInv /\ TriedInv /\ AlgsFinite

LEMMA PromiseInvInitially == Init => PromiseInv
<1> SUFFICES ASSUME Init
             PROVE  PromiseInv
  OBVIOUS
<1>1. DOMAIN got = {} /\ got = Empty /\ interfaces = Empty /\ unread = {}
  BY DEF Init, Empty
<1>2. ItemsInv
  BY <1>1 DEF ItemsInv, Empty
<1>3. StoredInv
  BY <1>1 DEF StoredInv, InterfacesStored, AlgsStored
<1>4. AlgsFinite
  <2>1. MergedAlgs(got) = {}
    BY <1>1 DEF MergedAlgs
  <2> QED BY <2>1, FS_EmptySet DEF AlgsFinite
<1> QED BY <1>1, <1>2, <1>3, <1>4 DEF PromiseInv, TriedInv

LEMMA StoredInductive ==
  Types /\ Walk /\ SortInv /\ Placed /\ InHand /\ StoredInv /\ [Next]_vars => StoredInv'
BY InterfacesInductive, AlgsInductive DEF StoredInv

LEMMA PromiseInvariant ==
  Spec => [](Types /\ SortInv /\ Placed /\ SettingsAreMerged /\ InHand /\ CodeInv /\ PromiseInv)
<1> DEFINE IInv == Types /\ Walk /\ SortInv /\ Placed /\ InHand /\ CodeInv
<1>1. Spec => []IInv
  BY CodeInvariant
<1>2. Init => PromiseInv
  BY PromiseInvInitially
<1>3. IInv /\ PromiseInv /\ [Next]_vars => PromiseInv'
  BY ItemsInductive, StoredInductive, TriedInductive, AlgsFiniteInductive DEF PromiseInv
<1>4. IInv => Types /\ SortInv /\ Placed /\ InHand /\ CodeInv
  OBVIOUS
<1> HIDE DEF IInv
<1> QED BY <1>1, <1>2, <1>3, <1>4, SettingsAlwaysMerged, PTL DEF Spec

-----------------------------------------------------------------------------
(* The promise merges as the code does.                                       *)
LEMMA SameMerge ==
  /\ Promise!MergedSettings(got) = MergedSettings(got)
  /\ Promise!MergedAlgs(got) = MergedAlgs(got)
  /\ Promise!MergedInterfaces(got) = MergedInterfaces(got)
  /\ \A f, k, v : Promise!Put(f, k, v) = Put(f, k, v)
  /\ Promise!Empty = Empty
  /\ Promise!Nothing = [settings |-> [s \in Settings |-> Unset], interfaces |-> Empty, algs |-> {}]
BY DEF Promise!MergedSettings, MergedSettings, Promise!Setters, Setters, Promise!Greatest,
       Greatest, Promise!MergedAlgs, MergedAlgs, Promise!Algs, Algs, Promise!MergedInterfaces,
       MergedInterfaces, Promise!Holders, Holders, Promise!Mentioned, Mentioned,
       Promise!Put, Put, Promise!Empty, Empty, Promise!Nothing, Promise!Settings, Settings,
       Promise!Strings, Strings, Promise!Numbers, Numbers

(* Both count alike.                                                         *)
LEMMA SameCardinality == \A S : Promise!Cardinality(S) = Cardinality(S)
BY DEF Promise!Cardinality, Cardinality

(* Once every file is read, an interface has the cost of the merge.           *)
LEMMA InterfacesMerged ==
  ASSUME Types, Placed, ItemsInv, pc = "return"
  PROVE  /\ DOMAIN interfaces \subseteq DOMAIN MergedInterfaces(got)
         /\ interfaces = [i \in DOMAIN interfaces |-> MergedInterfaces(got)[i]]
<1>1. \A n, i : SeenIn(n, i) = Mentioned(got[n], i)
  BY DEF SeenIn
<1>2. DOMAIN got \subseteq Nat
  BY FilesAssumption DEF Types
<1>3. ASSUME NEW i \in DOMAIN interfaces
      PROVE  /\ i \in DOMAIN MergedInterfaces(got)
             /\ interfaces[i] = MergedInterfaces(got)[i]
  <2>1. PICK n \in DOMAIN got : \E k \in Mentioned(got[n], i) :
           /\ interfaces[i] = got[n].interfaces[k].cost
           /\ \A j \in Mentioned(got[n], i) : j <= k
           /\ \A m \in DOMAIN got : Mentioned(got[m], i) # {} => m <= n
    BY <1>1 DEF ItemsInv, IsLatest
  <2>2. PICK k \in Mentioned(got[n], i) :
           /\ interfaces[i] = got[n].interfaces[k].cost
           /\ \A j \in Mentioned(got[n], i) : j <= k
           /\ \A m \in DOMAIN got : Mentioned(got[m], i) # {} => m <= n
    BY <2>1
  <2>3. Greatest(Holders(got, i)) = n
    <3>1. n \in Holders(got, i) /\ Holders(got, i) \subseteq Nat
      BY <1>2, <2>2 DEF Holders
    <3>2. \A m \in Holders(got, i) : m <= n
      BY <2>2 DEF Holders
    <3> QED BY <3>1, <3>2, GreatestIs
  <2>4. Greatest(Mentioned(got[n], i)) = k
    <3>1. got[n].interfaces \in Seq(Items)
      BY FileParts DEF Types
    <3>2. Mentioned(got[n], i) \subseteq Nat
      BY <3>1 DEF Mentioned
    <3> QED BY <2>2, <3>2, GreatestIs
  <2>5. i \in DOMAIN MergedInterfaces(got)
    BY <2>2 DEF MergedInterfaces, Holders, Types
  <2>6. MergedInterfaces(got)[i] = got[n].interfaces[k].cost
    BY <2>3, <2>4, <2>5 DEF MergedInterfaces
  <2> QED BY <2>2, <2>5, <2>6
<1> QED BY <1>3 DEF ItemsInv

(* What is left of interfaces and algorithms is what the promise allows.      *)
LEMMA StoredAsPromised ==
  ASSUME Types, Placed, InHand, ItemsInv, StoredInv, pc = "return"
  PROVE  /\ algs \in Promise!Stored(Promise!MergedAlgs(got))
         /\ DOMAIN interfaces \in Promise!Stored(DOMAIN Promise!MergedInterfaces(got))
<1>1. /\ algs \subseteq MergedAlgs(got)
      /\ DOMAIN interfaces \subseteq DOMAIN MergedInterfaces(got)
  BY InterfacesMerged DEF InHand
<1>2. ASSUME ~HashmapsMayFail
      PROVE  /\ MergedAlgs(got) \subseteq algs
             /\ DOMAIN MergedInterfaces(got) \subseteq DOMAIN interfaces
  <2>1. \A n, i : SeenIn(n, i) = Mentioned(got[n], i) /\ AlgSeen(n, i)
    BY DEF SeenIn, AlgSeen
  <2>2. MergedAlgs(got) \subseteq algs
    BY <1>2, <2>1 DEF StoredInv, AlgsStored, MergedAlgs
  <2>3. DOMAIN MergedInterfaces(got) =
          {j \in Interfaces \union {NoName} : Holders(got, j) # {}}
    BY DEF MergedInterfaces
  <2>4. DOMAIN MergedInterfaces(got) \subseteq DOMAIN interfaces
    BY <1>2, <2>1, <2>3 DEF StoredInv, InterfacesStored, Holders
  <2> QED BY <2>2, <2>4
<1>3. \A keys : Promise!Stored(keys) = IF HashmapsMayFail THEN SUBSET keys ELSE {keys}
  BY DEF Promise!Stored
<1>4. CASE HashmapsMayFail
  BY <1>1, <1>3, <1>4, SameMerge
<1>5. CASE ~HashmapsMayFail
  <2>1. algs = MergedAlgs(got) /\ DOMAIN interfaces = DOMAIN MergedInterfaces(got)
    BY <1>1, <1>2, <1>5
  <2> QED BY <2>1, <1>3, <1>5, SameMerge
<1> QED BY <1>4, <1>5

(* Every run of config_read is a run of the promise: a file is read or found  *)
(* unreadable as the promise allows, and what is handed over at the end is    *)
(* the merge of the files read, less what a hashmap refused, or a code that   *)
(* names a problem.                                                           *)
THEOREM Refinement == Spec => Promise!Spec
<1>1. Init => Promise!Init
  <2> SUFFICES ASSUME Init
               PROVE  Promise!Init
    OBVIOUS
  <2>1. Code = "pending" /\ got = Empty /\ unread = {} /\ ret = "none"
    BY DEF Init, Code
  <2> QED BY <2>1, SameMerge DEF Promise!Init, Handed
<1>2. /\ Types /\ SortInv /\ Placed /\ SettingsAreMerged /\ InHand /\ CodeInv /\ PromiseInv
      /\ [Next]_vars
      => [Promise!Next]_Promise!vars
  <2> SUFFICES ASSUME Types, SortInv, Placed, SettingsAreMerged, InHand, CodeInv, PromiseInv,
                      [Next]_vars
               PROVE  [Promise!Next]_Promise!vars
    OBVIOUS
  <2>r. ret = "none" <=> pc \notin {"done", "destroyed"}
    BY DEF CodeInv
  <2>p. pc \notin {"done", "destroyed", "broken"} =>
          /\ Code = "pending"
          /\ Handed = [settings |-> [s \in Settings |-> Unset], interfaces |-> Empty, algs |-> {}]
    BY <2>r DEF Code, Handed
  <2>1. CASE Refuse
    <3>1. /\ pc = "enter" /\ pc' = "done" /\ ret' = "NULL" /\ rv' \in PathErrors
          /\ UNCHANGED <<got, unread>>
      BY <2>1 DEF Refuse, history
    <3>2. got = Empty /\ unread = {}
      BY <3>1 DEF PromiseInv, TriedInv
    <3>3. Code' = rv' /\ Handed' = Handed
      BY <3>1, <2>p DEF Code, Handed
    <3>4. Promise!Refuse
      BY <3>1, <3>2, <3>3, <2>p, SameMerge DEF Promise!Refuse, Promise!Pending, PathErrors
    <3> QED BY <3>4 DEF Promise!Next
  <2>2. CASE ReadFails
    <3>1. /\ AtFile /\ pc = "file" /\ UNCHANGED <<pc, ret, got>>
          /\ unread' = unread \union {list[todo]}
      BY <2>2 DEF ReadFails, AtFile
    <3>2. list[todo] \in Names \ (DOMAIN got \union unread)
      BY <3>1, NotTriedBefore DEF PromiseInv
    <3>3. Code = "pending" /\ Code' = Code /\ Handed' = Handed
      BY <3>1, <2>p, <2>r DEF Code, Handed
    <3>4. Promise!FailToRead
      BY <3>1, <3>2, <3>3 DEF Promise!FailToRead, Promise!Pending
    <3> QED BY <3>4 DEF Promise!Next
  <2>3. CASE Parse
    <3>1. PICK f \in Contents : got' = Put(got, list[todo], f)
      BY <2>3 DEF Parse
    <3>2. AtFile /\ pc = "file" /\ pc' = "interfaces" /\ UNCHANGED <<ret, unread>>
      BY <2>3 DEF Parse, AtFile
    <3>3. list[todo] \in Names \ (DOMAIN got \union unread)
      BY <3>2, NotTriedBefore DEF PromiseInv
    <3>4. Code = "pending" /\ Code' = Code /\ Handed' = Handed
      BY <3>2, <2>p, <2>r DEF Code, Handed
    <3>5. Promise!Read
      BY <3>1, <3>2, <3>3, <3>4, SameMerge DEF Promise!Read, Promise!Pending
    <3> QED BY <3>5 DEF Promise!Next
  <2>4. CASE OverrunAlgs
    <3>1. /\ pc = "finish" /\ pc' = "broken" /\ UNCHANGED <<ret, got, unread>>
          /\ Cardinality(algs) > num_algorithms
      BY <2>4 DEF OverrunAlgs, history
    <3>2. Code = "pending" /\ Code' = "undefined" /\ Handed' = Handed
      BY <3>1, <2>p, <2>r DEF Code, Handed
    <3>3. Cardinality(MergedAlgs(got)) > num_algorithms
      <4>1. /\ Cardinality(algs) <= Cardinality(MergedAlgs(got))
            /\ Cardinality(algs) \in Nat /\ Cardinality(MergedAlgs(got)) \in Nat
        BY FS_Subset, FS_CardinalityType DEF InHand, PromiseInv, AlgsFinite
      <4> QED BY <3>1, <4>1, FilesAssumption
    <3>4. Promise!Overrun
      BY <3>1, <3>2, <3>3, SameMerge, SameCardinality DEF Promise!Overrun, Promise!Pending
    <3> QED BY <3>4 DEF Promise!Next
  <2>5. CASE Finish
    <3>1. /\ pc = "return" /\ pc' = "done" /\ UNCHANGED <<config, rv, got, unread>>
          /\ ret' = IF rv = "XA_OK" THEN "config" ELSE "NULL"
      BY <2>5 DEF Finish, history
    <3>2. Code = "pending" /\ Code' = rv
      BY <3>1, <2>p DEF Code
    <3>3. FoundSoFar
      BY <3>1, <2>r DEF CodeInv
    <3>4. algs \in Promise!Stored(Promise!MergedAlgs(got))
          /\ DOMAIN interfaces \in Promise!Stored(DOMAIN Promise!MergedInterfaces(got))
      BY <3>1, StoredAsPromised DEF PromiseInv
    <3>5. CASE rv = "XA_OK"
      <4>1. unread = {} /\ (\A n \in DOMAIN got : ~got[n].wrong) /\ algs \cap BadNames = {}
        BY <3>1, <3>3, <3>5 DEF FoundSoFar
      <4>2. Promise!Problems(algs) = {}
        BY <4>1 DEF Promise!Problems, Promise!Mistakes
      <4>3. Handed' = [settings |-> settings, interfaces |-> interfaces, algs |-> algs]
        BY <3>1, <3>5 DEF Handed, config
      <4>4. Promise!Merged(DOMAIN interfaces, algs) =
              [settings |-> settings, interfaces |-> interfaces, algs |-> algs]
        BY <3>1, InterfacesMerged, SameMerge DEF Promise!Merged, SettingsAreMerged, PromiseInv
      <4>5. Promise!Deliver
        BY <3>1, <3>2, <3>4, <3>5, <4>2, <4>3, <4>4 DEF Promise!Deliver, Promise!Pending
      <4> QED BY <4>5 DEF Promise!Next
    <3>6. CASE rv # "XA_OK"
      <4>1. Handed' = Handed
        BY <3>1, <3>6, <2>p DEF Handed
      <4>2. MergedAlgs(got) \in Promise!Stored(MergedAlgs(got))
        BY DEF Promise!Stored
      <4>3. rv \in Promise!Problems(MergedAlgs(got))
        BY <3>3, <3>6 DEF FoundSoFar, Promise!Problems, Promise!Mistakes
      <4>4. Promise!Fail
        BY <3>1, <3>2, <4>1, <4>2, <4>3, SameMerge DEF Promise!Fail, Promise!Pending
      <4> QED BY <4>4 DEF Promise!Next
    <3> QED BY <3>5, <3>6
  <2>6. CASE \/ OpenDir \/ (\E n \in Names : Find(n)) \/ MoveOn \/ Insert \/ EndOfDir
             \/ NotJson \/ AddInterface \/ InterfaceNotStored \/ EndInterfaces
             \/ AddAlg \/ AlgNotStored \/ EndFile \/ FinishInterfaces \/ FinishAlgs
    <3>1. /\ UNCHANGED <<ret, got, unread>>
          /\ pc \notin {"done", "destroyed", "broken"} /\ pc' # "broken"
      BY <2>6 DEF OpenDir, Find, MoveOn, Insert, EndOfDir, NotJson, AtFile, AddInterface,
                  InterfaceNotStored, MoreItems, EndInterfaces, AddAlg, AlgNotStored,
                  EndFile, FinishInterfaces, FinishAlgs, config, history
    <3>2. Code' = Code /\ Handed' = Handed
      BY <3>1, <2>p, <2>r DEF Code, Handed
    <3> QED BY <3>1, <3>2 DEF Promise!vars
  <2>7. CASE Destroy \/ UNCHANGED vars
    <3>1. /\ UNCHANGED <<ret, rv, config, got, unread>>
          /\ pc' = pc \/ (pc = "done" /\ pc' = "destroyed")
      BY <2>7 DEF Destroy, vars, config, history
    <3>2. Code' = Code /\ Handed' = Handed
      BY <3>1 DEF Code, Handed, config
    <3> QED BY <3>1, <3>2 DEF Promise!vars
  <2> QED BY <2>1, <2>2, <2>3, <2>4, <2>5, <2>6, <2>7 DEF Next
<1> QED BY <1>1, <1>2, PromiseInvariant, PTL DEF Spec, Promise!Spec
=============================================================================
