--------------------------- MODULE ConfigPromise ---------------------------
(***************************************************************************)
(* What config_read promises, without the directory scan, the list and the *)
(* intermediate hashmaps: it looks at some files of the directory, in any  *)
(* order, and hands over their merge, or nothing and a code that names one *)
(* of the problems it met.  Interfaces and algorithms that a hashmap has no*)
(* room for are missing, whole: no interface gets the cost of another file.*)
(***************************************************************************)
EXTENDS ConfigFiles, FiniteSets

CONSTANT HashmapsMayFail   \* a hashmap may refuse an entry

VARIABLES
  got,       \* the content of the files that were parsed
  unread,    \* the files that were found and could not be read
  code,      \* the code returned, "pending" before that
  handed     \* the configuration handed over

vars == <<got, unread, code, handed>>

Nothing == [settings |-> [s \in Settings |-> Unset], interfaces |-> Empty, algs |-> {}]

(* What may be left of a set of keys that were stored. *)
Stored(keys) == IF HashmapsMayFail THEN SUBSET keys ELSE {keys}

Merged(names, A) ==
  [settings   |-> MergedSettings(got),
   interfaces |-> [i \in names |-> MergedInterfaces(got)[i]],
   algs       |-> A]

Init == got = Empty /\ unread = {} /\ code = "pending" /\ handed = Nothing

Pending == code = "pending"

Read == /\ Pending
        /\ \E n \in Names \ (DOMAIN got \union unread), f \in Contents : got' = Put(got, n, f)
        /\ UNCHANGED <<unread, code, handed>>

FailToRead == /\ Pending
              /\ \E n \in Names \ (DOMAIN got \union unread) : unread' = unread \union {n}
              /\ UNCHANGED <<got, code, handed>>

(* The command line, the path or the directory is refused. *)
Refuse == /\ Pending
          /\ got = Empty /\ unread = {}
          /\ code' \in {"XA_CLI_ERROR", "XA_PATH_TOO_LONG", "XA_NOT_A_DIR",
                        "XA_FAILED_TO_OPEN_FILE"}
          /\ UNCHANGED <<got, unread, handed>>

Mistakes(A) == (\E n \in DOMAIN got : got[n].wrong) \/ A \cap BadNames # {}

Problems(A) == {c \in {"XA_FAILED_TO_OPEN_FILE"} : unread # {}}
                 \union {c \in {"XA_CONFIG_FILE_ERROR"} : Mistakes(A)}

Deliver ==
  /\ Pending
  /\ code' = "XA_OK"
  /\ \E A \in Stored(MergedAlgs(got)), names \in Stored(DOMAIN MergedInterfaces(got)) :
       Problems(A) = {} /\ handed' = Merged(names, A)
  /\ UNCHANGED <<got, unread>>

Fail == /\ Pending
        /\ \E A \in Stored(MergedAlgs(got)) : code' \in Problems(A)
        /\ UNCHANGED <<got, unread, handed>>

(* With more names of algorithms than cjwt has, nothing is promised. *)
Overrun == /\ Pending
           /\ Cardinality(MergedAlgs(got)) > num_algorithms
           /\ code' = "undefined"
           /\ UNCHANGED <<got, unread, handed>>

Next == Read \/ FailToRead \/ Refuse \/ Deliver \/ Fail \/ Overrun

Spec == Init /\ [][Next]_vars

(* The call also returns. *)
FairSpec == Spec /\ <>~Pending
=============================================================================
