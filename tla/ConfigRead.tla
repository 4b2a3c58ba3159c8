----------------------------- MODULE ConfigRead -----------------------------
(***************************************************************************)
(* config_from_cli (cli/config.c), config_read and config_destroy          *)
(* (config/config.c) and the list of files (config/cfg_file.c).  A step is *)
(* one directory entry, one file's plain settings, or one item of its      *)
(* arrays.  The directory may change at any time: an entry shows up or not *)
(* while it is scanned, and a file may be gone when it is read.            *)
(*                                                                         *)
(* heap counts the blocks that were allocated and not freed.  Allocations  *)
(* made with must_... end the program when they fail and are not followed; *)
(* hashmap_put reports a failure, which the code does not look at.         *)
(***************************************************************************)
EXTENDS ConfigFiles, FiniteSets

CONSTANT HashmapsMayFail

ASSUME HashmapAssumption == HashmapsMayFail \in BOOLEAN

VARIABLES
  pc,          \* where config_read is
  list,        \* the names of the files found, as cfg_file_insert orders them
  new,         \* the name being inserted
  todo,        \* the position of the current file
  file,        \* its content, once parsed
  item,        \* a position in the list or in an array of the file
  settings,    \* cb.c, but for the two parts below
  interfaces,  \* the hashmap of interfaces, then the array
  algs,        \* the keys of the hashmap of algorithms, then the array
  rv,          \* *rv
  ret,         \* what config_read returned: none | NULL | config
  heap,        \* how many blocks are allocated
  got,         \* history: the content of each file that was parsed
  unread,      \* history: the files that could not be read
  lost         \* history: blocks nothing points to, by the way they were lost

vars == <<pc, list, new, todo, file, item, settings, interfaces, algs, rv, ret, heap,
          got, unread, lost>>
config  == <<settings, interfaces, algs>>
history == <<got, unread, lost>>

NoFile == [settings |-> [s \in Settings |-> Absent], interfaces |-> <<>>,
           algs |-> <<>>, wrong |-> FALSE]

Init == /\ pc = "enter"
        /\ list = <<>> /\ new = -1 /\ todo = 1
        /\ file = NoFile /\ item = 1
        /\ settings = [s \in Settings |-> Unset]
        /\ interfaces = Empty /\ algs = {}
        /\ rv = "XA_OK" /\ ret = "none"
        /\ heap = 0
        /\ got = Empty /\ unread = {}
        /\ lost = [repeated |-> 0, refused |-> 0]

-----------------------------------------------------------------------------
(* The command line, the length of the path, stat and opendir.  The test for *)
(* a slash at the end reads the octet before an empty path: on the command   *)
(* line that is the end of the word "--config.dir", and stat then refuses the*)
(* path whatever was read, so that this is one more way to XA_NOT_A_DIR.     *)
PathErrors == {"XA_CLI_ERROR", "XA_PATH_TOO_LONG", "XA_NOT_A_DIR",
               "XA_FAILED_TO_OPEN_FILE"}

Refuse == /\ pc = "enter"
          /\ rv' \in PathErrors
          /\ ret' = "NULL"
          /\ pc' = "done"
          /\ UNCHANGED <<list, new, todo, file, item, config, heap, history>>

OpenDir == /\ pc = "enter"
           /\ pc' = "readdir"
           /\ UNCHANGED <<list, new, todo, file, item, config, rv, ret, heap, history>>

(* readdir gives an entry with the right ending that is a regular file: it    *)
(* costs a node and its name.  Any other entry leaves nothing behind.         *)
Find(n) == /\ pc = "readdir"
           /\ \A j \in DOMAIN list : list[j] # n
           /\ new' = n /\ item' = 1
           /\ heap' = heap + 2
           /\ pc' = "insert"
           /\ UNCHANGED <<list, todo, file, config, rv, ret, history>>

(* cfg_file_insert: past the smaller names, then in front of the next.        *)
MovesOn_always == item <= Len(list)
MovesOn == item <= Len(list) /\ list[item] < new

MoveOn == /\ pc = "insert"
          /\ MovesOn
          /\ item' = item + 1
          /\ UNCHANGED <<pc, list, new, todo, file, config, rv, ret, heap, history>>

Inserted == [j \in 1 .. Len(list) + 1 |-> CASE j < item -> list[j]
                                             [] j = item -> new
                                             [] j > item -> list[j - 1]]

Insert == /\ pc = "insert"
          /\ ~MovesOn
          /\ list' = Inserted
          /\ pc' = "readdir"
          /\ UNCHANGED <<new, todo, file, item, config, rv, ret, heap, history>>

(* The directory is closed, the configuration allocated.                      *)
EndOfDir == /\ pc = "readdir"
            /\ pc' = "file"
            /\ heap' = heap + 1
            /\ UNCHANGED <<list, new, todo, file, item, config, rv, ret, history>>

-----------------------------------------------------------------------------
(* file_to_config and json_to_config.                                         *)
AtFile == pc = "file" /\ todo <= Len(list)

ReadFails == /\ AtFile
             /\ rv' = "XA_FAILED_TO_OPEN_FILE"
             /\ unread' = unread \union {list[todo]}
             /\ todo' = todo + 1
             /\ UNCHANGED <<pc, list, new, file, item, config, ret, heap, got, lost>>

(* A file that is no JSON is passed over: its text is freed, no error is set. *)
NotJson == /\ AtFile
           /\ todo' = todo + 1
           /\ UNCHANGED <<pc, list, new, file, item, config, rv, ret, heap, history>>

(* The text and the tree live until the file is done; a string replaces and   *)
(* frees the one an earlier file set.                                         *)
Overridden_not(f) == [s \in Settings |-> IF settings[s] = Unset /\ f.settings[s] # Absent
                                           THEN f.settings[s] ELSE settings[s]]
Overridden(f) == [s \in Settings |-> IF f.settings[s] = Absent
                                       THEN settings[s] ELSE f.settings[s]]

FreshStrings_none(f) == {}
FreshStrings_all(f) == {s \in Strings : f.settings[s] # Absent}
FreshStrings(f) == {s \in Strings : f.settings[s] # Absent /\ settings[s] = Unset}

WrongType_ignored(f) == rv
WrongType(f) == IF f.wrong THEN "XA_CONFIG_FILE_ERROR" ELSE rv

Parse == /\ AtFile
         /\ \E f \in Contents :
              /\ file' = f
              /\ got' = Put(got, list[todo], f)
              /\ settings' = Overridden(f)
              /\ heap' = heap + 2 + Cardinality(FreshStrings(f))
              /\ rv' = WrongType(f)
         /\ item' = 1
         /\ pc' = "interfaces"
         /\ UNCHANGED <<list, new, todo, interfaces, algs, ret, unread, lost>>

(* process_interfaces: a new struct with its name, kept when the name is new. *)
Blocks(i) == IF i.name = NoName THEN 1 ELSE 2

MoreItems(at, array) == pc = at /\ item <= Len(array)

AddInterface ==
  /\ MoreItems("interfaces", file.interfaces)
  /\ LET i == file.interfaces[item]
     IN  /\ interfaces' = Put(interfaces, i.name, i.cost)
         /\ heap' = heap + IF i.name \in DOMAIN interfaces THEN 0 ELSE Blocks(i)
  /\ item' = item + 1
  /\ UNCHANGED <<pc, list, new, todo, file, settings, algs, rv, ret, history>>

InterfaceNotStored ==
  /\ HashmapsMayFail
  /\ MoreItems("interfaces", file.interfaces)
  /\ LET i == file.interfaces[item]
     IN  /\ i.name \notin DOMAIN interfaces
         /\ heap' = heap + Blocks(i)
         /\ lost' = [lost EXCEPT !.refused = @ + Blocks(i)]
  /\ item' = item + 1
  /\ UNCHANGED <<pc, list, new, todo, file, config, rv, ret, got, unread>>

EndInterfaces == /\ pc = "interfaces"
                 /\ item > Len(file.interfaces)
                 /\ pc' = "algs" /\ item' = 1
                 /\ UNCHANGED <<list, new, todo, file, config, rv, ret, heap, history>>

(* process_jwt_alg_array: every name is copied; the hashmap keeps one copy.   *)
AddAlg ==
  /\ MoreItems("algs", file.algs)
  /\ algs' = algs \union {file.algs[item]}
  /\ heap' = heap + 1
  /\ lost' = [lost EXCEPT !.repeated = @ + IF file.algs[item] \in algs THEN 1 ELSE 0]
  /\ item' = item + 1
  /\ UNCHANGED <<pc, list, new, todo, file, settings, interfaces, rv, ret, got, unread>>

AlgNotStored ==
  /\ HashmapsMayFail
  /\ MoreItems("algs", file.algs)
  /\ heap' = heap + 1
  /\ lost' = [lost EXCEPT !.refused = @ + 1]
  /\ item' = item + 1
  /\ UNCHANGED <<pc, list, new, todo, file, config, rv, ret, got, unread>>

EndFile == /\ pc = "algs"
           /\ item > Len(file.algs)
           /\ pc' = "file" /\ todo' = todo + 1
           /\ file' = NoFile /\ item' = 1
           /\ heap' = heap - 2
           /\ UNCHANGED <<list, new, config, rv, ret, history>>

-----------------------------------------------------------------------------
(* finalize: the hashmaps become arrays, one block even without interfaces.   *)
(* The interfaces' names move along; the algorithms' are translated and freed.*)
FinishInterfaces == /\ pc = "file"
                    /\ todo > Len(list)
                    /\ pc' = "finish"
                    /\ heap' = heap + 1 - Cardinality(DOMAIN interfaces)
                    /\ UNCHANGED <<list, new, todo, file, item, config, rv, ret, history>>

UnknownAlg_ignored == rv
UnknownAlg == IF algs \cap BadNames # {} THEN "XA_CONFIG_FILE_ERROR" ELSE rv

FinishAlgs == /\ pc = "finish"
              /\ rv' = UnknownAlg
              /\ heap' = heap - Cardinality(algs)
              /\ pc' = "return"
              /\ UNCHANGED <<list, new, todo, file, item, config, ret, history>>

(* One slot too many is written behind algs[num_algorithms]: anything goes,   *)
(* an apparent success included.                                              *)
OverrunAlgs == /\ pc = "finish"
               /\ Cardinality(algs) > num_algorithms
               /\ pc' = "broken"
               /\ UNCHANGED <<list, new, todo, file, item, config, rv, ret, heap, history>>

(* config_destroy, string by string.                                          *)
Destroyed_withoutMtls == Strings \ {"mtls.cert_path", "mtls.private_key_path"}
Destroyed == {"identity.device_id", "identity.partner_id",
              "hardware.model", "hardware.serial_number", "hardware.manufacturer",
              "hardware.last_reboot_reason", "firmware.name", "behavior.url",
              "dns_txt.base_fqdn", "jwt.keys_dir", "issuer.ca_bundle_path",
              "issuer.url", "mtls.cert_path", "mtls.private_key_path"}

ConfigBlocks == 1 + Cardinality({s \in Destroyed : settings[s] # Unset})
                  + 1 + Cardinality(DOMAIN interfaces \ {NoName})

ListBlocks == 2 * Len(list)

Finish == /\ pc = "return"
          /\ IF rv = "XA_OK" THEN ret' = "config" /\ heap' = heap - ListBlocks
                             ELSE ret' = "NULL" /\ heap' = heap - ListBlocks - ConfigBlocks
          /\ pc' = "done"
          /\ UNCHANGED <<list, new, todo, file, item, config, rv, history>>

(* main's clean-up.                                                           *)
Destroy == /\ pc = "done"
           /\ ret = "config"
           /\ heap' = heap - ConfigBlocks
           /\ pc' = "destroyed"
           /\ UNCHANGED <<list, new, todo, file, item, config, rv, ret, history>>

Next == \/ Refuse \/ OpenDir \/ (\E n \in Names : Find(n)) \/ MoveOn \/ Insert \/ EndOfDir
        \/ ReadFails \/ NotJson \/ Parse
        \/ AddInterface \/ InterfaceNotStored \/ EndInterfaces
        \/ AddAlg \/ AlgNotStored \/ EndFile
        \/ FinishInterfaces \/ FinishAlgs \/ OverrunAlgs \/ Finish \/ Destroy

Spec == Init /\ [][Next]_vars

(* config_read runs to its end: it waits for nothing but the file system.     *)
FairSpec == Spec /\ WF_vars(Next)

-----------------------------------------------------------------------------
Types ==
  /\ pc \in {"enter", "readdir", "insert", "file", "interfaces", "algs", "finish", "return",
             "done", "destroyed", "broken"}
  /\ list \in Seq(Names)
  /\ new \in Names \union {-1}
  /\ todo \in 1 .. Len(list) + 1
  /\ file \in Contents \union {NoFile}
  /\ item \in Nat
  /\ settings \in [Settings -> Values \union {Unset}]
  /\ DOMAIN interfaces \subseteq Interfaces \union {NoName}
  /\ \A i \in DOMAIN interfaces : interfaces[i] \in Int
  /\ algs \subseteq Algs
  /\ rv \in PathErrors \union {"XA_OK", "XA_CONFIG_FILE_ERROR"}
  /\ ret \in {"none", "NULL", "config"}
  /\ DOMAIN got \subseteq Names
  /\ \A n \in DOMAIN got : got[n] \in Contents
  /\ unread \subseteq Names
  /\ lost \in [repeated : Nat, refused : Nat]

(* Every variable stays in its type; no more is freed than was allocated.     *)
TypeOK == Types /\ heap \in Nat

(* The files are listed by name, each once, whatever order readdir gives them *)
(* in (internal.h: "in alphabetic order").                                    *)
ListIsSorted == \A j, k \in DOMAIN list : j < k => list[j] < list[k]

(* Of several files that give a setting the one with the greatest name decides*)
(* (the tests' 00_lower_priority.json, 01_higher_priority.json), whatever the *)
(* order of the directory and also while reading is under way.                *)
SettingsAreMerged == settings = MergedSettings(got)

(* The code and the configuration agree with what was met: a configuration is *)
(* handed over only if every file found was read, everything in it had its    *)
(* type, and the algorithms are known ones; an error names a problem there is.*)
CodeNamesAProblem ==
  ret # "none" =>
    CASE rv = "XA_OK" -> /\ ret = "config"
                         /\ unread = {}
                         /\ \A n \in DOMAIN got : ~got[n].wrong
                         /\ algs \subseteq Algorithms
      [] rv = "XA_CONFIG_FILE_ERROR" -> /\ ret = "NULL"
                                        /\ \/ \E n \in DOMAIN got : got[n].wrong
                                           \/ MergedAlgs(got) \cap BadNames # {}
      [] rv = "XA_FAILED_TO_OPEN_FILE" -> /\ ret = "NULL"
                                          /\ unread # {} \/ list = <<>>
      [] OTHER -> ret = "NULL" /\ list = <<>>

(* After a failure, or once the configuration is destroyed, every block has   *)
(* been released, but for the copies of repeated algorithm names and what a   *)
(* hashmap refused.                                                           *)
NothingElseLeaks ==
  pc = "destroyed" \/ ret = "NULL" => heap = lost.repeated + lost.refused

-----------------------------------------------------------------------------
(* The files one after the other implement the promise.                       *)
Code == CASE pc = "broken"                 -> "undefined"
          [] pc # "broken" /\ ret = "none" -> "pending"
          [] OTHER                         -> rv

Handed == IF ret = "config"
            THEN [settings |-> settings, interfaces |-> interfaces, algs |-> algs]
            ELSE [settings |-> [s \in Settings |-> Unset], interfaces |-> Empty, algs |-> {}]

Promise == INSTANCE ConfigPromise WITH code <- Code, handed <- Handed

ImplementsPromise == Promise!FairSpec
=============================================================================
