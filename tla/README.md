# A TLA+ development for xmidt-agent-c

This directory specifies and verifies the agent of this repository: its process
life cycle, its configuration, the way it gets its bootstrap token out of DNS, its
request for an authorization token, and the two example programs that use the last
two. `*.tla` are the modules, `*.cfg` the instances TLC checks, `*Proofs.tla`
the theorems TLAPS checks, `PROJECT.json` the index: which definition stands for
which lines, which run checks what, and where the code is exposed to what.

## 1. The system

The agent is a single-threaded C program. Its only concurrency is that of
signals with the program they interrupt, and of the file system and the network
with a program that reads them.

| component | state it keeps | operations | hard about it |
|---|---|---|---|
| life cycle (`src/cli/main.c`, `src/cli/signals.c`) | the flag `done`, the command, the disposition of nine signals, the configuration | `main`, `signals_config`, four handlers | handlers interrupt anything, themselves included; one-shot `signal()`; flags set and cleared in the wrong order |
| command line (`src/cli/config.c`) | none | `config_from_cli` | - |
| configuration (`src/config/config.c`) | the configuration under construction, two hashmaps, `*rv` | `config_read`, `config_destroy` | merge of several files, errors in one of them, a directory that changes, ownership of every string |
| file list (`src/config/cfg_file.c`) | a sorted list | `cfg_file_list_from_path`, `cfg_file_insert`, `cfg_file_list_destroy` | entries in any order |
| DNS fetch (`src/dns_txt/dns_txt.c`) | the message, the list of records | `dns_txt_fetch`, `dns_destroy_response` | lengths taken from the message, failure half-way |
| token assembly (`src/dns_txt/dns_txt.c`) | the chain of fragments, the buffer, the expiry | `dns_token_assemble`, `dns_destroy_token` | fragments in any order, copies, gaps, several scans, failure half-way |
| authorization request (`src/auth_token/auth_token.c`) | the response, its payload | `auth_token_req`, `response_cb` | chunks, failure between any two calls of curl |
| DNS client (`src/examples/dns-token-cli/cli.c`) | its options, the key file, the response, the token, the decoded jwt | `main` | one message read by two functions and printed by a third, five ways out with different things to release |
| authorization client (`src/examples/auth-fetch-cli/cli.c`) | the request, the payload | `main` | some thirty option names, with and without a value |
| error codes, logging, printer | none | `xa_set_error`, `log_*`, `config_print` | logging allocates, also in a handler |

How they interact: `main` calls `config_from_cli`, which calls `config_read`,
which walks the file list; then `main` installs the handlers and waits for one of
them to set `done`; then it calls `config_destroy`. The DNS and authorization
parts are libraries that the example programs call (`main`'s loop names their
places in comments): `dns-token-cli` calls `dns_txt_fetch`, `dns_token_assemble` on
its response, `cjwt_decode` on the token, then the destroy functions;
`auth-fetch-cli` fills a request from its options and calls `auth_token_req`.
Handlers and `main` share memory; everything else passes
arguments. Each function returns an `XAcode` and stores it through `xa_set_error`.

What makes each of them correct, in a sentence:

* life cycle: a stop carried out ends the program through its clean-up, and
  nothing else does, nor does a signal the program says it handles;
* configuration: the result is the merge of the files by name, or nothing and a
  code that names a problem there was; nothing stays allocated;
* DNS fetch: no octet outside the message is read; a complete list or nothing;
* token assembly: the longest chain of fragments 1, 2, 3, ..., each once and in
  order, with the least time to live, owned by exactly one party;
* authorization request: success means the whole response was received;
* DNS client: what it reads is there when it is read and released when it ends,
  and the ttl it prints is that of the message;
* authorization client: each option does what the usage text says, wherever it stands.

## 2. The modules

| module | models | extends |
|---|---|---|
| `TxtRecords` | a TXT answer as `append_frag` sees it, `atoi` on a tag | |
| `TokenPromise` | what a caller of `dns_token_assemble` gets | `TxtRecords` |
| `TokenAssemble` | the scans of `dns_token_assemble`, record by record | `TxtRecords`, instance of `TokenPromise` |
| `DnsResponse` | `dns_txt_fetch` and the parser, length test by length test | |
| `Lifecycle` | `main` and the handlers, interleaved | |
| `ConfigFiles` | the settings, a parsed file, the merge of files | |
| `ConfigPromise` | what a caller of `config_read` gets | `ConfigFiles` |
| `ConfigRead` | `config_from_cli`, `config_read`, the list, `config_destroy` | `ConfigFiles`, instance of `ConfigPromise` |
| `DnsTokenCli` | `main` of dns-token-cli: fetch, assembly and decoding of one message | instances of `DnsResponse` and `TokenAssemble` |
| `CliOptions` | the option loops of both examples, the rest of auth-fetch-cli | |
| `AuthToken` | `auth_token_req` and `response_cb`, call of curl by call of curl | |
| `MC...` | inputs for TLC | its component |
| `...Proofs` | theorems | its component, `TLAPS` |

### State and actions

*TokenAssemble.* `answers` is the list `resp->answers`, `rr` the position of the
loop's pointer in it (one past the end for `NULL`), `fragment` and `last_frag`
the two counters, `t` the token under construction. Instead of its octets `t`
records `parts`, the positions of the records whose payloads were appended, and
`len`, their number of octets. `buf` and `token` say who owns the buffer and what
`*token` was set to. One action is one record (`SkipRecord`, `AppendRecord`,
`AppendFails`), one test of the outer loop (`StartScan`, `LeaveLoop`), or one way
out (`RejectArguments`, `NotPresent`, `HandOver`, `HandOverFails`).

*DnsResponse.* `i` is the parser's index, `hi` one past the last octet it read,
`answers` the records by the place and length of their data, `p` and `full` the
life of the response and of its copy of the message. An octet is chosen when it is
read, which stands for every message because no octet is read twice. Each label,
pointer, question and record is an action; so is each allocation, each of which
may fail, and each block that `dns_destroy_response` frees.

*Lifecycle.* `pc` is `main`'s place, `frames` the stack of running handlers: main
moves only when it is empty, the innermost handler only otherwise, and a pending
signal is delivered between any two steps. `disp` holds the dispositions. `libc` says
whose `signal()` the build has: that of System V, one-shot, which the feature macros
of `signals.c` select in glibc, or that of BSD, whose handlers stay; it is chosen at
the start among `Libcs`. A handler has two steps, its logging and its act, because
the window between the start of a handler and `signal(sig, sig_ignore)` matters, and
because its logging may hit an allocator that is busy in the code it interrupts;
that is undefined, and the model lets it go well or break the process.

*ConfigRead.* `list` is the sorted list of file names; names are numbers in the
order of `strcmp`. An insertion walks the list step by step (`MoveOn`) to the place
of the `new` name (`Insert`). A file's content is what it parses to: a well-typed value or none
for every setting of `config_t` (all twenty are named), its interfaces and algorithms
in order, and whether something in it has a wrong type. `settings`, `interfaces` and
`algs` are the configuration under construction, with the hashmaps as a function and
a set. `heap` counts allocated blocks, action by action, as the code allocates and
frees; `lost` counts those that nothing points to any more. The environment is in the
actions: `readdir` may give the names in any order or leave some out, a file may be
unreadable when its turn comes, or be no JSON, or have any content. `hashmap_put` may
refuse an entry, which the code does not notice. With more algorithm names than
`algs[]` has slots the program writes behind the array; what follows is undefined
(`OverrunAlgs`).

*ConfigPromise.* `files` are what the directory holds, `code` and `handed` what the
caller gets. A result is the merge of the files that could be read, or of as many of
its interfaces and algorithms as the hashmaps accept (`Stored`), or a code for a
problem one of the files has.

*DnsTokenCli.* `at` is `main`'s place. The variables of the two functions are its own,
under other names where they meet (`fetch_pc`, `asm_pc`, `fetch_ret`, `asm_ret`, `rrs`
for the list). `Fetch` is a step of `DnsResponse`, `Assemble` one of `TokenAssemble`
over `Records`: the parser's records, with `content`, what each of them holds, chosen
when the record is listed. A ttl is four octets there, and `GetU32` makes a number of
them as `get_u32` does, the sign bit included. `AfterFetch`, `AfterAssemble`,
`DecodeFails` and `Finish` are the ways out with what each releases.

*CliOptions.* Each chain of `is_opt` is a table: the names of an option, whether it
takes the next argument, and the field it sets. An action is one round of the loop.
An argument behind the last one is `NULL`; `atol(NULL)` is undefined, and here a crash.
`Meant` says what a table means for a whole command line, without a loop: the last setting
of a field among the words that are looked at as options (`LookedAt`).

*AuthToken.* `pc` is the phase of `auth_token_req`, `next` the position in its table
of headers, of options, or of things asked after the transfer: each entry is an action
(`AppendHeader`, `SetOption`, `GetInfo`; `SkipHeader`, `SkipOption` for a field that is
`NULL`) with another for its failure. `in` is the set of fields given. `r` is the
caller's response: its payload as octets named by their place in the body, `blocks`
telling `NULL` from an empty block. It may hold an earlier answer when the function is
called. A chunk is one action (`Receive`, `NoMemory`, `EmptyAgain` for a `realloc` to
nothing). Three histories serve the properties: `body`, how much curl handed over,
`told`, what curl said of the transfer, and `lost`, the blocks a failed `realloc` leaves.
The values of the options, the times and the status are not modelled, only whether
they were set and obtained.

## 3. What TLC checks

| run | module, configuration | shows |
|---|---|---|
| `token_assembly` | `MCTokenAssemble` | order, maximality, choice among copies, expiry, ownership, termination, refinement of `TokenPromise` |
| `tag_pattern` | `MCTokenAssemble`, `MCTagMatchesPattern.cfg` | violated: a tag need not be two digits |
| `dns_response` | `MCDnsResponse` | reads in bounds, disjoint records, bounded list, all or nothing, termination |
| `rcode_reported` | `DnsResponse`, `MCRcodeReported.cfg` | violated: the count is tested before the response code |
| `lifecycle` | `Lifecycle`, `MCLifecycle.cfg` | how the process may end, that a stop in the loop ends it, and that no handled signal kills where handlers stay |
| `lifecycle_lost_stop` | `Lifecycle`, `MCLifecycleLostStop.cfg` | violated: a stop before `done = false` is lost |
| `lifecycle_ignored` | `Lifecycle`, `MCLifecycleIgnored.cfg` | violated: a repeated "ignored" signal can kill |
| `config_read` | `MCConfigRead` | order, merge, codes, memory, refinement of `ConfigPromise` |
| `auth_token` | `MCAuthToken` | code against state, the payload, the request as sent, memory |
| `dns_token_cli` | `MCDnsTokenCli` | the two functions over one message: live data, the token's length and ttl, what is released on each way out, termination |
| `cli_options` | `MCCliOptions` | both option loops against their tables |
| `usage_text` | `MCCliOptions`, `MCUsageText.cfg` | violated: `--max-time` does not take its value, and `--capath` is not the CA bundle's |

Bounds and why they are enough:

* Token assembly: all lists of one to four answers over ten kinds of records
  (three numbers, copies with other ttls and sizes, a loose tag for the same number,
  a signed one, a negative one, a foreign type, one too short, one without a colon).
  Four answers hold a chain of three with a copy in every place; a reversed chain of
  fourteen takes the largest number of scans and a number of two digits. Ttls go up
  to 5 (`UINT32_MAX = 5`): only their order matters.
* DNS: every length around those at which a question and a first, second and third
  record just fit; counts 0 to 3 and 65535; octets at every border of the label
  encoding; data lengths 0, 1, 4 and 65535.
* Life cycle: up to four signals of four kinds, a stop signal of each command, an
  ignored one, and `SIGCHLD`, whose default disposition is harmless. Two signals
  show each of the violations; four allow a handler that interrupts a handler that
  interrupts main, and a repetition of each.
* Configuration: three files of five contents, with two
  values, repeated interfaces and algorithms, an interface without a name, a wrong
  type, an unknown algorithm, and three algorithm names for two slots.
* Authorization request: all fields, the few every client gives, and none; up to three
  chunks of 0, 1 or 2 octets, so that an allocation can fail before, between and after
  chunks that were kept. curl calls with an empty chunk only for an empty body.

* DNS client: lengths at which no, one, two or three records just fit, with three to
  five octets of data each (a tag without its separator, an empty piece, one octet).
  The header, the names and the counts are those of a good message, because
  `dns_response` has the others. `OCTET = 4` makes an `int` eight bits wide; the ttls
  are a small one, the largest positive, the smallest and the largest with the sign
  bit. Contents are copies of three numbers, which come in any order, and a foreign type.
* Option loops: every name of both tables and two numbers, in lines of up to three
  words; a value, an option's name as a value, a value that is missing, and a word
  behind the operand all occur in three. `usage_text` has lines of up
  to three words out of five: the two options in question, `--key`, whose field `--capath`
  takes, and two values. TLC stops at the first line it finds, `-m 7`; with `-m` left out
  of `FewWords` it finds `--capath 7` in the same way.

Deadlock is not checked because every one of these programs stops: a function
returns, a process ends.

Fairness: `FairSpec` asks that a function goes on as long as it can (it never waits
but for the resolver or the file system, which answer or give up), and in
`Lifecycle` that `main`, the handlers and the kernel's delivery each go on; nothing
obliges anybody to send a signal. `AuthToken` claims no liveness: the time out
may be 0, and curl then waits for the server as long as it takes. No fairness is asked of an outcome: memory may
run out at every call.

Every invariant and property of a passing run has a mutated definition (the
operators with a suffix, such as `Wanted_gaps` before `Wanted`) that stands for a
plausible mistake and makes the property fail.

## 4. What is proved

For every value of the constants, with the assumptions of the modules (types only):

* `TokenAssembleProofs`: `TypeOK`, `ChainInOrder`, `ChainIsMaximal`,
  `FirstCopyAfterPrevious`, `BufferHasOneOwner`, `ExpiresWithItsFragments`, and that each
  step implements a step of `TokenPromise` or none. `ChainIsMaximal` needs the
  strengthening that, while a scan that has appended nothing is under way, no record
  before `rr` carries the next number; ownership needs the relation of `buf` to `t.parts`
  at every place. For the choice among copies `CopyInv` says that since the
  last append no record with the next number has been passed, neither on the way to `rr`
  nor, in the scan after that one, on the rest of the list.
  `EveryStepCounts`: `Left` falls with every step. A scan is only begun after an append,
  and a number has two digits, so fragment and `last_frag` change at most 200 times.
* `DnsResponseProofs`: `TypeOK`, `AllOrNothing`, `ReadsInBounds`,
  `RecordsDisjoint`, `ListFitsMessage`. The last three rest on one invariant that
  bounds the index between the end of the last record and the length. The same bounds
  make `Left` a natural number that falls with every step (`EveryStepCounts`).
* `LifecycleProofs`: `TypeOK`, `DefaultShutdownNeverRuns`, `ExitZeroIsClean`,
  `KillNeedsRepetition`, `SingleSignalIsGraceful`, and `HandledSignalsNeverKill` (where
  handlers stay), for any number of signals. The invariant says which part of the table is
  installed at each place of `main`, and that a disposition is the default only if the
  signal was caught before. `SingleInv` follows the one signal of `SingleSignalIsGraceful`:
  it is pending, then handled, then perhaps told to `main`, never two of these at a time,
  and no handler has been used up before it is delivered.
* `ConfigReadProofs`: `TypeOK`, `ListIsSorted`, `SettingsAreMerged`,
  `CodeNamesAProblem` and `NothingElseLeaks`, for any number of files, settings and
  algorithms. Each rests on the one before: the list is sorted because the names
  passed by an insertion are smaller (`Passed`); a file is therefore parsed after all
  those with smaller names (`Placed`, `ParsedIsLast`), so it may override them, and
  `HasGreatest` carries along that the files with a setting have a greatest one;
  `HeapInv` is an equation for `heap` at every place of `config_read`, in terms of the
  strings, interfaces and algorithms that the configuration points to.
* `ConfigPromiseProofs`: every step of `config_read` implements a step of `ConfigPromise`
  or none. The promise speaks of whole files and the merge of their arrays, the code works
  item by item: `ItemsInv` says that each interface in the hashmap has the cost of the last
  item looked at under its name, with the items of the current file before `item` counted
  as looked at (`SeenIn`, `IsLatest`); `StoredInv` that nothing looked at is missing where
  the hashmaps accept everything; `TriedInv` that a file that could not be read
  was tried, and none before the list was complete.
* `AuthTokenProofs`: `TypeOK`, `CodeAndStateAgree`, `PayloadIsWhole`,
  `RequestIsComplete` and `NothingElseLeaks`, for every request, any sizes of chunks
  and any number of them. `StateInv` says which code, state and knowledge go with each
  place; `RequestInv` that before `next` every header and option that is due is there;
  `HeapInv` is again an equation for `heap`.
* `DnsTokenCliProofs`: `TypeOK`, `ReadsLiveMessage`, `TtlIsTheSoonest`,
  `ReleasedAtExit` and `TokenFitsMessage`. The prover does not use the theorems of an
  instance, so the invariant repeats what the composition needs of its two parts: `ListInv`
  and `FetchStage` of the list and its owner, `IndexInv` and `Apart` of the records' places,
  `TokenInv` and `BufferStage` of the token; `MainStage` says what each place of `main` may
  count on. `GetU32IsBigEndian` shows, for an octet of any width, that the conversion undoes
  the sign of the sum. `TokenFitsMessage` compares a sum over the chain, whose records come
  in any order, with the end of the message. `ChainInv` therefore says that there is a
  `Tally`: a function that adds up, along the list, the room of the records that are in the
  chain. Appending one raises it from that record on. That it stays below each record's
  end (`TallyFits`) is an induction, made with the least place where it would not.
* `CliOptionsProofs`: `TypeOK` and `ParsedAsTabled` for command lines of any length.
  `TypeOK` gives each field the kind of value that the program's variable has (`ValuesOf`): numbers,
  the names of its own options for a flag, a word that is no option for the operand, a
  word or `NULL` elsewhere. `RowFacts` says that no option of either table takes a value of
  another kind than its field's.
  `LookedAt`, the words that are looked at as options, is the least set closed under
  stepping over an option and its value; `LoopInv` says that the loop has reached a word of
  that set, that no option behind it reaches further, and that the fields have what the
  words behind it give them.

All invariants that the passing runs check are theorems. Only model-checked is liveness:
the runs' `Terminates`, `StopInLoopEndsProgram`, and the fairness in the two
`ImplementsPromise`, because neither fairness nor `ENABLED` is in the prover's reach.
`EveryStepCounts` is the part of termination that is: a call can stop, but not go on for ever. It has
no counterpart for `config_read`, whose files have any number of items that is only
known once they are read. Of the properties that the runs find violated nothing is claimed.

## 5. Disagreements found

* A stop signal handled between `signals_config` and `done = false` is lost
  (`main.c:61-63`).
* `sig_ignore` is not installed while it logs, so a repeated signal that is "ignored"
  can kill the agent (`signals.c:45-46`).
* `dns_txt.c:206` tests the number of answers before the response code, so an error
  without answers is reported as too few answers, and its comments' classes of retry
  and fatal errors are lost.
* `append_frag` documents tags of two digits and accepts whatever `atoi` does
  (`dns_txt.c:242`, `279`).
* `--max-time` of auth-fetch-cli reads its own name as a number, 0, and the value is
  then taken for the URL (`auth-fetch-cli/cli.c:113-114`, usage at line 84).
* In the same program `--capath` sets the path of the private key (lines 115-117, usage
  at line 86), and `--max-redirs 0` with `--location` follows any number of redirects
  (164-168). In dns-token-cli `--interface` has no effect (102-103, usage at line 65),
  a token that cannot be decoded is not released (152-159; the model's
  `DecodeFails`), and the public key that `freadall` reads (126) is released on no way
  out at all (`ReleasedAtExit` does not speak of it). These have no run of their own:
  `ParsedAsDocumented` states the first, the words of `usage_text` reach it, and
  `MaxRedirects`, `DecodeFails` and `ReadKey` show the others as the code has them.
* `cfg_file_list_from_path` looks at `path[path_len - 1]` before it knows that the path has an
  octet (`cfg_file.c:140`). With `--config.dir ""` it reads the end of the word before, and
  `stat` then refuses the empty path: in the model one of the ways of `Refuse`.

## 6. Plan

1. `TokenAssemble`, `DnsResponse`, `Lifecycle`, `ConfigRead`, `AuthToken`: done.
2. `DnsTokenCli`, the composition of fetch and assembly; `CliOptions`: done.
3. Theorems: every invariant of the passing runs, and the refinement of both promises:
   done. The parser and the assembly also have a variant. Left: a variant for the two of them
   in `DnsTokenCli`, and for `ConfigRead` one that is a pair.

## 7. Not modelled

* JSON, curl, the resolver, cjwt and the hashmap themselves: external; modelled by
  what the code may see of them.
* A composition of `Lifecycle` with the other parts: `main`'s loop has only comments
  where it would call them, and its configuration is not used by a handler.
* The printer and the format of the log: output, with no state that anything reads.
* The table of error names: a constant.
* breakpad: another language, and a library that only a build option brings in.
