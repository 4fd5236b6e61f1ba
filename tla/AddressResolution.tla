--------------------------- MODULE AddressResolution ---------------------------
(***************************************************************************)
(* Addresses and symbols are resolved in the thread of the script, from    *)
(* files of /proc and from ELF files that the library reads once and keeps *)
(* (functools.cache).  The polling thread drops what it knows of the maps  *)
(* whenever the process has stopped.                                       *)
(***************************************************************************)
EXTENDS Addresses

CONSTANTS Layouts,     \* the maps that the process of a program may have: path -> set of maps
          Queries,     \* what the script asks for: [kind, name, at, file]
          Levels,      \* values of sym_lvl
          Unknown,
          Scenarios

(* early: memory is accessed while the process runs, and the address is    *)
(* resolved before the process is stopped; another: the debugger goes on   *)
(* with another program; exec: the process executes another program;       *)
(* levels: sym_lvl is changed.                                             *)
AllUses == {"early", "another", "exec", "levels"}

VARIABLES uses,
          exe, maps,         \* the program and the maps of the process, as they are
          state,             \* "stopped", "running", "halted", "waited" (see below)
          maps_cache,        \* get_process_maps
          full_path,         \* _get_process_full_path
          symbol_cache, name_cache,    \* resolve_symbol, resolve_address of ELF files
          sym_lvl,
          query, phase,      \* what the script is at
          fetched,           \* maps read and not yet kept
          answer

addressVars == <<uses, exe, maps, state, maps_cache, full_path, symbol_cache, name_cache, sym_lvl,
          query, phase, fetched, answer>>

tracee == <<exe, maps, state>>
caches == <<maps_cache, full_path, symbol_cache, name_cache>>
script == <<query, phase, fetched, answer>>

-------------------------------------------------------------------------------
(* The process and the polling thread. *)

Cont ==
    /\ state = "stopped" /\ phase = "idle"
    /\ state' = "running"
    /\ UNCHANGED <<uses, exe, maps, caches, sym_lvl, script>>

(* The process runs: it maps and unmaps memory. *)
Execute ==
    /\ state = "running"
    /\ maps' \in Layouts[exe]
    /\ UNCHANGED <<uses, exe, state, caches, sym_lvl, script>>

Exec(p) ==
    /\ "exec" \in uses /\ state = "running"
    /\ exe' = p /\ maps' \in Layouts[p]
    /\ UNCHANGED <<uses, state, caches, sym_lvl, script>>

Halt ==
    /\ state = "running"
    /\ state' = "halted"
    /\ UNCHANGED <<uses, exe, maps, caches, sym_lvl, script>>

(* Mutant: what is known of the maps is kept. *)
WaitKeeps ==
    /\ state = "halted"
    /\ state' = "waited"
    /\ UNCHANGED <<uses, exe, maps, caches, sym_lvl, script>>

(* wait: waitpid has returned, invalidate_process_cache *)
Wait ==
    /\ state = "halted"
    /\ state' = "waited"
    /\ maps_cache' = Unknown
    /\ UNCHANGED <<uses, exe, maps, full_path, symbol_cache, name_cache, sym_lvl, script>>

(* set_stopped: the script may know. *)
SetStopped ==
    /\ state = "waited"
    /\ state' = "stopped"
    /\ UNCHANGED <<uses, exe, maps, caches, sym_lvl, script>>

(* run or attach again.  The old process is gone, the new one is waited    *)
(* for; the path of the program stays known.                               *)
Again(p) ==
    /\ state = "stopped" /\ phase = "idle"
    /\ "another" \in uses \/ p = exe
    /\ exe' = p /\ maps' \in Layouts[p]
    /\ maps_cache' = Unknown
    /\ UNCHANGED <<uses, state, full_path, symbol_cache, name_cache, sym_lvl, script>>

SetLevel(l) ==
    /\ "levels" \in uses /\ phase = "idle"
    /\ sym_lvl' = l
    /\ UNCHANGED <<uses, tracee, caches, script>>

-------------------------------------------------------------------------------
(* The script. *)

(* breakpoint, step_until, backtrace: the process is stopped first.        *)
(* d.memory[...]: not before the address is resolved.                      *)
Ask(q) ==
    /\ phase = "idle"
    /\ state = "stopped" \/ ("early" \in uses /\ q.kind # "name")
    /\ query' = q /\ phase' = "maps"
    /\ answer' = Unknown
    /\ UNCHANGED <<uses, tracee, caches, sym_lvl, fetched>>

(* get_process_maps: /proc/pid/maps is read if it is not known ... *)
FetchMaps ==
    /\ phase = "maps"
    /\ IF maps_cache = Unknown THEN phase' = "keep" /\ fetched' = maps
       ELSE phase' = "resolve" /\ fetched' = maps_cache
    /\ UNCHANGED <<uses, tracee, caches, sym_lvl, query, answer>>

(* ... and kept. *)
KeepMaps ==
    /\ phase = "keep"
    /\ phase' = "resolve"
    /\ maps_cache' = fetched
    /\ UNCHANGED <<uses, tracee, full_path, symbol_cache, name_cache, sym_lvl, query, fetched, answer>>

(* resolve_address, resolve_symbol, resolve_address_in_maps, with what is  *)
(* known of symbols and of names.                                          *)
Answer(ms, path, q, symbols, names) ==
    CASE q.kind = "address" -> ResolveAddress(ms, path, q.at, q.file)
      [] q.kind = "symbol" -> ResolveSymbol(ms, path, q.name, q.at, q.file, sym_lvl, symbols)
      [] q.kind = "name" -> NameOf(ms, q.at, sym_lvl, names)

(* The path of the program is read when it is needed for the first time. *)
AsksPath(ms, q) ==
    /\ q.kind # "name" /\ q.file # "absolute"
    /\ q.kind = "address" /\ q.file = "hybrid" => ~CheckAbsoluteAddress(ms, q.at)
Path == IF full_path = Unknown THEN exe ELSE full_path

(* What is learnt from the ELF file that gives the answer, if one does. *)
Learnt(f, x, values) == {[file |-> f, of |-> x, value |-> v] : v \in values}
LearntSymbol(ms, q) ==
    UNION {Learnt(m.file, q.name, LookSymbol(m.file, sym_lvl, q.name, symbol_cache)) :
              m \in First(ms, Filtered(ms, Named(Path, q.file)))}
LearntName(ms, q) ==
    UNION {Learnt(m.file, q.at - Base(ms, m.file), NamesIn(ms, m.file, q.at, sym_lvl, name_cache)) :
              m \in Knowing(ms, q.at, sym_lvl, name_cache)}

AnswerQuery ==
    /\ phase = "resolve"
    /\ answer' = Answer(fetched, Path, query, symbol_cache, name_cache)
    /\ full_path' = IF AsksPath(fetched, query) THEN Path ELSE full_path
    /\ symbol_cache' = symbol_cache \cup (IF query.kind = "symbol" THEN LearntSymbol(fetched, query) ELSE {})
    /\ name_cache' = name_cache \cup (IF query.kind = "name" THEN LearntName(fetched, query) ELSE {})
    /\ phase' = "ensure"
    /\ UNCHANGED <<uses, tracee, maps_cache, sym_lvl, query, fetched>>

(* _ensure_process_stopped; then the address is used. *)
Use ==
    /\ phase = "ensure" /\ state = "stopped"
    /\ phase' = "used"
    /\ UNCHANGED <<uses, tracee, caches, sym_lvl, query, fetched, answer>>

GoOn ==
    /\ phase = "used"
    /\ phase' = "idle" /\ query' = Unknown /\ fetched' = Unknown /\ answer' = Unknown
    /\ UNCHANGED <<uses, tracee, caches, sym_lvl>>

-------------------------------------------------------------------------------
AddressInit ==
    /\ uses \in Scenarios
    /\ exe \in DOMAIN Layouts /\ maps \in Layouts[exe]
    /\ state = "stopped"
    /\ maps_cache = Unknown /\ full_path = Unknown /\ symbol_cache = {} /\ name_cache = {}
    /\ sym_lvl \in Levels
    /\ phase = "idle" /\ query = Unknown /\ fetched = Unknown /\ answer = Unknown

AddressNext ==
    \/ Cont \/ Execute \/ Halt \/ Wait \/ SetStopped
    \/ \E p \in DOMAIN Layouts : Exec(p) \/ Again(p)
    \/ \E l \in Levels : SetLevel(l)
    \/ \E q \in Queries : Ask(q)
    \/ FetchMaps \/ KeepMaps \/ AnswerQuery \/ Use \/ GoOn

AddressSpec == AddressInit /\ [][AddressNext]_addressVars

-------------------------------------------------------------------------------
(* Properties. *)

(* What the library keeps is never seen: the address or the name that the  *)
(* script uses is the one that fresh files of the process give, whatever   *)
(* the process has mapped since, and in the next process too.              *)
AnswersCurrent ==
    phase = "used" /\ uses = {} =>
        answer = Answer(maps, exe, query, {}, {})

(* The name that a backtrace gives an address is, as a symbol of the file  *)
(* that is mapped there, that address again.                               *)
NamesResolve ==
    phase = "used" /\ uses = {} /\ query.kind = "name" /\ answer.name # "hex" =>
        \E m \in ToSet(maps) :
            /\ Within(m, query.at)
            /\ ResolveSymbol(maps, m.file, answer.name, answer.offset, "binary", sym_lvl, {})
                   = query.at
================================================================================
