------------------------------- MODULE Addresses -------------------------------
(***************************************************************************)
(* From what a script writes, an address or a symbol with the file it is   *)
(* meant in, to an address of the process, and from an address back to a   *)
(* symbol.  The memory maps are sequences of [start, end, file], in the    *)
(* order of the addresses.                                                 *)
(***************************************************************************)
EXTENDS Integers, Sequences, SequencesExt, FiniteSets

CONSTANTS Match,      \* for each name of a file that the script uses: the paths it is a part of
          Pie,        \* files that are position independent
          Tables,     \* symbols of each file: own, of its debug file, of debuginfod;
                      \* sequences of [name, low, high]
          Nowhere     \* an exception instead of an address

ASSUME TablesAssumption ==
    \A f \in DOMAIN Tables : \A k \in 1..3 :
        Tables[f][k] \in Seq([name : STRING, low : Int, high : Int])

Within(m, a) == m.start <= a /\ a < m.end

(* What stands at the first of some places of a sequence: a set with at    *)
(* most one element, and the element of such a set.                        *)
First(s, places) == {s[i] : i \in {i \in places : \A j \in places : i <= j}}
The(set) == CHOOSE x \in set : TRUE

(* check_absolute_address *)
CheckAbsoluteAddress(maps, a) == \E m \in ToSet(maps) : Within(m, a)

(* The files that a name stands for. *)
Named(exe, file) ==
    CASE file \in {"hybrid", "binary"} -> {exe}
      [] file = "absolute" -> {}
      [] OTHER -> Match[file]

(* Where the maps of the one file stand that is meant; none or several     *)
(* files are refused.                                                      *)
Filtered(maps, files) ==
    LET found == {i \in DOMAIN maps : maps[i].file \in files}
    IN  IF \E i, j \in found : maps[i].file # maps[j].file THEN {} ELSE found

(* normalize_and_validate_address, of the maps that were found *)
Normalize(maps, found, a) ==
    LET first == First(maps, found)
        b == IF a < The(first).start THEN a + The(first).start ELSE a
    IN  IF first # {} /\ \E i \in found : Within(maps[i], b) THEN b ELSE Nowhere

(* resolve_address *)
ResolveAddress(maps, exe, a, file) ==
    IF file \in {"hybrid", "absolute"} /\ CheckAbsoluteAddress(maps, a) THEN a
    ELSE IF file = "absolute" THEN Nowhere
    ELSE Normalize(maps, Filtered(maps, Named(exe, file)), a)

-------------------------------------------------------------------------------
(* Symbols.  The setting sym_lvl of the library says where they are looked *)
(* for.                                                                    *)

NoTables == <<<< >>, << >>, << >>>>
TablesOf(file) == IF file \in DOMAIN Tables THEN Tables[file] ELSE NoTables
Sources(level) == (IF level > 0 THEN {1} ELSE {}) \cup (IF level > 2 THEN {2} ELSE {})
                    \cup (IF level > 4 THEN {3} ELSE {})

(* What is looked at, in this order. *)
Searched(file, level) ==
    LET t(k) == IF k \in Sources(level) THEN TablesOf(file)[k] ELSE << >>
    IN  t(1) \o t(2) \o t(3)

(* resolve_symbol and resolve_address of the ELF file: a set with at most  *)
(* one answer.                                                             *)
ElfSymbol(file, level, name) ==
    LET s == Searched(file, level)
    IN  {e.low : e \in First(s, {i \in DOMAIN s : s[i].name = name})}

(* Mutant: the offset is counted from the beginning of the file. *)
ElfNameInFile(file, level, a) ==
    LET s == Searched(file, level)
        around == {i \in DOMAIN s : s[i].low <= a /\ a < s[i].high}
    IN  IF level = 0 THEN {[name |-> "hex", offset |-> a]}
        ELSE {[name |-> e.name, offset |-> a] : e \in First(s, around)}

ElfName(file, level, a) ==
    LET s == Searched(file, level)
        around == {i \in DOMAIN s : s[i].low <= a /\ a < s[i].high}
    IN  IF level = 0 THEN {[name |-> "hex", offset |-> a]}
        ELSE {[name |-> e.name, offset |-> a - e.low] : e \in First(s, around)}

(* Where the first map of a file begins. *)
Base(maps, file) ==
    IF file \in Pie THEN The(First(maps, {i \in DOMAIN maps : maps[i].file = file})).start ELSE 0

(* Both keep what they answered (functools.cache), in known as a set of    *)
(* [file, of, value], and do not look it up again, at any level.           *)
Known(known, f, x) == {e.value : e \in {e \in known : e.file = f /\ e.of = x}}
LookSymbol(f, level, x, known) ==
    IF Known(known, f, x) # {} THEN Known(known, f, x) ELSE ElfSymbol(f, level, x)
LookName(f, level, x, known) ==
    IF Known(known, f, x) # {} THEN Known(known, f, x) ELSE ElfName(f, level, x)

(* resolve_symbol, resolve_symbol_in_maps *)
ResolveSymbol(maps, exe, name, offset, file, level, known) ==
    LET first == First(maps, Filtered(maps, Named(exe, file)))
        f == The(first).file
        found_at == LookSymbol(f, level, name, known)
    IN  IF first = {} \/ found_at = {} THEN Nowhere ELSE The(found_at) + Base(maps, f) + offset

(* resolve_address_in_maps: the first file around the address that knows   *)
(* it, from its first map to its last.                                     *)
Around(maps, f, a) ==
    \E m, n \in ToSet(maps) : m.file = f /\ n.file = f /\ m.start <= a /\ a < n.end

NamesIn(maps, f, a, level, known) == LookName(f, level, a - Base(maps, f), known)
Knowing(maps, a, level, known) ==
    First(maps, {i \in DOMAIN maps : /\ Around(maps, maps[i].file, a)
                                     /\ NamesIn(maps, maps[i].file, a, level, known) # {}})

NameOf(maps, a, level, known) ==
    LET knows == Knowing(maps, a, level, known)
    IN  IF knows = {} THEN [name |-> "hex", offset |-> a]
        ELSE The(NamesIn(maps, The(knows).file, a, level, known))
================================================================================
