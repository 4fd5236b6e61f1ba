------------------------------- MODULE MemoryView -------------------------------
(***************************************************************************)
(* Access to the memory of the debugged process, d.memory[...]: a range of *)
(* bytes of any length and alignment on top of ptrace, which moves whole   *)
(* words.  The addresses and symbols in the key are resolved as Addresses  *)
(* says, against maps that do not change here.                             *)
(*                                                                         *)
(* An access is a loop of word accesses, each of them a command of its own *)
(* to the polling thread, and may fail in the middle.                      *)
(***************************************************************************)
EXTENDS Addresses

CONSTANTS Maps,        \* sequence of [start, end, file], by address
          Binary,      \* the file of the debugged program
          Space,       \* the addresses considered
          unit_size,   \* bytes in a word
          Keys,        \* keys that the script uses, a subset of Key
          Data,        \* byte strings that it writes
          Level,       \* sym_lvl
          MaxWrites    \* bound: writes of the script

(* d.memory[start], d.memory[start:stop] and d.memory[start, size], with   *)
(* the file that may follow; arg is the stop or the size.  If the start or *)
(* the stop is a symbol, not "none", the number is the offset from it.     *)
Key == [kind : {"one", "slice", "sized"}, symbol : STRING, start : Int, stop : STRING, arg : Int, file : STRING]

ASSUME MemoryAssumption ==
    /\ unit_size \in Nat \ {0}
    /\ Space \subseteq Int
    /\ Nowhere \notin Int /\ MaxWrites \in Nat
    /\ \A k \in Keys : k \in Key
    /\ Data \subseteq Seq(Int)
    /\ Maps \in Seq([start : Int, end : Int, file : STRING])
    /\ \A m \in DOMAIN Maps : Maps[m].start < Maps[m].end
    /\ \E m \in DOMAIN Maps : Maps[m].file = Binary

VARIABLES memory,       \* the bytes of the process
          before,       \* the same when the access began
          pc,           \* "idle", "read" or "write"
          key, value,   \* the arguments of the access
          address, size,
          cursor,       \* the next word
          data,         \* read so far
          out,          \* how the last access ended
          writes        \* how many writes there were

vars == <<memory, before, pc, key, value, address, size, cursor, data, out, writes>>

Mapped(a) == CheckAbsoluteAddress(Maps, a)
Word(a) == a..(a + unit_size - 1)
Bytes(mem, a, n) == [k \in 1..n |-> mem[a + k - 1]]
NoOut == [status |-> "none", data |-> << >>]

-------------------------------------------------------------------------------
(* The key. *)

(* Absolute addresses are not validated here. *)
Resolve(a, file) == IF file = "absolute" THEN a ELSE ResolveAddress(Maps, Binary, a, file)

(* One end of a range: an address, or an offset from a symbol. *)
Place(symbol, a, file) ==
    IF symbol = "none" THEN Resolve(a, file)
    ELSE ResolveSymbol(Maps, Binary, symbol, a, file, Level, {})

ResolvedStart(k) == Place(k.symbol, k.start, k.file)

ResolvedSize(k) ==
    CASE k.kind = "one" -> 1
      [] k.kind = "sized" -> k.arg
      [] k.kind = "slice" ->
            LET stop == Place(k.stop, k.arg, k.file)
            IN  IF stop = Nowhere THEN Nowhere ELSE stop - ResolvedStart(k)

(* The key is refused with a ValueError. *)
Refused(k) ==
    \/ ResolvedStart(k) = Nowhere
    \/ k.kind = "slice" /\ (ResolvedSize(k) = Nowhere \/ ResolvedSize(k) < 0)

(* What the debugger makes of each key. *)
Resolved == [k \in Keys |-> IF Refused(k) THEN [refused |-> TRUE, address |-> 0, size |-> 0]
                            ELSE [refused |-> FALSE, address |-> ResolvedStart(k), size |-> ResolvedSize(k)]]

(* What an access to memory that cannot be read ends with: d.memory[symbol] *)
(* passes the exception of ptrace on.                                       *)
Failure == IF key.kind = "one" /\ key.symbol # "none" THEN "OSError" ELSE "ValueError"

-------------------------------------------------------------------------------
(* The accesses. *)

Remainder(n) == n % unit_size
Whole(n) == n - Remainder(n)

Begin(k, what) ==
    LET r == Resolved[k]
    IN  /\ pc = "idle"
        /\ key' = k
        /\ before' = memory
        /\ data' = << >>
        /\ address' = r.address
        /\ cursor' = address'
        /\ size' = IF what = "read" THEN r.size ELSE Len(value')
        /\ IF r.refused THEN pc' = "idle" /\ out' = [status |-> "ValueError", data |-> << >>]
           ELSE pc' = what /\ out' = NoOut
        /\ UNCHANGED memory

(* __getitem__ *)
GetItem(k) ==
    /\ value' = << >>
    /\ Begin(k, "read")
    /\ UNCHANGED writes

(* __setitem__: the length of the value counts, not that of the range. *)
SetItem(k, v) ==
    /\ writes < MaxWrites
    /\ writes' = writes + 1
    /\ value' = v
    /\ Begin(k, "write")

End(status, bytes) ==
    /\ pc' = "idle"
    /\ out' = [status |-> status, data |-> bytes]

(* peek_memory: a word that is not mapped as a whole cannot be read. *)
CanPeek(a) == \A b \in Word(a) : b \in Space /\ Mapped(b)

(* Mutant: the remainder is counted from the start. *)
ReadRestFromStart ==
    /\ pc = "read"
    /\ cursor >= address + Whole(size)
    /\ IF Remainder(size) = 0 THEN End("read", data)
       ELSE IF ~CanPeek(address) THEN End(Failure, << >>)
       ELSE End("read", data \o Bytes(memory, address, Remainder(size)))
    /\ UNCHANGED <<memory, before, key, value, address, size, cursor, data, writes>>

(* read, word by word *)
ReadWord ==
    /\ pc = "read"
    /\ cursor < address + Whole(size)
    /\ IF CanPeek(cursor)
       THEN /\ data' = data \o Bytes(memory, cursor, unit_size)
            /\ cursor' = cursor + unit_size
            /\ UNCHANGED <<pc, out>>
       ELSE End(Failure, << >>) /\ UNCHANGED <<data, cursor>>
    /\ UNCHANGED <<memory, before, key, value, address, size, writes>>

(* ... and its last, incomplete word *)
ReadRest ==
    /\ pc = "read"
    /\ cursor >= address + Whole(size)
    /\ LET a == address + Whole(size)
       IN  IF Remainder(size) = 0 THEN End("read", data)
           ELSE IF ~CanPeek(a) THEN End(Failure, << >>)
           ELSE End("read", data \o Bytes(memory, a, Remainder(size)))
    /\ UNCHANGED <<memory, before, key, value, address, size, cursor, data, writes>>

(* poke_memory: bytes up to the first that is not mapped.  A failure is    *)
(* not noticed, since -1 comes back as an unsigned number.                 *)
Poke(a, w) ==
    memory' = [b \in Space |->
                  IF b \in Word(a) /\ (\A c \in a..b : c \in Space /\ Mapped(c)) THEN w[b - a + 1]
                  ELSE memory[b]]

(* write, word by word *)
WriteWord ==
    /\ pc = "write"
    /\ cursor < address + Whole(size)
    /\ Poke(cursor, SubSeq(value, cursor - address + 1, cursor - address + unit_size))
    /\ cursor' = cursor + unit_size
    /\ UNCHANGED <<before, pc, key, value, address, size, data, out, writes>>

(* Mutant: the bytes after the value are cleared. *)
WriteRestClears ==
    /\ pc = "write"
    /\ cursor >= address + Whole(size)
    /\ LET a == address + Whole(size)
           r == Remainder(size)
       IN  IF r = 0 THEN End("written", << >>) /\ UNCHANGED memory
           ELSE IF ~CanPeek(a) THEN End(Failure, << >>) /\ UNCHANGED memory
           ELSE /\ Poke(a, SubSeq(value, size - r + 1, size) \o [k \in 1..(unit_size - r) |-> 0])
                /\ End("written", << >>)
    /\ UNCHANGED <<before, key, value, address, size, cursor, data, writes>>

(* ... and the last, completed with what was there *)
WriteRest ==
    /\ pc = "write"
    /\ cursor >= address + Whole(size)
    /\ LET a == address + Whole(size)
           r == Remainder(size)
       IN  IF r = 0 THEN End("written", << >>) /\ UNCHANGED memory
           ELSE IF ~CanPeek(a) THEN End(Failure, << >>) /\ UNCHANGED memory
           ELSE /\ Poke(a, SubSeq(value, size - r + 1, size) \o Bytes(memory, a + r, unit_size - r))
                /\ End("written", << >>)
    /\ UNCHANGED <<before, key, value, address, size, cursor, data, writes>>

-------------------------------------------------------------------------------
(* Every byte starts with a value of its own, so that none can be mistaken *)
(* for another.                                                            *)
Init ==
    /\ memory = [a \in Space |-> a]
    /\ before = memory
    /\ pc = "idle"
    /\ key = [kind |-> "one", symbol |-> "none", start |-> 0, stop |-> "none", arg |-> 0,
              file |-> "absolute"]
    /\ value = << >> /\ data = << >>
    /\ address = 0 /\ size = 0 /\ cursor = 0
    /\ out = NoOut
    /\ writes = 0

Next ==
    \/ \E k \in Keys : GetItem(k) \/ (\E v \in Data : SetItem(k, v))
    \/ ReadWord \/ ReadRest \/ WriteWord \/ WriteRest

Spec == Init /\ [][Next]_vars

-------------------------------------------------------------------------------
(* Properties. *)

(* The bytes that the script means: as many as the key says, from where    *)
(* its first address is.  A size below zero means nothing, nor does a      *)
(* slice with one end an address of the process and the other an offset    *)
(* into the file, or an offset from a symbol.                              *)
InFile(symbol) ==
    IF symbol = "none" THEN 0
    ELSE The(ElfSymbol(The(First(Maps, Filtered(Maps, Named(Binary, key.file)))).file, Level, symbol))
Meant == CASE key.kind = "one" -> 1
           [] key.kind = "sized" -> key.arg
           [] key.kind = "slice" -> (InFile(key.stop) + key.arg) - (InFile(key.symbol) + key.start)
Moved(a) == Resolve(a, key.file) # a
Meaningful ==
    /\ key.kind = "sized" => key.arg >= 0
    /\ key.kind = "slice" =>
          \/ key.symbol # "none" /\ key.stop # "none"
          \/ key.symbol = "none" /\ key.stop = "none" /\ Moved(key.start) = Moved(key.arg)
Target == address..(address + Len(value) - 1)
Wanted == address..(address + Resolved[key].size - 1)

(* A read that succeeds returns exactly the bytes that the key means,      *)
(* whatever the length and the alignment, and leaves memory alone.         *)
ReadExact ==
    out.status = "read" /\ Meaningful =>
        /\ Len(out.data) = Meant
        /\ out.data = Bytes(memory, address, Meant)
        /\ memory = before

(* A write changes no byte beside those of the value and of the range that *)
(* is asked for, even if it fails on the way, although it writes whole     *)
(* words; and one to mapped memory that is not refused has written all the *)
(* bytes of the value, also those beyond the range.  What becomes of the   *)
(* rest of the range when the value is shorter is left open here: it is    *)
(* ShortValuePadded.                                                       *)
WriteExact ==
    /\ \A a \in Space : memory[a] # before[a] => a \in Target \/ a \in Wanted
    /\ out.status = "written" /\ (\A a \in Target : a \in Space /\ Mapped(a)) =>
          \A a \in Target : memory[a] = value[a - address + 1]

(* "Proving a shorter byte-like object than the length you are trying to   *)
(* write will result in zero padding" (docs/source/basic_features.rst):    *)
(* what the value does not fill of a mapped range is zero afterwards.      *)
ShortValuePadded ==
    out.status = "written" /\ Meaningful /\ (\A a \in Wanted : a \in Space /\ Mapped(a)) =>
        \A a \in Wanted \ Target : memory[a] = 0

================================================================================
