--------------------------- MODULE TraceeViewsProofs ---------------------------
(***************************************************************************)
(* What a script sees of a stopped process is the truth.  Memory: for      *)
(* every word size, every map and every key, an access in whole words      *)
(* moves exactly the bytes that the key means.  Addresses: for every       *)
(* program, every layout of its memory and every symbol table, what the    *)
(* library keeps of the process and of the ELF files never shows in an     *)
(* answer.                                                                 *)
(***************************************************************************)
EXTENDS MemoryView, AddressResolution, TLAPS

-------------------------------------------------------------------------------
(* Words: a size is a number of whole words and a rest. *)

LEMMA TimesMonotone ==
    ASSUME NEW u \in Nat, NEW q \in Int, NEW d \in Int, q <= d
    PROVE  u * q <= u * d
<1>1. u * (d - q) >= 0
  OBVIOUS
<1>2. u * (d - q) = u * d - u * q
  OBVIOUS
<1> QED BY <1>1, <1>2

LEMMA NextWord ==
    ASSUME NEW u \in Nat \ {0}, NEW q \in Int, NEW d \in Int, u * q < u * d
    PROVE  u * (q + 1) = u * q + u /\ u * q + u <= u * d
<1>1. u * (q + 1) = u * q + u
  OBVIOUS
<1>2. q + 1 <= d
  <2>1. d <= q => u * d <= u * q
    BY TimesMonotone
  <2> QED BY <2>1
<1>3. u * (q + 1) <= u * d
  BY <1>2, TimesMonotone
<1> QED BY <1>1, <1>3

LEMMA WholeIs ==
    ASSUME NEW n \in Int
    PROVE  /\ Remainder(n) \in 0..(unit_size - 1) /\ Whole(n) \in Int /\ Whole(n) + Remainder(n) = n
           /\ \E d \in Int : Whole(n) = unit_size * d /\ (n >= 0 => d >= 0)
<1>1. unit_size \in Nat \ {0}
  BY MemoryAssumption
<1>2. n % unit_size \in 0..(unit_size - 1) /\ n = unit_size * (n \div unit_size) + (n % unit_size)
  BY <1>1
<1>3. n \div unit_size \in Int /\ (n >= 0 => n \div unit_size >= 0)
  BY <1>1
<1> QED BY <1>1, <1>2, <1>3 DEF Whole, Remainder

-------------------------------------------------------------------------------
(* Bytes. *)

LEMMA BytesLen ==
    ASSUME NEW mem, NEW a \in Int, NEW n \in Nat
    PROVE  Len(Bytes(mem, a, n)) = n
<1> DEFINE S == {mem[b] : b \in Int}
<1>1. \A b \in Int : mem[b] \in S
  OBVIOUS
<1> HIDE DEF S
<1>2. Bytes(mem, a, n) \in Seq(S)
  BY <1>1 DEF Bytes
<1> QED BY <1>2 DEF Bytes

LEMMA LastBytes ==
    ASSUME NEW v \in Seq(Int), NEW r \in 0..Len(v)
    PROVE  /\ SubSeq(v, Len(v) - r + 1, Len(v)) \in Seq(Int) /\ Len(SubSeq(v, Len(v) - r + 1, Len(v))) = r
           /\ \A i \in 1..r : SubSeq(v, Len(v) - r + 1, Len(v))[i] = v[Len(v) - r + i]
OBVIOUS

LEMMA BytesJoin ==
    ASSUME NEW mem, NEW a \in Int, NEW n \in Nat, NEW k \in Nat
    PROVE  Bytes(mem, a, n) \o Bytes(mem, a + n, k) = Bytes(mem, a, n + k)
<1> DEFINE S == {mem[b] : b \in Int}
<1>0. \A b \in Int : mem[b] \in S
  OBVIOUS
<1> HIDE DEF S
<1>1. Bytes(mem, a, n) \in Seq(S) /\ Len(Bytes(mem, a, n)) = n
  BY <1>0 DEF Bytes
<1>2. Bytes(mem, a + n, k) \in Seq(S) /\ Len(Bytes(mem, a + n, k)) = k
  BY <1>0 DEF Bytes
<1>3. Bytes(mem, a, n + k) = [i \in 1..(n + k) |-> mem[a + i - 1]]
  BY DEF Bytes
<1>4. Bytes(mem, a, n) \o Bytes(mem, a + n, k) = [i \in 1..(n + k) |-> mem[a + i - 1]]
  BY <1>1, <1>2 DEF Bytes
<1> QED BY <1>3, <1>4

-------------------------------------------------------------------------------
(* Keys. *)

LEMMA ConcatType ==
    ASSUME NEW S, NEW p \in Seq(S), NEW q \in Seq(S)
    PROVE  p \o q \in Seq(S)
OBVIOUS

LEMMA ElementType ==
    ASSUME NEW S, NEW s \in Seq(S), NEW i \in DOMAIN s
    PROVE  s[i] \in S
OBVIOUS

LEMMA FirstIs ==
    ASSUME NEW s, NEW places, First(s, places) # {}
    PROVE  \E i \in places : The(First(s, places)) = s[i] /\ (\A j \in places : i <= j)
BY DEF First, The

LEMMA FilteredIs ==
    ASSUME NEW files, First(Maps, Filtered(Maps, files)) # {}
    PROVE  /\ The(First(Maps, Filtered(Maps, files))).start \in Int
           /\ Base(Maps, The(First(Maps, Filtered(Maps, files))).file) \in Int
<1> DEFINE found == Filtered(Maps, files)
           file == The(First(Maps, found)).file
           own == {i \in DOMAIN Maps : Maps[i].file = file}
<1>1. Maps \in Seq([start : Int, end : Int, file : STRING])
  BY MemoryAssumption
<1>2. \A i \in DOMAIN Maps : Maps[i].start \in Int
  <2>1. \A i \in DOMAIN Maps : Maps[i] \in [start : Int, end : Int, file : STRING]
    BY <1>1, ElementType
  <2> QED BY <2>1
<1>3. found \subseteq DOMAIN Maps
  BY DEF Filtered
<1>4. PICK i \in found : The(First(Maps, found)) = Maps[i] /\ (\A j \in found : i <= j)
  BY FirstIs
<1>5. The(First(Maps, found)).start \in Int
  BY <1>2, <1>3, <1>4
<1>6. \A j \in own : j \in found
  <2>1. found = {j \in DOMAIN Maps : Maps[j].file \in files}
    BY <1>4 DEF Filtered
  <2> QED BY <1>4, <2>1
<1>7. i \in own /\ (\A j \in own : i <= j)
  BY <1>3, <1>4, <1>6
<1>8. First(Maps, own) # {}
  BY <1>7 DEF First
<1>9. PICK j \in own : The(First(Maps, own)) = Maps[j]
  BY <1>8, FirstIs
<1>10. The(First(Maps, own)).start \in Int
  BY <1>2, <1>9
<1> QED BY <1>5, <1>10 DEF Base

(* An address is used as it is, or moved by the start of the file.         *)
LEMMA ResolveIs ==
    ASSUME NEW file
    PROVE  \E base \in Int : \A a \in Int : Resolve(a, file) \in {a, a + base, Nowhere}
<1> DEFINE found == Filtered(Maps, Named(Binary, file))
           first == First(Maps, found)
<1>1. CASE first = {}
  <2>1. \A a : Normalize(Maps, found, a) = Nowhere
    BY <1>1 DEF Normalize
  <2>2. \A a \in Int : Resolve(a, file) \in {a, Nowhere}
    BY <2>1 DEF Resolve, ResolveAddress
  <2> QED BY <2>2
<1>2. CASE first # {}
  <2>1. The(first).start \in Int
    BY <1>2, FilteredIs
  <2>2. \A a \in Int : Normalize(Maps, found, a) \in {a, a + The(first).start, Nowhere}
    BY DEF Normalize
  <2>3. \A a \in Int : Resolve(a, file) \in {a, a + The(first).start, Nowhere}
    BY <2>2 DEF Resolve, ResolveAddress
  <2> QED BY <2>1, <2>3
<1> QED BY <1>1, <1>2

LEMMA FoundIs ==
    ASSUME NEW name, NEW offset, NEW file, ResolveSymbol(Maps, Binary, name, offset, file, Level, {}) # Nowhere
    PROVE  LET f == The(First(Maps, Filtered(Maps, Named(Binary, file)))).file
           IN  The(ElfSymbol(f, Level, name)) \in Int /\ Base(Maps, f) \in Int
<1> DEFINE first == First(Maps, Filtered(Maps, Named(Binary, file)))
           f == The(first).file
           s == Searched(f, Level)
           named == {i \in DOMAIN s : s[i].name = name}
           found_at == ElfSymbol(f, Level, name)
<1>1. found_at = {e.low : e \in First(s, named)}
  BY DEF ElfSymbol
<1>2. s \in Seq([name : STRING, low : Int, high : Int])
  <2> DEFINE Entry == [name : STRING, low : Int, high : Int]
             t(k) == IF k \in Sources(Level) THEN TablesOf(f)[k] ELSE << >>
  <2>1. \A k \in 1..3 : TablesOf(f)[k] \in Seq(Entry)
    <3>1. \A g \in DOMAIN Tables : \A k \in 1..3 : Tables[g][k] \in Seq(Entry)
      BY TablesAssumption
    <3> HIDE DEF Entry
    <3>2. \A k \in 1..3 : NoTables[k] = << >>
      BY DEF NoTables
    <3>3. << >> \in Seq(Entry)
      OBVIOUS
    <3> QED BY <3>1, <3>2, <3>3 DEF TablesOf
  <2> HIDE DEF Entry
  <2>2. \A k \in 1..3 : t(k) \in Seq(Entry)
    BY <2>1
  <2>3. s = (t(1) \o t(2)) \o t(3)
    BY DEF Searched
  <2> HIDE DEF t, s
  <2>4. t(1) \o t(2) \in Seq(Entry)
    BY <2>2, ConcatType
  <2>5. s \in Seq(Entry)
    BY <2>2, <2>3, <2>4, ConcatType
  <2> QED BY <2>5 DEF Entry
<1>3. \A v \in found_at : v \in Int
  <2>1. \A i \in DOMAIN s : s[i] \in [name : STRING, low : Int, high : Int]
    BY <1>2, ElementType
  <2>2. \A i \in DOMAIN s : s[i].low \in Int
    BY <2>1
  <2> QED BY <1>1, <2>2 DEF First
<1> HIDE DEF found_at
<1>4. found_at # {} => The(found_at) \in Int
  BY <1>3 DEF The
<1>5. first # {} => Base(Maps, f) \in Int
  BY FilteredIs
<1>6. LookSymbol(f, Level, name, {}) = found_at
  BY DEF LookSymbol, Known, found_at
<1>7. first # {} /\ found_at # {}
  BY <1>6 DEF ResolveSymbol
<1> QED BY <1>4, <1>5, <1>7 DEF found_at

(* A symbol is its place in the one file that is meant, moved by where the *)
(* file is and by the offset.                                              *)
LEMMA SymbolMoves ==
    ASSUME NEW name, NEW offset, NEW file, ResolveSymbol(Maps, Binary, name, offset, file, Level, {}) # Nowhere
    PROVE  LET f == The(First(Maps, Filtered(Maps, Named(Binary, file)))).file
           IN  ResolveSymbol(Maps, Binary, name, offset, file, Level, {})
                  = The(ElfSymbol(f, Level, name)) + Base(Maps, f) + offset
<1> DEFINE f == The(First(Maps, Filtered(Maps, Named(Binary, file)))).file
<1>1. LookSymbol(f, Level, name, {}) = ElfSymbol(f, Level, name)
  BY DEF LookSymbol, Known
<1> QED BY <1>1 DEF ResolveSymbol

LEMMA PlaceIs ==
    ASSUME NEW symbol, NEW a \in Int, NEW file
    PROVE  Place(symbol, a, file) \in Int \cup {Nowhere}
<1> DEFINE f == The(First(Maps, Filtered(Maps, Named(Binary, file)))).file
           found == ResolveSymbol(Maps, Binary, symbol, a, file, Level, {})
<1>1. Resolve(a, file) \in Int \cup {Nowhere}
  BY ResolveIs
<1>2. CASE found # Nowhere
  <2>1. found = The(ElfSymbol(f, Level, symbol)) + Base(Maps, f) + a
    BY <1>2, SymbolMoves
  <2>2. The(ElfSymbol(f, Level, symbol)) \in Int /\ Base(Maps, f) \in Int
    BY <1>2, FoundIs
  <2>3. found \in Int
    BY <2>1, <2>2
  <2> QED BY <1>1, <2>3 DEF Place
<1> QED BY <1>1, <1>2 DEF Place

LEMMA KeyIs ==
    ASSUME NEW k \in Keys, ~Refused(k)
    PROVE  ResolvedStart(k) \in Int /\ ResolvedSize(k) \in Int /\ (k.kind = "slice" => ResolvedSize(k) >= 0)
<1>1. /\ k.start \in Int /\ k.arg \in Int /\ k.kind \in {"one", "slice", "sized"} /\ Nowhere \notin Int
      /\ ResolvedStart(k) # Nowhere
  BY MemoryAssumption DEF Key, Refused
<1>2. ResolvedStart(k) \in Int
  BY <1>1, PlaceIs DEF ResolvedStart
<1>3. CASE k.kind = "slice"
  <2>1. Place(k.stop, k.arg, k.file) \in Int \cup {Nowhere}
    BY <1>1, PlaceIs
  <2>2. Place(k.stop, k.arg, k.file) # Nowhere /\ ResolvedSize(k) = Place(k.stop, k.arg, k.file) - ResolvedStart(k)
    BY <1>3 DEF ResolvedSize, Refused
  <2>3. ResolvedSize(k) \in Int
    BY <1>2, <2>1, <2>2
  <2> QED BY <1>2, <1>3, <2>3 DEF Refused
<1>4. CASE k.kind # "slice"
  BY <1>1, <1>2, <1>4 DEF ResolvedSize
<1> QED BY <1>3, <1>4

(* Two ends of the same kind are as far apart as they are written. *)
LEMMA SymbolsApart ==
    ASSUME key \in Keys, ~Refused(key), key.kind = "slice", key.symbol # "none", key.stop # "none"
    PROVE  ResolvedSize(key) = (InFile(key.stop) + key.arg) - (InFile(key.symbol) + key.start)
<1> DEFINE f == The(First(Maps, Filtered(Maps, Named(Binary, key.file)))).file
           stop == ResolveSymbol(Maps, Binary, key.stop, key.arg, key.file, Level, {})
           start == ResolveSymbol(Maps, Binary, key.symbol, key.start, key.file, Level, {})
           p == The(ElfSymbol(f, Level, key.stop))
           q == The(ElfSymbol(f, Level, key.symbol))
<1>1. key.start \in Int /\ key.arg \in Int
  BY MemoryAssumption DEF Key
<1>2. start # Nowhere /\ stop # Nowhere /\ ResolvedSize(key) = stop - start
  BY DEF Refused, ResolvedStart, ResolvedSize, Place
<1>3. stop = p + Base(Maps, f) + key.arg /\ start = q + Base(Maps, f) + key.start
  BY <1>2, SymbolMoves
<1>4. InFile(key.stop) = p /\ InFile(key.symbol) = q
  BY DEF InFile
<1>5. p \in Int /\ q \in Int /\ Base(Maps, f) \in Int
  BY <1>2, FoundIs
<1> HIDE DEF p, q, f, stop, start
<1> QED BY <1>1, <1>2, <1>3, <1>4, <1>5

LEMMA OffsetsApart ==
    ASSUME key \in Keys, ~Refused(key), key.kind = "slice", key.symbol = "none", key.stop = "none",
           Moved(key.start) = Moved(key.arg)
    PROVE  ResolvedSize(key) = key.arg - key.start
<1>1. key.start \in Int /\ key.arg \in Int /\ Nowhere \notin Int
  BY MemoryAssumption DEF Key
<1>2. PICK base \in Int : \A a \in Int : Resolve(a, key.file) \in {a, a + base, Nowhere}
  BY ResolveIs
<1>3. /\ Resolve(key.start, key.file) # Nowhere /\ Resolve(key.arg, key.file) # Nowhere
      /\ ResolvedSize(key) = Resolve(key.arg, key.file) - Resolve(key.start, key.file)
  BY DEF Place, ResolvedStart, ResolvedSize, Refused
<1>4. (Resolve(key.start, key.file) # key.start) = (Resolve(key.arg, key.file) # key.arg)
  BY DEF Moved
<1>5. /\ Resolve(key.start, key.file) \in {key.start, key.start + base}
      /\ Resolve(key.arg, key.file) \in {key.arg, key.arg + base}
  BY <1>1, <1>2, <1>3
<1> QED BY <1>1, <1>3, <1>4, <1>5

(* What the key means is what the debugger makes of it. *)
LEMMA MeantIs ==
    ASSUME key \in Keys, ~Refused(key), Meaningful
    PROVE  Meant = ResolvedSize(key) /\ ResolvedSize(key) \in Nat
<1>1. key.start \in Int /\ key.arg \in Int /\ key.kind \in {"one", "slice", "sized"}
  BY MemoryAssumption DEF Key
<1>2. ResolvedStart(key) \in Int /\ ResolvedSize(key) \in Int /\ (key.kind = "slice" => ResolvedSize(key) >= 0)
  BY KeyIs
<1>3. CASE key.kind = "slice"
  <2>1. Meant = (InFile(key.stop) + key.arg) - (InFile(key.symbol) + key.start)
    BY <1>3 DEF Meant
  <2>2. CASE key.symbol # "none" /\ key.stop # "none"
    BY <1>2, <1>3, <2>1, <2>2, SymbolsApart
  <2>3. CASE key.symbol = "none" /\ key.stop = "none" /\ Moved(key.start) = Moved(key.arg)
    <3>1. InFile(key.stop) = 0 /\ InFile(key.symbol) = 0
      BY <2>3 DEF InFile
    <3> QED BY <1>1, <1>2, <1>3, <2>1, <2>3, <3>1, OffsetsApart
  <2> QED BY <1>3, <2>2, <2>3 DEF Meaningful
<1>4. CASE key.kind = "sized"
  BY <1>1, <1>4 DEF Meaningful, Meant, ResolvedSize
<1>5. CASE key.kind = "one"
  BY <1>5 DEF Meant, ResolvedSize
<1> QED BY <1>1, <1>3, <1>4, <1>5

-------------------------------------------------------------------------------
(* The accesses, word after word. *)

AtWord(q) == cursor = address + unit_size * q /\ unit_size * q <= Whole(size)
Writable == \A a \in Target : a \in Space /\ Mapped(a)

Accessing ==
    /\ pc \in {"idle", "read", "write"}
    /\ pc # "idle" => /\ key \in Keys /\ ~Refused(key) /\ address = ResolvedStart(key)
                      /\ size \in Int /\ out = NoOut

(* What is read so far is what stands before the next word. *)
Reading ==
    pc = "read" => /\ size = ResolvedSize(key) /\ memory = before
                   /\ size >= 0 => \E q \in Nat : AtWord(q) /\ data = Bytes(memory, address, unit_size * q)

(* What stands before the next word is written. *)
Writing ==
    pc = "write" => /\ value \in Seq(Int) /\ size = Len(value)
                    /\ \E q \in Nat : AtWord(q)
                    /\ Writable => \A a \in address..(cursor - 1) : memory[a] = value[a - address + 1]

(* Only the bytes of the value are touched, and in the end all of them are *)
(* written: what the code does, whatever range was asked for.              *)
Written ==
    /\ \A a \in Space : memory[a] # before[a] => a \in Target
    /\ out.status = "written" /\ Writable => \A a \in Target : memory[a] = value[a - address + 1]

IndInv == Accessing /\ Reading /\ Writing /\ ReadExact /\ Written

-------------------------------------------------------------------------------
LEMMA IndInit == Init => IndInv
<1> SUFFICES ASSUME Init PROVE IndInv
  OBVIOUS
<1>1. Accessing /\ Reading /\ Writing
  BY DEF Init, Accessing, Reading, Writing
<1>2. ReadExact /\ Written
  BY DEF Init, ReadExact, Written, NoOut
<1> QED BY <1>1, <1>2 DEF IndInv

LEMMA StutterStep == ASSUME IndInv, UNCHANGED vars PROVE IndInv'
<1>1. UNCHANGED <<memory, before, pc, key, value, address, size, cursor, data, out>>
  BY DEF vars
<1>2. Accessing' /\ Reading'
  BY <1>1 DEF IndInv, Accessing, Reading, AtWord
<1>3. Writing'
  BY <1>1 DEF IndInv, Writing, AtWord, Writable, Target
<1>4. ReadExact'
  BY <1>1 DEF IndInv, ReadExact, Meaningful, Moved, Meant, InFile
<1>5. Written'
  BY <1>1 DEF IndInv, Written, Writable, Target
<1> QED BY <1>2, <1>3, <1>4, <1>5 DEF IndInv

(* An access that is refused has touched nothing. *)
LEMMA RefuseStep ==
    ASSUME pc' = "idle", out'.status = "ValueError", before' = memory'
    PROVE  IndInv'
<1>1. Accessing' /\ Reading' /\ Writing'
  BY DEF Accessing, Reading, Writing
<1>2. ReadExact' /\ Written'
  BY DEF ReadExact, Written
<1> QED BY <1>1, <1>2 DEF IndInv

LEMMA ResolvedIs ==
    ASSUME NEW k \in Keys
    PROVE  /\ Resolved[k].refused <=> Refused(k)
           /\ ~Refused(k) => Resolved[k].address = ResolvedStart(k) /\ Resolved[k].size = ResolvedSize(k)
<1>1. CASE Refused(k)
  <2>1. Resolved[k] = [refused |-> TRUE, address |-> 0, size |-> 0]
    BY <1>1 DEF Resolved
  <2> QED BY <1>1, <2>1
<1>2. CASE ~Refused(k)
  <2>1. Resolved[k] = [refused |-> FALSE, address |-> ResolvedStart(k), size |-> ResolvedSize(k)]
    BY <1>2 DEF Resolved
  <2> QED BY <1>2, <2>1
<1> QED BY <1>1, <1>2

(* No word is moved yet. *)
LEMMA FirstWord ==
    ASSUME NEW n \in Int, n >= 0
    PROVE  unit_size * 0 = 0 /\ unit_size * 0 <= Whole(n)
<1>1. unit_size \in Nat \ {0}
  BY MemoryAssumption
<1>2. unit_size * 0 = 0
  BY <1>1
<1>3. PICK d \in Int : Whole(n) = unit_size * d /\ d >= 0
  BY WholeIs
<1>4. unit_size * 0 <= unit_size * d
  BY <1>1, <1>3, TimesMonotone
<1> QED BY <1>2, <1>3, <1>4

LEMMA GetItemStep == ASSUME NEW k \in Keys, GetItem(k) PROVE IndInv'
<1>1. /\ key' = k /\ before' = memory /\ memory' = memory /\ data' = << >> /\ value' = << >>
      /\ address' = Resolved[k].address /\ cursor' = address' /\ size' = Resolved[k].size
  BY DEF GetItem, Begin
<1>2. CASE Resolved[k].refused
  <2>1. pc' = "idle" /\ out' = [status |-> "ValueError", data |-> << >>]
    BY <1>2 DEF GetItem, Begin
  <2> QED BY <1>1, <2>1, RefuseStep
<1>3. CASE ~Resolved[k].refused
  <2>1. pc' = "read" /\ out' = NoOut
    BY <1>3 DEF GetItem, Begin
  <2>2. ~Refused(k) /\ address' = ResolvedStart(k) /\ size' = ResolvedSize(k)
    BY <1>1, <1>3, ResolvedIs
  <2>3. address' \in Int /\ size' \in Int
    BY <2>2, KeyIs
  <2>4. Accessing' /\ Writing'
    BY <1>1, <2>1, <2>2, <2>3 DEF Accessing, Writing
  <2>5. Reading'
    <3> SUFFICES ASSUME size' >= 0 PROVE \E q \in Nat : (AtWord(q) /\ data = Bytes(memory, address, unit_size * q))'
      BY <1>1, <2>1, <2>2 DEF Reading
    <3>1. unit_size * 0 = 0 /\ unit_size * 0 <= Whole(size')
      BY <2>3, FirstWord
    <3>2. Bytes(memory', address', 0) = << >>
      BY DEF Bytes
    <3>3. AtWord(0)' /\ data' = Bytes(memory', address', unit_size * 0)
      BY <1>1, <2>3, <3>1, <3>2 DEF AtWord, Whole, Remainder
    <3> QED BY <3>3
  <2>6. ReadExact' /\ Written'
    BY <1>1, <2>1 DEF ReadExact, Written, NoOut
  <2> QED BY <2>4, <2>5, <2>6 DEF IndInv
<1> QED BY <1>2, <1>3

LEMMA SetItemStep == ASSUME NEW k \in Keys, NEW v \in Data, SetItem(k, v) PROVE IndInv'
<1>1. /\ key' = k /\ before' = memory /\ memory' = memory /\ value' = v
      /\ address' = Resolved[k].address /\ cursor' = address' /\ size' = Len(v)
  BY DEF SetItem, Begin
<1>2. CASE Resolved[k].refused
  <2>1. pc' = "idle" /\ out' = [status |-> "ValueError", data |-> << >>]
    BY <1>2 DEF SetItem, Begin
  <2> QED BY <1>1, <2>1, RefuseStep
<1>3. CASE ~Resolved[k].refused
  <2>1. pc' = "write" /\ out' = NoOut
    BY <1>3 DEF SetItem, Begin
  <2>2. ~Refused(k) /\ address' = ResolvedStart(k)
    BY <1>1, <1>3, ResolvedIs
  <2>3. address' \in Int /\ v \in Seq(Int) /\ size' \in Int /\ size' >= 0
    BY <1>1, <2>2, KeyIs, MemoryAssumption
  <2>4. Accessing' /\ Reading'
    BY <1>1, <2>1, <2>2, <2>3 DEF Accessing, Reading
  <2>5. Writing'
    <3>1. unit_size * 0 = 0 /\ unit_size * 0 <= Whole(size')
      BY <2>3, FirstWord
    <3>2. AtWord(0)'
      BY <1>1, <2>3, <3>1 DEF AtWord, Whole, Remainder
    <3>3. \E q \in Nat : AtWord(q)'
      BY <3>2
    <3>4. address'..(cursor' - 1) = {}
      BY <1>1, <2>3
    <3> QED BY <1>1, <2>3, <3>3, <3>4 DEF Writing
  <2>6. ReadExact' /\ Written'
    BY <1>1, <2>1 DEF ReadExact, Written, NoOut
  <2> QED BY <2>4, <2>5, <2>6 DEF IndInv
<1> QED BY <1>2, <1>3

-------------------------------------------------------------------------------
(* Reading. *)

LEMMA FailStep ==
    ASSUME IndInv, End(Failure, << >>), UNCHANGED <<memory, before, key, value, address, size>>
    PROVE  IndInv'
<1>1. pc' = "idle" /\ out' = [status |-> Failure, data |-> << >>] /\ Failure \in {"OSError", "ValueError"}
  BY DEF End, Failure
<1>2. Accessing' /\ Reading' /\ Writing'
  BY <1>1 DEF Accessing, Reading, Writing
<1>3. ReadExact'
  BY <1>1 DEF ReadExact
<1>4. Written'
  BY <1>1 DEF IndInv, Written, Writable, Target
<1> QED BY <1>2, <1>3, <1>4 DEF IndInv

(* The next word, if the access is not at its last, incomplete one. *)
LEMMA AtNextWord ==
    ASSUME NEW q \in Nat, AtWord(q), address \in Int, size \in Int, cursor < address + Whole(size)
    PROVE  /\ unit_size * q \in Nat /\ cursor + unit_size = address + unit_size * (q + 1)
           /\ unit_size * (q + 1) = unit_size * q + unit_size
           /\ unit_size * (q + 1) <= Whole(size)
<1>1. unit_size \in Nat \ {0}
  BY MemoryAssumption
<1>2. unit_size * q \in Nat
  BY <1>1
<1>3. PICK d \in Int : Whole(size) = unit_size * d
  BY WholeIs
<1>4. unit_size * q < unit_size * d
  BY <1>2, <1>3, WholeIs DEF AtWord
<1>5. unit_size * (q + 1) = unit_size * q + unit_size /\ unit_size * q + unit_size <= unit_size * d
  BY <1>1, <1>4, NextWord
<1> QED BY <1>1, <1>2, <1>3, <1>5 DEF AtWord

LEMMA ReadWordStep == ASSUME IndInv, ReadWord PROVE IndInv'
<1>1. /\ pc = "read" /\ cursor < address + Whole(size)
      /\ UNCHANGED <<memory, before, key, value, address, size>>
  BY DEF ReadWord
<1>2. CASE CanPeek(cursor)
  <2>1. /\ data' = data \o Bytes(memory, cursor, unit_size) /\ cursor' = cursor + unit_size
        /\ UNCHANGED <<pc, out>>
    BY <1>2 DEF ReadWord
  <2>2. address \in Int /\ size \in Int
    BY <1>1, KeyIs DEF IndInv, Accessing
  <2>3. Accessing' /\ Writing'
    BY <1>1, <2>1 DEF IndInv, Accessing, Writing
  <2>4. Reading'
    <3> SUFFICES ASSUME size >= 0
                 PROVE  \E q \in Nat : (AtWord(q) /\ data = Bytes(memory, address, unit_size * q))'
      BY <1>1, <2>1 DEF IndInv, Reading
    <3>1. PICK q \in Nat : AtWord(q) /\ data = Bytes(memory, address, unit_size * q)
      BY <1>1 DEF IndInv, Reading
    <3>2. /\ unit_size * q \in Nat /\ cursor + unit_size = address + unit_size * (q + 1)
          /\ unit_size * (q + 1) = unit_size * q + unit_size /\ unit_size * (q + 1) <= Whole(size)
      BY <1>1, <2>2, <3>1, AtNextWord
    <3>3. unit_size \in Nat /\ cursor = address + unit_size * q
      BY <3>1, MemoryAssumption DEF AtWord
    <3>4. data' = Bytes(memory, address, unit_size * q + unit_size)
      BY <2>1, <2>2, <3>1, <3>2, <3>3, BytesJoin
    <3>5. AtWord(q + 1)' /\ data' = Bytes(memory', address', unit_size * (q + 1))
      BY <1>1, <2>1, <3>2, <3>4 DEF AtWord, Whole, Remainder
    <3>6. q + 1 \in Nat
      OBVIOUS
    <3> QED BY <3>5, <3>6
  <2>5. ReadExact'
    BY <1>1, <2>1 DEF IndInv, Accessing, ReadExact, NoOut
  <2>6. Written'
    BY <1>1, <2>1 DEF IndInv, Written, Writable, Target
  <2> QED BY <2>3, <2>4, <2>5, <2>6 DEF IndInv
<1>3. CASE ~CanPeek(cursor)
  BY <1>1, <1>3, FailStep DEF ReadWord
<1> QED BY <1>2, <1>3

(* All words are moved when the last, incomplete one is the next. *)
LEMMA AtRest ==
    ASSUME NEW q \in Nat, AtWord(q), address \in Int, size \in Int, cursor >= address + Whole(size)
    PROVE  unit_size * q = Whole(size) /\ cursor = address + Whole(size) /\ Whole(size) \in Nat
<1>1. unit_size * q \in Nat
  BY MemoryAssumption
<1> QED BY <1>1, WholeIs DEF AtWord

LEMMA ReadRestStep == ASSUME IndInv, ReadRest PROVE IndInv'
<1> DEFINE a == address + Whole(size)
           r == Remainder(size)
<1>1. /\ pc = "read" /\ cursor >= a
      /\ UNCHANGED <<memory, before, key, value, address, size>>
  BY DEF ReadRest
<1>2. /\ key \in Keys /\ ~Refused(key) /\ address \in Int /\ size \in Int /\ size = ResolvedSize(key)
      /\ memory = before
  BY <1>1, KeyIs DEF IndInv, Accessing, Reading
<1>3. \/ r = 0 /\ End("read", data)
      \/ End(Failure, << >>)
      \/ r # 0 /\ End("read", data \o Bytes(memory, a, r))
  BY DEF ReadRest
<1>4. CASE End(Failure, << >>)
  BY <1>1, <1>4, FailStep
<1>5. ASSUME NEW bytes, End("read", bytes), size >= 0 => bytes = Bytes(memory, address, size)
      PROVE  IndInv'
  <2>1. pc' = "idle" /\ out' = [status |-> "read", data |-> bytes]
    BY <1>5 DEF End
  <2>2. Accessing' /\ Reading' /\ Writing'
    BY <2>1 DEF Accessing, Reading, Writing
  <2>3. ReadExact'
    <3> SUFFICES ASSUME Meaningful'
                 PROVE  Len(bytes) = Meant' /\ bytes = Bytes(memory', address', Meant') /\ memory' = before'
      BY <2>1 DEF ReadExact
    <3>1. Meaningful /\ Meant' = Meant
      BY <1>1 DEF Meaningful, Moved, Meant, InFile
    <3>2. Meant = size /\ size \in Nat
      BY <1>2, <3>1, MeantIs
    <3>3. bytes = Bytes(memory, address, size) /\ Len(bytes) = size
      BY <1>2, <1>5, <3>2, BytesLen
    <3> QED BY <1>1, <1>2, <3>1, <3>2, <3>3
  <2>4. Written'
    BY <1>1, <2>1 DEF IndInv, Written, Writable, Target
  <2> QED BY <2>2, <2>3, <2>4 DEF IndInv
<1>6. r \in Nat /\ Whole(size) + r = size
  BY <1>2, WholeIs, MemoryAssumption
<1>7. size >= 0 => Whole(size) \in Nat /\ data = Bytes(memory, address, Whole(size))
  <2> SUFFICES ASSUME size >= 0 PROVE Whole(size) \in Nat /\ data = Bytes(memory, address, Whole(size))
    OBVIOUS
  <2>1. PICK q \in Nat : AtWord(q) /\ data = Bytes(memory, address, unit_size * q)
    BY <1>1 DEF IndInv, Reading
  <2> QED BY <1>1, <1>2, <2>1, AtRest
<1>8. CASE r = 0 /\ End("read", data)
  <2>1. Whole(size) = size
    BY <1>2, <1>6, <1>8, WholeIs
  <2> QED BY <1>5, <1>7, <1>8, <2>1
<1>9. CASE r # 0 /\ End("read", data \o Bytes(memory, a, r))
  <2>1. size >= 0 => data \o Bytes(memory, a, r) = Bytes(memory, address, size)
    <3> SUFFICES ASSUME size >= 0 PROVE data \o Bytes(memory, a, r) = Bytes(memory, address, size)
      OBVIOUS
    <3>1. Bytes(memory, address, Whole(size)) \o Bytes(memory, address + Whole(size), r)
             = Bytes(memory, address, Whole(size) + r)
      <4>1. address \in Int /\ Whole(size) \in Nat /\ r \in Nat
        BY <1>2, <1>6, <1>7
      <4> HIDE DEF r
      <4> QED BY <4>1, BytesJoin
    <3>2. data = Bytes(memory, address, Whole(size)) /\ Whole(size) + r = size
      BY <1>6, <1>7
    <3>3. data \o Bytes(memory, a, r) = Bytes(memory, address, Whole(size) + r)
      BY <3>1, <3>2
    <3>4. Bytes(memory, address, Whole(size) + r) = Bytes(memory, address, size)
      BY <3>2
    <3> QED BY <3>3, <3>4
  <2> QED BY <1>5, <1>9, <2>1
<1> QED BY <1>3, <1>4, <1>8, <1>9

-------------------------------------------------------------------------------
(* Writing. *)

LEMMA WriteWordStep == ASSUME IndInv, WriteWord PROVE IndInv'
<1>1. /\ pc = "write" /\ cursor < address + Whole(size) /\ cursor' = cursor + unit_size
      /\ UNCHANGED <<before, pc, key, value, address, size, out>>
  BY DEF WriteWord
<1>2. /\ address \in Int /\ size \in Int /\ value \in Seq(Int) /\ size = Len(value) /\ out = NoOut
      /\ unit_size \in Nat \ {0} /\ Space \subseteq Int
  BY <1>1, KeyIs, MemoryAssumption DEF IndInv, Accessing, Writing
<1>3. PICK q \in Nat : AtWord(q)
  BY <1>1 DEF IndInv, Writing
<1>4. /\ unit_size * q \in Nat /\ cursor + unit_size = address + unit_size * (q + 1)
      /\ unit_size * (q + 1) = unit_size * q + unit_size /\ unit_size * (q + 1) <= Whole(size)
  BY <1>1, <1>2, <1>3, AtNextWord
<1>5. /\ cursor \in Int /\ cursor >= address /\ cursor + unit_size - 1 <= address + Len(value) - 1
      /\ cursor + unit_size <= address + Whole(size)
  <2>1. Whole(size) <= size /\ Whole(size) \in Int
    BY <1>2, WholeIs
  <2> QED BY <1>2, <1>3, <1>4, <2>1 DEF AtWord
<1>6. Target' = Target
  BY <1>1 DEF Target
<1>7. ASSUME NEW b \in Space
      PROVE  /\ b \notin Word(cursor) => memory'[b] = memory[b]
             /\ (b \in Word(cursor) /\ \A c \in cursor..b : c \in Space /\ Mapped(c)) =>
                    memory'[b] = value[b - address + 1]
             /\ memory'[b] # memory[b] => b \in Target
  <2> DEFINE w == SubSeq(value, cursor - address + 1, cursor - address + unit_size)
  <2>1. memory'[b] = IF b \in Word(cursor) /\ (\A c \in cursor..b : c \in Space /\ Mapped(c))
                     THEN w[b - cursor + 1] ELSE memory[b]
    BY DEF WriteWord, Poke
  <2>2. b \in Word(cursor) => w[b - cursor + 1] = value[b - address + 1]
    BY <1>2, <1>5 DEF Word
  <2>3. b \in Word(cursor) => b \in Target
    BY <1>2, <1>5 DEF Word, Target
  <2> HIDE DEF w
  <2> QED BY <2>1, <2>2, <2>3
<1>8. Accessing' /\ Reading'
  BY <1>1 DEF IndInv, Accessing, Reading
<1>9. ReadExact'
  BY <1>1, <1>2 DEF ReadExact, NoOut
<1>10. Written'
  BY <1>1, <1>2, <1>6, <1>7 DEF IndInv, Written, NoOut
<1>11. Writing'
  <2>1. AtWord(q + 1)' /\ q + 1 \in Nat
    BY <1>1, <1>4 DEF AtWord, Whole, Remainder
  <2>2. \E p \in Nat : AtWord(p)'
    BY <2>1
  <2>3. ASSUME Writable', NEW a \in address'..(cursor' - 1) PROVE memory'[a] = value'[a - address' + 1]
    <3>1. Writable /\ a \in Target /\ a \in Space /\ (\A c \in Target : c \in Space /\ Mapped(c))
      BY <1>1, <1>2, <1>5, <1>6, <2>3 DEF Writable, Target
    <3>2. CASE a < cursor
      <4>1. a \in address..(cursor - 1) /\ a \notin Word(cursor)
        BY <1>1, <1>2, <1>5, <2>3, <3>2 DEF Word
      <4>2. memory[a] = value[a - address + 1]
        BY <1>1, <3>1, <4>1 DEF IndInv, Writing
      <4> QED BY <1>1, <1>7, <3>1, <4>1, <4>2
    <3>3. CASE a >= cursor
      <4>1. a \in Word(cursor) /\ (\A c \in cursor..a : c \in Target)
        BY <1>1, <1>2, <1>5, <2>3, <3>3 DEF Word, Target
      <4> QED BY <1>1, <1>7, <3>1, <4>1
    <3> QED BY <1>1, <1>2, <1>5, <2>3, <3>2, <3>3
  <2> QED BY <1>1, <1>2, <2>2, <2>3 DEF Writing
<1> QED BY <1>8, <1>9, <1>10, <1>11 DEF IndInv

LEMMA WriteRestStep == ASSUME IndInv, WriteRest PROVE IndInv'
<1> DEFINE a == address + Whole(size)
           r == Remainder(size)
           w == SubSeq(value, size - r + 1, size) \o Bytes(memory, a + r, unit_size - r)
<1>1. /\ pc = "write" /\ cursor >= a /\ UNCHANGED <<before, key, value, address, size>>
  BY DEF WriteRest
<1>2. \/ End(Failure, << >>) /\ memory' = memory
      \/ r = 0 /\ End("written", << >>) /\ memory' = memory
      \/ r # 0 /\ Poke(a, w) /\ End("written", << >>)
  BY DEF WriteRest
<1>3. /\ address \in Int /\ size \in Int /\ value \in Seq(Int) /\ size = Len(value)
      /\ unit_size \in Nat \ {0} /\ Space \subseteq Int
  BY <1>1, KeyIs, MemoryAssumption DEF IndInv, Accessing, Writing
<1>4. Whole(size) \in Nat /\ cursor = a
  <2>1. PICK q \in Nat : AtWord(q)
    BY <1>1 DEF IndInv, Writing
  <2> QED BY <1>1, <1>3, <2>1, AtRest
<1>5. r \in 0..(unit_size - 1) /\ Whole(size) + r = size /\ Target' = Target
  BY <1>1, <1>3, WholeIs DEF Target
<1>6. /\ a \in Int /\ a >= address /\ a + r = address + size
      /\ Target = address..(address + size - 1)
  <2>1. a \in Int /\ a >= address
    BY <1>3, <1>4
  <2>2. a + r = address + size
    BY <1>3, <1>4, <1>5, SMTT(30)
  <2> QED BY <1>3, <2>1, <2>2 DEF Target
<1>7. CASE End(Failure, << >>) /\ memory' = memory
  BY <1>1, <1>7, FailStep
<1>8. ASSUME End("written", << >>),
             \A b \in Space : memory'[b] # memory[b] => b \in Target,
             Writable => \A b \in Target : memory'[b] = value[b - address + 1]
      PROVE  IndInv'
  <2>1. pc' = "idle" /\ out' = [status |-> "written", data |-> << >>]
    BY <1>8 DEF End
  <2>2. Accessing' /\ Reading' /\ Writing' /\ ReadExact'
    BY <2>1 DEF Accessing, Reading, Writing, ReadExact
  <2>3. Written'
    BY <1>1, <1>5, <1>8, <2>1 DEF IndInv, Written, Writable
  <2> QED BY <2>2, <2>3 DEF IndInv
<1>9. Writable => \A b \in address..(a - 1) : memory[b] = value[b - address + 1]
  BY <1>1, <1>4 DEF IndInv, Writing
<1>10. CASE r = 0 /\ End("written", << >>) /\ memory' = memory
  <2>1. Target = address..(a - 1)
    BY <1>3, <1>4, <1>5, <1>10 DEF Target
  <2> QED BY <1>8, <1>9, <1>10, <2>1
<1>11. CASE r # 0 /\ Poke(a, w) /\ End("written", << >>)
  <2>1. ASSUME NEW b \in Space
        PROVE  memory'[b] = IF b \in Word(a) /\ (\A c \in a..b : c \in Space /\ Mapped(c))
                            THEN w[b - a + 1] ELSE memory[b]
    BY <1>11 DEF Poke
  <2>2. ASSUME NEW b \in Word(a) PROVE w[b - a + 1] = IF b \in Target THEN value[b - address + 1] ELSE memory[b]
    <3> DEFINE head == SubSeq(value, size - r + 1, size)
               old == Bytes(memory, a + r, unit_size - r)
    <3>1. head \in Seq(Int) /\ Len(head) = r /\ (\A i \in 1..r : head[i] = value[size - r + i])
      <4>1. r \in 0..Len(value)
        BY <1>3, <1>4, <1>5
      <4> QED BY <1>3, <4>1, LastBytes
    <3>2. old = [k \in 1..(unit_size - r) |-> memory[a + r + k - 1]] /\ unit_size - r \in Nat
      BY <1>3, <1>5 DEF Bytes
    <3>3. /\ b \in Int /\ a \in Int /\ b - a + 1 \in 1..unit_size /\ a + r = address + size
          /\ b \in Target <=> b - a + 1 <= r
      <4>1. b \in Int /\ a <= b /\ b <= a + unit_size - 1
        BY <1>3, <1>6 DEF Word
      <4> HIDE DEF a, r
      <4> QED BY <1>3, <1>5, <1>6, <4>1
    <3> HIDE DEF a, r
    <3>4. CASE b \in Target
      <4>1. w[b - a + 1] = head[b - a + 1]
        BY <3>1, <3>2, <3>3, <3>4
      <4>2. size - r + (b - a + 1) = b - address + 1
        BY <1>3, <1>5, <3>3
      <4> QED BY <3>1, <3>3, <3>4, <4>1, <4>2
    <3>5. CASE b \notin Target
      <4>1. w[b - a + 1] = old[b - a + 1 - r]
        BY <1>3, <1>5, <3>1, <3>2, <3>3, <3>5
      <4>2. old[b - a + 1 - r] = memory[b]
        BY <1>3, <1>5, <3>2, <3>3, <3>5
      <4> QED BY <3>5, <4>1, <4>2
    <3> QED BY <3>4, <3>5
  <2> HIDE DEF w
  <2>3. \A b \in Space : memory'[b] # memory[b] => b \in Target
    BY <2>1, <2>2
  <2>4. ASSUME Writable, NEW b \in Target PROVE memory'[b] = value[b - address + 1]
    <3>1. b \in Space /\ (\A c \in Target : c \in Space /\ Mapped(c))
      BY <2>4 DEF Writable
    <3>2. CASE b < a
      <4>1. b \in address..(a - 1) /\ b \notin Word(a)
        BY <1>3, <1>4, <3>2 DEF Word, Target
      <4> QED BY <1>9, <2>1, <2>4, <3>1, <4>1
    <3>3. CASE b >= a
      <4>1. b \in Word(a) /\ (\A c \in a..b : c \in Target)
        BY <1>3, <1>5, <1>6, <3>3 DEF Word
      <4> QED BY <2>1, <2>2, <3>1, <4>1
    <3> QED BY <1>3, <1>4, <3>2, <3>3 DEF Target
  <2> QED BY <1>8, <1>11, <2>3, <2>4
<1> QED BY <1>2, <1>7, <1>10, <1>11

-------------------------------------------------------------------------------
LEMMA Invariant == Spec => []IndInv
<1>1. Init => IndInv
  BY IndInit
<1>2. IndInv /\ [Next]_vars => IndInv'
  BY StutterStep, GetItemStep, SetItemStep, ReadWordStep, ReadRestStep, WriteWordStep, WriteRestStep DEF Next
<1> QED BY <1>1, <1>2, PTL DEF Spec

(* MemoryView.read, word by word with the rest of the last word cut off,   *)
(* returns exactly the bytes that a meaningful key means, and changes      *)
(* nothing: for every word size, every maps and symbols of the process and *)
(* every key.                                                              *)
THEOREM ReadsExactly == Spec => []ReadExact
<1>1. IndInv => ReadExact
  BY DEF IndInv
<1> QED BY <1>1, Invariant, PTL

(* MemoryView.write changes no byte beside those of the value and of the   *)
(* range, even when it fails on the way and although the last word is      *)
(* written as a whole; and where all the bytes of the value are mapped it  *)
(* has written them all.                                                   *)
THEOREM WritesExactly == Spec => []WriteExact
<1>1. IndInv => WriteExact
  BY DEF IndInv, Written, Writable, WriteExact
<1> QED BY <1>1, Invariant, PTL

-------------------------------------------------------------------------------
(* What is kept of the process and of the ELF files. *)

(* The symbols and names that are kept are those of the files. *)
SymbolsKept == \A e \in symbol_cache : ElfSymbol(e.file, sym_lvl, e.of) = {e.value}
NamesKept == \A e \in name_cache : ElfName(e.file, sym_lvl, e.of) = {e.value}

(* The maps that are kept are those of the process from the moment it is   *)
(* waited for until it runs on, and it does not run on while the script is *)
(* at a question.                                                          *)
MapsKept ==
    /\ state \in {"stopped", "waited"} => maps_cache \in {Unknown, maps}
    /\ phase # "idle" => state = "stopped"
    /\ phase \in {"keep", "resolve"} => fetched = maps
    /\ full_path \in {Unknown, exe}
    /\ phase \in {"ensure", "used"} => answer = Answer(maps, exe, query, {}, {})

Kept == uses = {} => SymbolsKept /\ NamesKept /\ MapsKept

-------------------------------------------------------------------------------
(* At most one answer. *)

LEMMA SearchedIs ==
    ASSUME NEW f, NEW level
    PROVE  Searched(f, level) \in Seq([name : STRING, low : Int, high : Int])
<1> DEFINE Entry == [name : STRING, low : Int, high : Int]
           t(k) == IF k \in Sources(level) THEN TablesOf(f)[k] ELSE << >>
<1>1. \A g \in DOMAIN Tables : \A k \in 1..3 : Tables[g][k] \in Seq(Entry)
  BY TablesAssumption
<1> HIDE DEF Entry
<1>2. (\A k \in 1..3 : NoTables[k] = << >>) /\ << >> \in Seq(Entry)
  BY DEF NoTables
<1>3. \A k \in 1..3 : TablesOf(f)[k] \in Seq(Entry)
  BY <1>1, <1>2 DEF TablesOf
<1>4. \A k \in 1..3 : t(k) \in Seq(Entry)
  BY <1>2, <1>3
<1>5. Searched(f, level) = (t(1) \o t(2)) \o t(3)
  BY DEF Searched
<1> HIDE DEF t
<1>6. t(1) \o t(2) \in Seq(Entry)
  BY <1>4, ConcatType
<1>7. Searched(f, level) \in Seq(Entry)
  BY <1>4, <1>5, <1>6, ConcatType
<1> QED BY <1>7 DEF Entry

LEMMA FirstIsOne ==
    ASSUME NEW s, NEW places \in SUBSET Int, NEW e \in First(s, places)
    PROVE  First(s, places) = {e}
<1>1. PICK i \in places : e = s[i] /\ (\A j \in places : i <= j)
  BY DEF First
<1>2. \A k \in places : (\A j \in places : k <= j) => k = i
  BY <1>1
<1> QED BY <1>1, <1>2 DEF First

LEMMA SymbolIsOne ==
    ASSUME NEW f, NEW level, NEW x, NEW v \in ElfSymbol(f, level, x)
    PROVE  ElfSymbol(f, level, x) = {v}
<1> DEFINE s == Searched(f, level)
           named == {i \in DOMAIN s : s[i].name = x}
<1>1. named \in SUBSET Int
  BY SearchedIs
<1>2. PICK e \in First(s, named) : v = e.low
  BY DEF ElfSymbol
<1>3. First(s, named) = {e}
  BY <1>1, <1>2, FirstIsOne
<1>4. ElfSymbol(f, level, x) = {d.low : d \in First(s, named)}
  BY DEF ElfSymbol
<1> HIDE DEF s, named
<1> QED BY <1>2, <1>3, <1>4

LEMMA NameIsOne ==
    ASSUME NEW f, NEW level, NEW a, NEW v \in ElfName(f, level, a)
    PROVE  ElfName(f, level, a) = {v}
<1> DEFINE s == Searched(f, level)
           around == {i \in DOMAIN s : s[i].low <= a /\ a < s[i].high}
<1>1. CASE level = 0
  BY <1>1 DEF ElfName
<1>2. CASE level # 0
  <2>1. around \in SUBSET Int
    BY SearchedIs
  <2>2. ElfName(f, level, a) = {[name |-> e.name, offset |-> a - e.low] : e \in First(s, around)}
    BY <1>2 DEF ElfName
  <2> HIDE DEF s, around
  <2>3. PICK e \in First(s, around) : v = [name |-> e.name, offset |-> a - e.low]
    BY <2>2
  <2>4. First(s, around) = {e}
    BY <2>1, <2>3, FirstIsOne
  <2> QED BY <2>2, <2>3, <2>4
<1> QED BY <1>1, <1>2

-------------------------------------------------------------------------------
(* What is kept does not change what is found. *)

LEMMA LookSymbolIs ==
    ASSUME SymbolsKept, NEW f, NEW x
    PROVE  /\ LookSymbol(f, sym_lvl, x, symbol_cache) = ElfSymbol(f, sym_lvl, x)
           /\ LookSymbol(f, sym_lvl, x, {}) = ElfSymbol(f, sym_lvl, x)
<1>1. Known({}, f, x) = {}
  BY DEF Known
<1>2. \A v \in Known(symbol_cache, f, x) : ElfSymbol(f, sym_lvl, x) = {v}
  BY DEF Known, SymbolsKept
<1> QED BY <1>1, <1>2 DEF LookSymbol

LEMMA LookNameIs ==
    ASSUME NamesKept, NEW f, NEW x
    PROVE  /\ LookName(f, sym_lvl, x, name_cache) = ElfName(f, sym_lvl, x)
           /\ LookName(f, sym_lvl, x, {}) = ElfName(f, sym_lvl, x)
<1>1. Known({}, f, x) = {}
  BY DEF Known
<1>2. \A v \in Known(name_cache, f, x) : ElfName(f, sym_lvl, x) = {v}
  BY DEF Known, NamesKept
<1> QED BY <1>1, <1>2 DEF LookName

LEMMA AnswerIs ==
    ASSUME SymbolsKept, NamesKept, NEW ms, NEW path, NEW q
    PROVE  Answer(ms, path, q, symbol_cache, name_cache) = Answer(ms, path, q, {}, {})
<1>1. ResolveSymbol(ms, path, q.name, q.at, q.file, sym_lvl, symbol_cache)
         = ResolveSymbol(ms, path, q.name, q.at, q.file, sym_lvl, {})
  BY LookSymbolIs DEF ResolveSymbol
<1>2. \A f : NamesIn(ms, f, q.at, sym_lvl, name_cache) = NamesIn(ms, f, q.at, sym_lvl, {})
  BY LookNameIs DEF NamesIn
<1>3. Knowing(ms, q.at, sym_lvl, name_cache) = Knowing(ms, q.at, sym_lvl, {})
  BY <1>2 DEF Knowing
<1>4. NameOf(ms, q.at, sym_lvl, name_cache) = NameOf(ms, q.at, sym_lvl, {})
  BY <1>2, <1>3 DEF NameOf
<1> QED BY <1>1, <1>4 DEF Answer

(* What is learnt is what the files say. *)
LEMMA LearntIs ==
    ASSUME SymbolsKept, NamesKept, NEW ms, NEW q
    PROVE  /\ \A e \in LearntSymbol(ms, q) : ElfSymbol(e.file, sym_lvl, e.of) = {e.value}
           /\ \A e \in LearntName(ms, q) : ElfName(e.file, sym_lvl, e.of) = {e.value}
<1>1. ASSUME NEW e \in LearntSymbol(ms, q) PROVE ElfSymbol(e.file, sym_lvl, e.of) = {e.value}
  <2>1. PICK f : \E v \in LookSymbol(f, sym_lvl, q.name, symbol_cache) :
                    e = [file |-> f, of |-> q.name, value |-> v]
    BY DEF LearntSymbol, Learnt
  <2>2. e.file = f /\ e.of = q.name /\ e.value \in ElfSymbol(f, sym_lvl, q.name)
    BY <2>1, LookSymbolIs
  <2> QED BY <2>2, SymbolIsOne
<1>2. ASSUME NEW e \in LearntName(ms, q) PROVE ElfName(e.file, sym_lvl, e.of) = {e.value}
  <2>1. PICK f : \E v \in NamesIn(ms, f, q.at, sym_lvl, name_cache) :
                    e = [file |-> f, of |-> q.at - Base(ms, f), value |-> v]
    BY DEF LearntName, Learnt
  <2>2. NamesIn(ms, f, q.at, sym_lvl, name_cache) = ElfName(f, sym_lvl, q.at - Base(ms, f))
    BY LookNameIs DEF NamesIn
  <2>3. e.file = f /\ e.of = q.at - Base(ms, f) /\ e.value \in ElfName(f, sym_lvl, q.at - Base(ms, f))
    BY <2>1, <2>2
  <2> QED BY <2>3, NameIsOne
<1> QED BY <1>1, <1>2

-------------------------------------------------------------------------------
(* The steps. *)

LEMMA KeptInit == AddressInit => Kept
BY DEF AddressInit, Kept, SymbolsKept, NamesKept, MapsKept

(* The process and the polling thread leave symbols and names alone. *)
LEMMA ProcessStep ==
    ASSUME Kept, \/ Cont \/ Execute \/ Halt \/ Wait \/ SetStopped \/ UNCHANGED addressVars
                 \/ \E p \in DOMAIN Layouts : Exec(p) \/ Again(p)
                 \/ \E l \in Levels : SetLevel(l)
    PROVE  Kept'
<1>1. UNCHANGED <<uses, symbol_cache, name_cache, full_path, query, phase, fetched, answer>>
  BY DEF Cont, Execute, Halt, Wait, SetStopped, addressVars, Exec, Again, SetLevel, caches, script
<1> SUFFICES ASSUME uses = {} PROVE (SymbolsKept /\ NamesKept /\ MapsKept)'
  BY <1>1 DEF Kept
<1>2. sym_lvl' = sym_lvl
  BY DEF Cont, Execute, Halt, Wait, SetStopped, addressVars, Exec, Again, SetLevel
<1>3. exe' = exe
  BY DEF Cont, Execute, Halt, Wait, SetStopped, addressVars, Exec, Again, SetLevel, tracee
<1>4. SymbolsKept' /\ NamesKept'
  BY <1>1, <1>2 DEF Kept, SymbolsKept, NamesKept
<1>5. phase # "idle" => maps' = maps /\ state' = "stopped"
  BY DEF Kept, MapsKept, Cont, Execute, Halt, Wait, SetStopped, addressVars, Exec, Again, SetLevel, tracee
<1>6. state' \in {"stopped", "waited"} => maps_cache' \in {Unknown, maps'}
  BY DEF Kept, MapsKept, Cont, Execute, Halt, Wait, SetStopped, addressVars, Exec, Again, SetLevel,
         tracee, caches
<1>7. phase # "idle" => Answer(maps, exe, query, {}, {})' = Answer(maps, exe, query, {}, {})
  BY <1>1, <1>2, <1>3, <1>5 DEF Answer
<1>8. MapsKept'
  BY <1>1, <1>3, <1>5, <1>6, <1>7 DEF Kept, MapsKept
<1> QED BY <1>4, <1>8

(* A question is asked, the maps are looked for, and the answer is used. *)
LEMMA ScriptStep ==
    ASSUME Kept, (\E q \in Queries : Ask(q)) \/ FetchMaps \/ KeepMaps \/ Use \/ GoOn
    PROVE  Kept'
<1>1. UNCHANGED <<uses, exe, maps, state, full_path, symbol_cache, name_cache, sym_lvl>>
  BY DEF Ask, FetchMaps, KeepMaps, Use, GoOn, tracee, caches
<1> SUFFICES ASSUME uses = {} PROVE (SymbolsKept /\ NamesKept /\ MapsKept)'
  BY <1>1 DEF Kept
<1>2. SymbolsKept' /\ NamesKept'
  BY <1>1 DEF Kept, SymbolsKept, NamesKept
<1>3. state \in {"stopped", "waited"} => maps_cache' \in {Unknown, maps}
  BY DEF Kept, MapsKept, Ask, FetchMaps, KeepMaps, Use, GoOn, caches
<1>4. phase' # "idle" => state = "stopped"
  BY DEF Kept, MapsKept, Ask, FetchMaps, KeepMaps, Use, GoOn
<1>5. phase' \in {"keep", "resolve"} => fetched' = maps
  BY DEF Kept, MapsKept, Ask, FetchMaps, KeepMaps, Use, GoOn
<1>6. phase' \in {"ensure", "used"} => answer' = Answer(maps, exe, query, {}, {}) /\ query' = query
  BY DEF Kept, MapsKept, Ask, FetchMaps, KeepMaps, Use, GoOn
<1>7. phase' \in {"ensure", "used"} => answer' = Answer(maps, exe, query, {}, {})'
  BY <1>1, <1>6 DEF Answer
<1>8. MapsKept'
  BY <1>1, <1>3, <1>4, <1>5, <1>7 DEF Kept, MapsKept
<1> QED BY <1>2, <1>8

(* The answer, and what is learnt on the way. *)
LEMMA AnswerStep == ASSUME Kept, AnswerQuery PROVE Kept'
<1>1. UNCHANGED <<uses, exe, maps, state, maps_cache, sym_lvl, query, fetched>>
  BY DEF AnswerQuery, tracee
<1> SUFFICES ASSUME uses = {} PROVE (SymbolsKept /\ NamesKept /\ MapsKept)'
  BY <1>1 DEF Kept
<1>2. SymbolsKept /\ NamesKept /\ MapsKept /\ phase = "resolve" /\ phase' = "ensure"
  BY DEF Kept, AnswerQuery
<1>3. fetched = maps /\ Path = exe
  BY <1>2 DEF MapsKept, Path
<1>4. \A e \in symbol_cache' : e \in symbol_cache \/ e \in LearntSymbol(fetched, query)
  BY DEF AnswerQuery
<1>5. \A e \in name_cache' : e \in name_cache \/ e \in LearntName(fetched, query)
  BY DEF AnswerQuery
<1>6. SymbolsKept'
  BY <1>1, <1>2, <1>4, LearntIs DEF SymbolsKept
<1>7. NamesKept'
  BY <1>1, <1>2, <1>5, LearntIs DEF NamesKept
<1>8. answer' = Answer(maps, exe, query, symbol_cache, name_cache)
  BY <1>3 DEF AnswerQuery
<1>9. answer' = Answer(maps, exe, query, {}, {})
  BY <1>2, <1>8, AnswerIs
<1>10. Answer(maps, exe, query, {}, {})' = Answer(maps, exe, query, {}, {})
  BY <1>1 DEF Answer
<1>11. full_path' \in {Unknown, exe}
  BY <1>2, <1>3 DEF AnswerQuery, MapsKept
<1>12. MapsKept'
  BY <1>1, <1>2, <1>9, <1>10, <1>11 DEF MapsKept
<1> QED BY <1>6, <1>7, <1>12

-------------------------------------------------------------------------------
(* Whatever the process maps while it runs, and in the next process that   *)
(* the debugger starts or attaches to: the address, symbol or name that    *)
(* the script uses is the one that the maps and the ELF files as they are  *)
(* at that moment give, although get_process_maps, _get_process_full_path  *)
(* and the look-ups in the ELF files answer from their caches.             *)
THEOREM CachesInvisible == AddressSpec => []AnswersCurrent
<1>1. AddressInit => Kept
  BY KeptInit
<1>2. Kept /\ [AddressNext]_addressVars => Kept'
  BY ProcessStep, ScriptStep, AnswerStep DEF AddressNext
<1>3. Kept => AnswersCurrent
  BY DEF Kept, MapsKept, AnswersCurrent
<1> QED BY <1>1, <1>2, <1>3, PTL DEF AddressSpec

===============================================================================
