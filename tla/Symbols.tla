-------------------------------- MODULE Symbols --------------------------------
(***************************************************************************)
(* misc::unique and misc::symbol: a name is the address of the one copy of *)
(* its string, which outlives every symbol, and the names bind::Renamer    *)
(* gives, made of a name and a counter.  A string is the sequence of its   *)
(* characters.                                                             *)
(***************************************************************************)
EXTENDS Integers, Sequences, FiniteSets

CONSTANTS
  SymbolNames,  \* the strings a program has names for
  MaxSymbols,   \* bound on the symbols made from them
  MaxCount      \* bound on the names given

ASSUME SymbolsAssumption == SymbolNames \subseteq Seq(STRING)

VARIABLES
  objects,  \* object_set_instance: the address of each string in the set
  count,    \* Renamer::count
  symbols,  \* history: the symbols there are, each with its string
  given     \* history: the strings of the names given, in order

symbolVars == << objects, count, symbols, given >>

(* An insert moves nothing and leaves a string alone that is there already.*)
Insert(set, s) ==
  [t \in DOMAIN set \cup {s} |-> IF t \in DOMAIN set THEN set[t] ELSE Cardinality(DOMAIN set)]

(* unique::get: what is at the address.                                    *)
Get(symbol) == {s \in DOMAIN objects : objects[s] = symbol}

(* std::to_string *)
Digit == << "0", "1", "2", "3", "4", "5", "6", "7", "8", "9" >>
ToDigits[n \in Nat] ==
  IF n < 10 THEN << Digit[n + 1] >> ELSE Append(ToDigits[n \div 10], Digit[(n % 10) + 1])

\* Mutant: the counter follows the name at once.
NewNameTight(name, n) == name \o ToDigits[n]

(* Renamer of a declaration, and symbol::fresh.                            *)
NewName(name, n) == name \o << "_" >> \o ToDigits[n]

-----------------------------------------------------------------------------
SymbolInit == objects = << >> /\ count = 0 /\ symbols = {} /\ given = << >>

(* unique::unique: the string is inserted, and then looked for.            *)
Unique(s) ==
  /\ objects' = Insert(objects, s)
  /\ symbols' = symbols \cup {[string |-> s, obj |-> objects'[s]]}

MakeSymbol(s) ==
  /\ Cardinality(symbols) < MaxSymbols + count
  /\ Unique(s)
  /\ UNCHANGED << count, given >>

Rename(name) ==
  /\ count < MaxCount
  /\ Unique(NewName(name, count))
  /\ count' = count + 1
  /\ given' = Append(given, NewName(name, count))

SymbolNext == \E s \in SymbolNames : MakeSymbol(s) \/ Rename(s)
SymbolSpec == SymbolInit /\ [][SymbolNext]_symbolVars

-----------------------------------------------------------------------------
(* However many symbols are made in between, two of them are equal when    *)
(* their strings are, and each gives its string back (unique.hxx).         *)
SymbolsAreStrings ==
  \A p, q \in symbols : /\ (p.obj = q.obj) = (p.string = q.string)
                        /\ Get(p.obj) = {p.string}

(* Two names that are given are different, whatever they were before, also *)
(* when one ends like the number of another (renamer.cc, symbol::fresh).   *)
GivenNamesDiffer ==
  \A i, j \in DOMAIN given : i # j => given[i] # given[j]

NamesStayApart == SymbolsAreStrings /\ GivenNamesDiffer

-----------------------------------------------------------------------------
(* What every step keeps: no two strings have one address, the address of  *)
(* a symbol is that of its string, and each name was given with a number   *)
(* of its own.                                                             *)
OneAddressEach ==
  /\ IsFiniteSet(DOMAIN objects)
  /\ objects \in [DOMAIN objects -> 0..Cardinality(DOMAIN objects) - 1]
  /\ \A s, t \in DOMAIN objects : objects[s] = objects[t] => s = t

NumbersAreGiven ==
  /\ count \in Nat /\ DOMAIN given = 1..count
  /\ \A i \in 1..count : \E name \in SymbolNames : given[i] = NewName(name, i - 1)

SymbolInv ==
  /\ OneAddressEach
  /\ \A p \in symbols : p.string \in DOMAIN objects /\ p.obj = objects[p.string]
  /\ NumbersAreGiven
=============================================================================
